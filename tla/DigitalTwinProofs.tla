-------------------------- MODULE DigitalTwinProofs --------------------------
(***************************************************************************)
(* Theorems about DigitalTwin, and about the syncs and the reports that    *)
(* call it, for every set of threads, detectors and rooms, every capacity  *)
(* of the event log, every list a sync may be given and every bound on the *)
(* calls.                                                                  *)
(***************************************************************************)
EXTENDS DigitalTwinSync, TwinReports, SequenceTheorems, FiniteSetTheorems,
        WellFoundedInduction, TLAPS

\* A push on the bounded log keeps its type.
LEMMA PushType ==
    ASSUME NEW S, NEW q \in Seq(S), NEW e \in S
    PROVE  Push(q, e) \in Seq(S)
  <1>1. CASE Len(q) < LogCap
    BY <1>1 DEF Push
  <1>2. CASE ~(Len(q) < LogCap)
    <2>1. q # <<>>
      BY <1>2, LogCapAssumption
    <2>2. Tail(q) \in Seq(S)
      BY <2>1
    <2> QED  BY <1>2, <2>2 DEF Push
  <1> QED  BY <1>1, <1>2

\* The assignments of update_detector_status touch one object, and of it only
\* status, installed and verified.
LEMMA UpdatedType ==
    ASSUME NEW obj \in Object, NEW s \in Status, NEW v \in BOOLEAN
    PROVE  /\ Updated(obj, s, v) \in Object
           /\ Updated(obj, s, v).status = s
           /\ Updated(obj, s, v).det = obj.det
  BY DEF Updated, Object

LEMMA HeapAfterUpdate ==
    ASSUME NEW h \in Seq(Object), NEW o \in 1 .. Len(h), NEW s \in Status, NEW v \in BOOLEAN,
           NEW g, g = [h EXCEPT ![o] = Updated(@, s, v)]
    PROVE  /\ g \in Seq(Object)
           /\ Len(g) = Len(h)
           /\ \A p \in 1 .. Len(h) : p # o => g[p] = h[p]
           /\ g[o].status = s
           /\ g[o].det = h[o].det
  <1>1. h[o] \in Object
    OBVIOUS
  <1> QED  BY <1>1, UpdatedType, ExceptSeq

-----------------------------------------------------------------------------
(* Type correctness.                                                       *)

\* Leaving the lock section with a well-typed op keeps logs and threads typed.
LEMMA CommitType ==
    ASSUME TypeOK, NEW t \in Threads, NEW op \in Op, Commit(t, op)
    PROVE  /\ ops' \in Seq(Op) /\ Len(ops') = Len(ops) + 1
           /\ events' \in Seq(0 .. Len(ops'))
           /\ bus' \in Seq(0 .. Len(ops'))
           /\ audit' \in Seq(0 .. Len(ops'))
           /\ pc' \in [Threads -> {"idle", "record", "publish", "audit"}]
           /\ cur' \in [Threads -> 0 .. Len(ops')]
  <1>1. ops' \in Seq(Op) /\ Len(ops') = Len(ops) + 1
    BY DEF Commit, TypeOK
  <1>2. Len(ops) \in Nat
    BY DEF TypeOK
  <1>3. 0 .. Len(ops) \subseteq 0 .. Len(ops')
    BY <1>1, <1>2
  <1>4. /\ events' \in Seq(0 .. Len(ops'))
        /\ bus' \in Seq(0 .. Len(ops'))
        /\ audit' \in Seq(0 .. Len(ops'))
    BY <1>3, SeqMonotonic DEF Commit, TypeOK, sinks
  <1>5. pc' \in [Threads -> {"idle", "record", "publish", "audit"}]
    BY DEF Commit, TypeOK
  <1>6. cur' \in [Threads -> 0 .. Len(ops')]
    BY <1>1, <1>2, <1>3 DEF Commit, TypeOK
  <1> QED  BY <1>1, <1>4, <1>5, <1>6

LEMMA RegisterType ==
    ASSUME TypeOK, NEW t \in Threads, NEW d \in Detectors, NEW r \in Rooms, NEW s \in Status,
           Register(t, d, r, s)
    PROVE  TypeOK'
  <1>1. [det |-> d, room |-> r, status |-> s, installed |-> FALSE, verified |-> FALSE] \in Object
    BY DEF Object
  <1>2. heap' \in Seq(Object) /\ Len(heap') = Len(heap) + 1 /\ Len(heap) \in Nat
    BY <1>1 DEF Register, TypeOK
  <1>3. detectors' \in [Detectors -> 0 .. Len(heap')]
    BY <1>2 DEF Register, TypeOK
  <1>4. roomIds' \in SUBSET Rooms
    BY DEF Register, TypeOK
  <1>5. [thread |-> t, kind |-> "registered", obj |-> Len(heap) + 1,
         old |-> s, new |-> s, forced |-> FALSE] \in Op
    BY <1>2 DEF Op
  <1> QED  BY <1>2, <1>3, <1>4, <1>5, CommitType DEF Register, TypeOK

LEMMA UpdateType ==
    ASSUME TypeOK, NEW t \in Threads, NEW d \in Detectors, NEW s \in Status,
           NEW v \in BOOLEAN, NEW f \in BOOLEAN, UpdateStatus(t, d, s, v, f)
    PROVE  TypeOK'
  <1> DEFINE o == detectors[d]
  <1>1. o \in 1 .. Len(heap) /\ heap[o] \in Object
    BY DEF UpdateStatus, TypeOK, NoObject
  <1>2. heap' \in Seq(Object) /\ Len(heap') = Len(heap)
    BY <1>1, HeapAfterUpdate DEF UpdateStatus, TypeOK
  <1>3. [thread |-> t, kind |-> "status_changed", obj |-> o,
         old |-> heap[o].status, new |-> s, forced |-> f] \in Op
    BY <1>1 DEF Op, Object, TypeOK
  <1> QED  BY <1>2, <1>3, CommitType DEF UpdateStatus, TypeOK

LEMMA RemoveType ==
    ASSUME TypeOK, NEW t \in Threads, NEW d \in Detectors, Remove(t, d)
    PROVE  TypeOK'
  <1> DEFINE o == detectors[d]
  <1>1. o \in 1 .. Len(heap) /\ heap[o] \in Object
    BY DEF Remove, TypeOK, NoObject
  <1>2. detectors' \in [Detectors -> 0 .. Len(heap)]
    BY DEF Remove, TypeOK, NoObject
  <1>3. [thread |-> t, kind |-> "removed", obj |-> o, old |-> heap[o].status,
         new |-> heap[o].status, forced |-> FALSE] \in Op
    BY <1>1 DEF Op, Object, TypeOK
  <1> QED  BY <1>2, <1>3, CommitType DEF Remove, TypeOK

LEMMA EmitType ==
    ASSUME TypeOK, NEW t \in Threads, Emit(t)
    PROVE  TypeOK'
  <1>1. cur[t] \in 0 .. Len(ops)
    BY DEF TypeOK
  <1>2. CASE Record(t)
    <2>1. events' \in Seq(0 .. Len(ops))
      BY <1>1, <1>2, PushType DEF Record, TypeOK
    <2> QED  BY <1>2, <2>1 DEF Record, TypeOK, store
  <1>3. CASE Publish(t)
    <2>1. bus' \in Seq(0 .. Len(ops))
      BY <1>1, <1>3 DEF Publish, TypeOK
    <2> QED  BY <1>3, <2>1 DEF Publish, TypeOK, store
  <1>4. CASE Audit(t)
    <2>1. audit' \in Seq(0 .. Len(ops))
      <3>1. audit' = audit \/ audit' = Append(audit, cur[t])
        BY <1>4 DEF Audit
      <3>2. audit \in Seq(0 .. Len(ops)) /\ Append(audit, cur[t]) \in Seq(0 .. Len(ops))
        BY <1>1 DEF TypeOK
      <3> QED  BY <3>1, <3>2, Zenon
    <2> QED  BY <1>4, <2>1 DEF Audit, TypeOK, store
  <1> QED  BY <1>2, <1>3, <1>4 DEF Emit

LEMMA CallType ==
    ASSUME TypeOK, NEW t \in Threads, ClientCall(t)
    PROVE  TypeOK'
  <1>1. PICK d \in Detectors :
           \/ \E r \in Rooms, s \in Entry : Register(t, d, r, s)
           \/ \E s \in Status, v \in Verifieds, f \in Forces : UpdateStatus(t, d, s, v, f)
           \/ Remove(t, d)
    BY DEF ClientCall
  <1> QED  BY <1>1, RegisterType, UpdateType, RemoveType, EntryAssumption, FlagsAssumption

\* The twin's variables keep their shape: ids point into the heap, the logs name
\* only calls that were made.
THEOREM TypeCorrect == TwinSpec => []TypeOK
  <1>1. TwinInit => TypeOK
    BY DEF TwinInit, TypeOK, NoObject
  <1>2. TypeOK /\ [TwinNext]_twinVars => TypeOK'
    <2> SUFFICES ASSUME TypeOK, [TwinNext]_twinVars PROVE TypeOK'
      OBVIOUS
    <2>1. CASE UNCHANGED twinVars
      BY <2>1 DEF TypeOK, twinVars
    <2>2. ASSUME NEW t \in Threads, ClientCall(t) PROVE TypeOK'
      BY <2>2, CallType
    <2>3. ASSUME NEW t \in Threads, Emit(t) PROVE TypeOK'
      BY <2>3, EmitType
    <2> QED  BY <2>1, <2>2, <2>3 DEF TwinNext
  <1> QED  BY <1>1, <1>2, PTL DEF TwinSpec

-----------------------------------------------------------------------------
(* No lost update.  NoLostUpdate is not inductive: that the next change will *)
(* continue the chain needs that a detector still in the map was not removed *)
(* last, and that two ids never share an object.                             *)

\* An id points at an object that was created for it.
MapMatchesHeap ==
    \A d \in Detectors : detectors[d] # NoObject => heap[detectors[d]].det = d

\* The history only speaks of objects that exist, and a mapped one is not gone.
HistoryMatchesMap ==
    /\ \A i \in 1 .. Len(ops) : ops[i].obj \in 1 .. Len(heap)
    /\ \A d \in Detectors : detectors[d] # NoObject =>
          \A i \in LastOpOn(detectors[d], Len(ops)) : ops[i].kind # "removed"

ChainInv == TypeOK /\ MapMatchesHeap /\ HistoryMatchesMap /\ NoLostUpdate

\* What one more op does to the last op on an object, now and at earlier times.
LEMMA LastOfAppend ==
    ASSUME NEW log \in Seq(Op), NEW op \in Op
    PROVE  /\ \A o : \A n \in 0 .. Len(log) : LastOf(Append(log, op), o, n) = LastOf(log, o, n)
           /\ LastOf(Append(log, op), op.obj, Len(log) + 1) = {Len(log) + 1}
           /\ \A o : o # op.obj =>
                 LastOf(Append(log, op), o, Len(log) + 1) = LastOf(log, o, Len(log))
  <1> DEFINE longer == Append(log, op)
  <1>1. /\ Len(log) \in Nat /\ Len(longer) = Len(log) + 1
        /\ \A i \in 1 .. Len(log) : longer[i] = log[i]
        /\ longer[Len(log) + 1] = op
    BY AppendProperties
  <1> HIDE DEF longer
  <1>2. ASSUME NEW o, NEW n \in 0 .. Len(log)
        PROVE  LastOf(longer, o, n) = LastOf(log, o, n)
    BY <1>1 DEF LastOf
  <1>3. LastOf(longer, op.obj, Len(log) + 1) = {Len(log) + 1}
    BY <1>1 DEF LastOf
  <1>4. ASSUME NEW o, o # op.obj
        PROVE  LastOf(longer, o, Len(log) + 1) = LastOf(log, o, Len(log))
    BY <1>1, <1>4 DEF LastOf
  <1> QED  BY <1>2, <1>3, <1>4 DEF longer

\* The part of the invariant about one step that appends op to the history: op
\* creates its object or continues the chain of a mapped one, and the heap then
\* holds op.new there and is otherwise as before.
LEMMA ChainContinues ==
    ASSUME ChainInv, TypeOK',
           NEW op \in Op, ops' = Append(ops, op),
           \/ op.kind = "registered" /\ op.obj = Len(heap) + 1 /\ Len(heap') = Len(heap) + 1
           \/ /\ \E d \in Detectors : detectors[d] = op.obj
              /\ op.obj \in 1 .. Len(heap)
              /\ op.old = heap[op.obj].status
              /\ Len(heap') = Len(heap),
           op.obj \in 1 .. Len(heap'),
           heap'[op.obj].status = op.new,
           \A o \in 1 .. Len(heap) : o # op.obj => heap'[o].status = heap[o].status
    PROVE  NoLostUpdate' /\ \A i \in 1 .. Len(ops') : ops'[i].obj \in 1 .. Len(heap')
  <1>1. /\ Len(ops) \in Nat /\ Len(heap) \in Nat /\ Len(ops') = Len(ops) + 1
        /\ \A i \in 1 .. Len(ops) : ops'[i] = ops[i]
        /\ ops'[Len(ops) + 1] = op
    BY AppendProperties DEF ChainInv, TypeOK
  <1>2. \A i \in 1 .. Len(ops') : ops'[i].obj \in 1 .. Len(heap')
    BY <1>1 DEF ChainInv, HistoryMatchesMap
  <1>3. /\ \A o : \A n \in 0 .. Len(ops) : LastOf(ops', o, n) = LastOf(ops, o, n)
        /\ LastOf(ops', op.obj, Len(ops')) = {Len(ops')}
        /\ \A o : o # op.obj => LastOf(ops', o, Len(ops')) = LastOf(ops, o, Len(ops))
    <2>1. ops \in Seq(Op)
      BY DEF ChainInv, TypeOK
    <2>2. /\ \A o : \A n \in 0 .. Len(ops) :
                LastOf(Append(ops, op), o, n) = LastOf(ops, o, n)
          /\ LastOf(Append(ops, op), op.obj, Len(ops) + 1) = {Len(ops) + 1}
          /\ \A o : o # op.obj =>
                LastOf(Append(ops, op), o, Len(ops) + 1) = LastOf(ops, o, Len(ops))
      BY <2>1, LastOfAppend, Zenon
    <2> QED  BY <1>1, <2>2, Zenon
  <1>4. ASSUME NEW n \in 1 .. Len(ops'), ops'[n].kind # "registered"
        PROVE  \E i \in LastOf(ops', ops'[n].obj, n - 1) :
                  ops'[i].new = ops'[n].old /\ ops'[i].kind # "removed"
    <2>1. CASE n \in 1 .. Len(ops)
      <3>1. PICK i \in LastOf(ops, ops[n].obj, n - 1) :
                    ops[i].new = ops[n].old /\ ops[i].kind # "removed"
        BY <1>1, <1>4, <2>1 DEF ChainInv, NoLostUpdate, LastOpOn
      <3>2. i \in 1 .. Len(ops) /\ ops'[n] = ops[n]
        BY <1>1, <2>1, <3>1 DEF LastOf
      <3>3. LastOf(ops', ops[n].obj, n - 1) = LastOf(ops, ops[n].obj, n - 1)
        BY <1>1, <1>3, <2>1
      <3> QED  BY <1>1, <3>1, <3>2, <3>3
    <2>2. CASE n = Len(ops) + 1
      <3>1. /\ op.kind # "registered"
            /\ op.obj \in 1 .. Len(heap) /\ op.old = heap[op.obj].status
        BY <1>1, <1>4, <2>2
      <3>2. PICK d \in Detectors : detectors[d] = op.obj
        BY <1>1, <1>4, <2>2
      <3>3. PICK i \in LastOf(ops, op.obj, Len(ops)) : heap[op.obj].status = ops[i].new
        BY <3>1 DEF ChainInv, NoLostUpdate, LastOpOn
      <3>4. ops[i].kind # "removed"
        BY <3>1, <3>2, <3>3 DEF ChainInv, HistoryMatchesMap, NoObject, LastOpOn
      <3>5. i \in 1 .. Len(ops)
        BY <3>3 DEF LastOf
      <3>6. LastOf(ops', op.obj, n - 1) = LastOf(ops, op.obj, Len(ops))
        BY <1>1, <1>3, <2>2
      <3> QED  BY <1>1, <2>2, <3>1, <3>3, <3>4, <3>5, <3>6
    <2>3. n \in 1 .. Len(ops) \/ n = Len(ops) + 1
      BY <1>1
    <2> QED  BY <2>1, <2>2, <2>3
  <1>5. ASSUME NEW o \in 1 .. Len(heap')
        PROVE  \E i \in LastOf(ops', o, Len(ops')) : heap'[o].status = ops'[i].new
    <2>1. CASE o = op.obj
      BY <1>1, <1>3, <2>1
    <2>2. CASE o # op.obj
      <3>1. o \in 1 .. Len(heap)
        BY <1>1, <2>2
      <3>2. PICK i \in LastOf(ops, o, Len(ops)) : heap[o].status = ops[i].new
        BY <3>1 DEF ChainInv, NoLostUpdate, LastOpOn
      <3>3. i \in 1 .. Len(ops)
        BY <3>2 DEF LastOf
      <3> QED  BY <1>1, <1>3, <2>2, <3>1, <3>2, <3>3
    <2> QED  BY <2>1, <2>2
  <1> QED  BY <1>2, <1>4, <1>5 DEF NoLostUpdate, LastOpOn

\* The clause about mapped objects after a step that appends op: only a removal
\* of the object itself may leave a removed op last.
LEMMA MappedAreAlive ==
    ASSUME ChainInv, NEW op \in Op, ops' = Append(ops, op),
           NEW d \in Detectors, detectors'[d] # NoObject,
           \/ detectors'[d] = op.obj /\ op.kind # "removed"
           \/ detectors'[d] # op.obj /\ detectors'[d] = detectors[d]
    PROVE  \A i \in LastOf(ops', detectors'[d], Len(ops')) : ops'[i].kind # "removed"
  <1>1. /\ Len(ops) \in Nat /\ Len(ops') = Len(ops) + 1
        /\ \A i \in 1 .. Len(ops) : ops'[i] = ops[i]
        /\ ops'[Len(ops) + 1] = op
    BY AppendProperties DEF ChainInv, TypeOK
  <1>2. /\ LastOf(ops', op.obj, Len(ops')) = {Len(ops')}
        /\ \A o : o # op.obj => LastOf(ops', o, Len(ops')) = LastOf(ops, o, Len(ops))
    <2>1. ops \in Seq(Op)
      BY DEF ChainInv, TypeOK
    <2>2. /\ \A o : \A n \in 0 .. Len(ops) :
                LastOf(Append(ops, op), o, n) = LastOf(ops, o, n)
          /\ LastOf(Append(ops, op), op.obj, Len(ops) + 1) = {Len(ops) + 1}
          /\ \A o : o # op.obj =>
                LastOf(Append(ops, op), o, Len(ops) + 1) = LastOf(ops, o, Len(ops))
      BY <2>1, LastOfAppend, Zenon
    <2> QED  BY <1>1, <2>2, Zenon
  <1>3. CASE detectors'[d] = op.obj /\ op.kind # "removed"
    BY <1>1, <1>2, <1>3
  <1>4. CASE detectors'[d] # op.obj /\ detectors'[d] = detectors[d]
    <2>1. \A i \in LastOf(ops, detectors[d], Len(ops)) :
             i \in 1 .. Len(ops) /\ ops[i].kind # "removed"
      BY <1>4 DEF ChainInv, HistoryMatchesMap, LastOpOn, LastOf
    <2> QED  BY <1>1, <1>2, <1>4, <2>1
  <1> QED  BY <1>3, <1>4

LEMMA RegisterKeepsChain ==
    ASSUME ChainInv, TypeOK', NEW t \in Threads, NEW d \in Detectors, NEW r \in Rooms,
           NEW s \in Status, Register(t, d, r, s)
    PROVE  ChainInv'
  <1> DEFINE obj == [det |-> d, room |-> r, status |-> s, installed |-> FALSE, verified |-> FALSE]
             op == [thread |-> t, kind |-> "registered", obj |-> Len(heap) + 1,
                    old |-> s, new |-> s, forced |-> FALSE]
  <1>1. heap \in Seq(Object) /\ Len(heap) \in Nat /\ ops \in Seq(Op)
        /\ detectors \in [Detectors -> 0 .. Len(heap)]
    BY DEF ChainInv, TypeOK
  <1>2. op \in Op /\ ops' = Append(ops, op)
    BY <1>1 DEF Register, Commit, Op
  <1>3. obj \in Object /\ heap' = Append(heap, obj)
    BY DEF Register, Object
  <1>4. /\ Len(heap') = Len(heap) + 1
        /\ \A o \in 1 .. Len(heap) : heap'[o] = heap[o]
        /\ heap'[Len(heap) + 1] = obj
    BY <1>1, <1>3, AppendProperties
  <1>5. detectors' = [detectors EXCEPT ![d] = Len(heap) + 1]
    BY DEF Register
  <1>6. /\ op.kind = "registered" /\ op.obj = Len(heap) + 1 /\ op.new = s
        /\ obj.det = d /\ obj.status = s
    OBVIOUS
  <1> HIDE DEF op, obj
  <1>7. NoLostUpdate' /\ \A i \in 1 .. Len(ops') : ops'[i].obj \in 1 .. Len(heap')
    <2>1. op.obj \in 1 .. Len(heap') /\ heap'[op.obj].status = op.new
      BY <1>1, <1>4, <1>6
    <2>2. \A o \in 1 .. Len(heap) : o # op.obj => heap'[o].status = heap[o].status
      BY <1>4
    <2> QED  BY <1>2, <1>4, <1>6, <2>1, <2>2, ChainContinues
  <1>8. MapMatchesHeap'
    BY <1>1, <1>4, <1>5, <1>6 DEF ChainInv, MapMatchesHeap, NoObject
  <1>9. ASSUME NEW e \in Detectors, detectors'[e] # NoObject
        PROVE  \A i \in LastOf(ops', detectors'[e], Len(ops')) : ops'[i].kind # "removed"
    <2>1. CASE e = d
      <3>1. detectors'[e] = op.obj /\ op.kind # "removed"
        BY <1>1, <1>5, <1>6, <2>1
      <3> QED  BY <1>2, <1>9, <3>1, MappedAreAlive
    <2>2. CASE e # d
      <3>1. detectors'[e] # op.obj /\ detectors'[e] = detectors[e]
        BY <1>1, <1>5, <1>6, <2>2
      <3> QED  BY <1>2, <1>9, <3>1, MappedAreAlive
    <2> QED  BY <2>1, <2>2
  <1> QED  BY <1>7, <1>8, <1>9 DEF ChainInv, HistoryMatchesMap, LastOpOn

LEMMA UpdateKeepsChain ==
    ASSUME ChainInv, TypeOK', NEW t \in Threads, NEW d \in Detectors, NEW s \in Status,
           NEW v \in BOOLEAN, NEW f \in BOOLEAN, UpdateStatus(t, d, s, v, f)
    PROVE  ChainInv'
  <1> DEFINE o == detectors[d]
             op == [thread |-> t, kind |-> "status_changed", obj |-> o,
                    old |-> heap[o].status, new |-> s, forced |-> f]
  <1>1. heap \in Seq(Object) /\ Len(heap) \in Nat /\ ops \in Seq(Op)
        /\ detectors \in [Detectors -> 0 .. Len(heap)]
    BY DEF ChainInv, TypeOK
  <1>2. o \in 1 .. Len(heap) /\ heap[o] \in Object
    BY <1>1 DEF UpdateStatus, NoObject
  <1>3. op \in Op /\ ops' = Append(ops, op)
    <2>1. heap[o].status \in Status /\ o \in Nat \ {0}
      BY <1>1, <1>2 DEF Object
    <2>2. ops' = Append(ops, op)
      BY DEF UpdateStatus, Commit
    <2> QED  BY <2>1, <2>2 DEF Op
  <1>4. heap' = [heap EXCEPT ![o] = Updated(@, s, v)] /\ detectors' = detectors
    BY DEF UpdateStatus
  <1>5. /\ Len(heap') = Len(heap)
        /\ \A p \in 1 .. Len(heap) : p # o => heap'[p] = heap[p]
        /\ heap'[o].status = s
        /\ heap'[o].det = heap[o].det
    BY <1>1, <1>2, <1>4, HeapAfterUpdate
  <1>6. /\ op.kind = "status_changed" /\ op.obj = o
        /\ op.new = s /\ op.old = heap[o].status
    OBVIOUS
  <1> HIDE DEF op
  <1>7. NoLostUpdate' /\ \A i \in 1 .. Len(ops') : ops'[i].obj \in 1 .. Len(heap')
    <2>1. /\ \E e \in Detectors : detectors[e] = op.obj
          /\ op.obj \in 1 .. Len(heap) /\ op.old = heap[op.obj].status
      BY <1>2, <1>6
    <2>2. op.obj \in 1 .. Len(heap') /\ heap'[op.obj].status = op.new
      BY <1>2, <1>5, <1>6
    <2>3. \A p \in 1 .. Len(heap) : p # op.obj => heap'[p].status = heap[p].status
      BY <1>5, <1>6
    <2> QED  BY <1>3, <1>5, <2>1, <2>2, <2>3, ChainContinues
  <1>8. MapMatchesHeap'
    <2>1. \A p \in 1 .. Len(heap) : heap'[p].det = heap[p].det
      BY <1>5
    <2>2. \A e \in Detectors : detectors[e] # NoObject => detectors[e] \in 1 .. Len(heap)
      BY <1>1 DEF NoObject
    <2> QED  BY <1>4, <2>1, <2>2 DEF ChainInv, MapMatchesHeap
  <1>9. ASSUME NEW e \in Detectors, detectors'[e] # NoObject
        PROVE  \A i \in LastOf(ops', detectors'[e], Len(ops')) : ops'[i].kind # "removed"
    <2>1. \/ detectors'[e] = op.obj /\ op.kind # "removed"
          \/ detectors'[e] # op.obj /\ detectors'[e] = detectors[e]
      BY <1>4, <1>6
    <2> QED  BY <1>3, <1>9, <2>1, MappedAreAlive
  <1> QED  BY <1>7, <1>8, <1>9 DEF ChainInv, HistoryMatchesMap, LastOpOn

LEMMA RemoveKeepsChain ==
    ASSUME ChainInv, TypeOK', NEW t \in Threads, NEW d \in Detectors, Remove(t, d)
    PROVE  ChainInv'
  <1> DEFINE o == detectors[d]
             op == [thread |-> t, kind |-> "removed", obj |-> o, old |-> heap[o].status,
                    new |-> heap[o].status, forced |-> FALSE]
  <1>1. heap \in Seq(Object) /\ Len(heap) \in Nat /\ ops \in Seq(Op)
        /\ detectors \in [Detectors -> 0 .. Len(heap)]
    BY DEF ChainInv, TypeOK
  <1>2. o \in 1 .. Len(heap) /\ heap[o] \in Object
    BY <1>1 DEF Remove, NoObject
  <1>3. op \in Op /\ ops' = Append(ops, op)
    <2>1. heap[o].status \in Status /\ o \in Nat \ {0}
      BY <1>1, <1>2 DEF Object
    <2>2. ops' = Append(ops, op)
      BY DEF Remove, Commit
    <2> QED  BY <2>1, <2>2 DEF Op
  <1>4. heap' = heap /\ detectors' = [detectors EXCEPT ![d] = NoObject]
    BY DEF Remove
  <1>5. op.kind = "removed" /\ op.obj = o /\ op.old = heap[o].status /\ op.new = heap[o].status
    OBVIOUS
  <1> HIDE DEF op
  <1>6. NoLostUpdate' /\ \A i \in 1 .. Len(ops') : ops'[i].obj \in 1 .. Len(heap')
    <2>1. /\ \E e \in Detectors : detectors[e] = op.obj
          /\ op.obj \in 1 .. Len(heap) /\ op.old = heap[op.obj].status
      BY <1>2, <1>5
    <2> QED  BY <1>3, <1>4, <1>5, <2>1, ChainContinues
  <1>7. MapMatchesHeap'
    BY <1>1, <1>4 DEF ChainInv, MapMatchesHeap, NoObject
  <1>8. ASSUME NEW e \in Detectors, detectors'[e] # NoObject
        PROVE  \A i \in LastOf(ops', detectors'[e], Len(ops')) : ops'[i].kind # "removed"
    <2>1. e # d /\ detectors'[e] = detectors[e]
      BY <1>1, <1>4, <1>8
    <2>2. detectors[e] # o
      BY <1>8, <2>1 DEF Remove, ChainInv, MapMatchesHeap, NoObject
    <2> QED  BY <1>3, <1>5, <1>8, <2>1, <2>2, MappedAreAlive
  <1> QED  BY <1>6, <1>7, <1>8 DEF ChainInv, HistoryMatchesMap, LastOpOn

\* The emission steps and stuttering leave everything ChainInv speaks of alone.
LEMMA StoreUnchangedKeepsChain ==
    ASSUME ChainInv, TypeOK', UNCHANGED store
    PROVE  ChainInv'
  <1>1. heap' = heap /\ detectors' = detectors /\ ops' = ops
    BY DEF store
  <1>2. MapMatchesHeap'
    BY <1>1 DEF ChainInv, MapMatchesHeap
  <1>3. \A o, n : LastOpOn(o, n)' = LastOpOn(o, n)
    BY <1>1 DEF LastOpOn
  <1>4. HistoryMatchesMap'
    BY <1>1, <1>3 DEF ChainInv, HistoryMatchesMap
  <1>5. NoLostUpdate'
    BY <1>1, <1>3 DEF ChainInv, NoLostUpdate
  <1> QED  BY <1>2, <1>4, <1>5 DEF ChainInv

LEMMA EmitKeepsStore ==
    ASSUME NEW t \in Threads, Emit(t)
    PROVE  UNCHANGED store
  BY DEF Emit, Record, Publish, Audit

LEMMA CallKeepsChain ==
    ASSUME ChainInv, TypeOK', NEW t \in Threads, ClientCall(t)
    PROVE  ChainInv'
  <1>1. PICK d \in Detectors :
           \/ \E r \in Rooms, s \in Entry : Register(t, d, r, s)
           \/ \E s \in Status, v \in Verifieds, f \in Forces : UpdateStatus(t, d, s, v, f)
           \/ Remove(t, d)
    BY DEF ClientCall
  <1> QED  BY <1>1, RegisterKeepsChain, UpdateKeepsChain, RemoveKeepsChain,
              EntryAssumption, FlagsAssumption

LEMMA ChainInvariant == TwinSpec => []ChainInv
  <1>1. TwinInit => ChainInv
    BY DEF TwinInit, ChainInv, TypeOK, MapMatchesHeap, HistoryMatchesMap, NoLostUpdate, NoObject
  <1>2. ChainInv /\ TypeOK' /\ [TwinNext]_twinVars => ChainInv'
    <2> SUFFICES ASSUME ChainInv, TypeOK', [TwinNext]_twinVars PROVE ChainInv'
      OBVIOUS
    <2>1. CASE UNCHANGED twinVars
      BY <2>1, StoreUnchangedKeepsChain DEF twinVars, store
    <2>2. ASSUME NEW t \in Threads, ClientCall(t) PROVE ChainInv'
      BY <2>2, CallKeepsChain
    <2>3. ASSUME NEW t \in Threads, Emit(t) PROVE ChainInv'
      BY <2>3, EmitKeepsStore, StoreUnchangedKeepsChain
    <2> QED  BY <2>1, <2>2, <2>3 DEF TwinNext
  <1> QED  BY <1>1, <1>2, TypeCorrect, PTL DEF TwinSpec

\* update_detector_status decides on exactly the status it replaces: in every
\* behaviour the changes of an object form one unbroken chain.
THEOREM ChainUnbroken == TwinSpec => []NoLostUpdate
  <1>1. ChainInv => NoLostUpdate
    BY DEF ChainInv
  <1> QED  BY <1>1, ChainInvariant, PTL

-----------------------------------------------------------------------------
(* The twin implements the lifecycle.                                      *)

Life == [d \in Detectors |-> Current(d)]
ForcedOps(log) == {i \in 1 .. Len(log) : log[i].forced}
Bypasses == Cardinality(ForcedOps(ops))

\* The bypass counter of the abstract machine is about one op more.
LEMMA BypassesAfterAppend ==
    ASSUME ops \in Seq(Op), NEW op \in Op, ops' = Append(ops, op)
    PROVE  Bypasses' = IF op.forced THEN Bypasses + 1 ELSE Bypasses
  <1>1. /\ Len(ops) \in Nat /\ Len(ops') = Len(ops) + 1
        /\ \A i \in 1 .. Len(ops) : ops'[i] = ops[i]
        /\ ops'[Len(ops) + 1] = op
    BY AppendProperties
  <1>2. IsFiniteSet(ForcedOps(ops))
    <2>1. IsFiniteSet(1 .. Len(ops))
      BY <1>1, FS_Interval
    <2>2. ForcedOps(ops) \subseteq 1 .. Len(ops)
      BY DEF ForcedOps
    <2> QED  BY <2>1, <2>2, FS_Subset
  <1>3. Len(ops) + 1 \notin ForcedOps(ops)
    BY <1>1 DEF ForcedOps
  <1>4. ForcedOps(ops') = IF op.forced THEN ForcedOps(ops) \cup {Len(ops) + 1}
                                       ELSE ForcedOps(ops)
    BY <1>1 DEF ForcedOps
  <1> QED  BY <1>2, <1>3, <1>4, FS_AddElement DEF Bypasses

\* What Current says of the detector a call is about and of the others.
LEMMA LifeAfterUpdate ==
    ASSUME ChainInv, NEW d \in Detectors, NEW s \in Status, NEW v \in BOOLEAN,
           detectors[d] # NoObject, detectors' = detectors,
           heap' = [heap EXCEPT ![detectors[d]] = Updated(@, s, v)]
    PROVE  Life' = [Life EXCEPT ![d] = s]
  <1>1. /\ heap \in Seq(Object) /\ Len(heap) \in Nat
        /\ detectors[d] \in 1 .. Len(heap)
        /\ detectors \in [Detectors -> 0 .. Len(heap)]
    BY DEF ChainInv, TypeOK, NoObject
  <1>2. /\ \A p \in 1 .. Len(heap) : p # detectors[d] => heap'[p] = heap[p]
        /\ heap'[detectors[d]].status = s
    BY <1>1, HeapAfterUpdate
  <1>3. ASSUME NEW e \in Detectors, e # d PROVE Current(e)' = Current(e)
    <2>1. detectors[e] # NoObject => detectors[e] # detectors[d]
      BY <1>3 DEF ChainInv, MapMatchesHeap
    <2>2. detectors[e] # NoObject => detectors[e] \in 1 .. Len(heap)
      BY <1>1 DEF NoObject
    <2> QED  BY <1>2, <2>1, <2>2 DEF Current
  <1>4. Current(d)' = s
    BY <1>2 DEF Current
  <1> QED  BY <1>3, <1>4 DEF Life

LEMMA RegisterEnters ==
    ASSUME ChainInv, NEW t \in Threads, NEW d \in Detectors, NEW r \in Rooms, NEW s \in Status,
           Register(t, d, r, s)
    PROVE  /\ Life[d] = Lifecycle!Absent
           /\ Life' = [Life EXCEPT ![d] = s]
           /\ Bypasses' = Bypasses
  <1> DEFINE obj == [det |-> d, room |-> r, status |-> s, installed |-> FALSE, verified |-> FALSE]
             op == [thread |-> t, kind |-> "registered", obj |-> Len(heap) + 1,
                    old |-> s, new |-> s, forced |-> FALSE]
  <1>1. heap \in Seq(Object) /\ Len(heap) \in Nat /\ ops \in Seq(Op)
        /\ detectors \in [Detectors -> 0 .. Len(heap)]
    BY DEF ChainInv, TypeOK
  <1>2. op \in Op /\ ops' = Append(ops, op) /\ op.forced = FALSE
    BY <1>1 DEF Register, Commit, Op
  <1>3. obj \in Object /\ heap' = Append(heap, obj) /\ obj.status = s
    BY DEF Register, Object
  <1> HIDE DEF op, obj
  <1>4. /\ \A o \in 1 .. Len(heap) : heap'[o] = heap[o]
        /\ heap'[Len(heap) + 1] = obj
    BY <1>1, <1>3, AppendProperties
  <1>5. detectors[d] = NoObject /\ detectors' = [detectors EXCEPT ![d] = Len(heap) + 1]
    BY DEF Register
  <1>6. Life[d] = Lifecycle!Absent
    BY <1>5 DEF Life, Current, Lifecycle!Absent
  <1>7. \A e \in Detectors : e # d => Current(e)' = Current(e)
    BY <1>1, <1>4, <1>5 DEF Current, NoObject
  <1>8. Current(d)' = s
    BY <1>1, <1>3, <1>4, <1>5 DEF Current, NoObject
  <1>9. Life' = [Life EXCEPT ![d] = s]
    BY <1>7, <1>8 DEF Life
  <1>10. Bypasses' = Bypasses
    BY <1>1, <1>2, BypassesAfterAppend
  <1> QED  BY <1>6, <1>9, <1>10

LEMMA UpdateMovesOrBypasses ==
    ASSUME ChainInv, NEW t \in Threads, NEW d \in Detectors, NEW s \in Status,
           NEW v \in BOOLEAN, NEW f \in BOOLEAN, UpdateStatus(t, d, s, v, f)
    PROVE  /\ Life[d] # Lifecycle!Absent
           /\ Life' = [Life EXCEPT ![d] = s]
           /\ \/ s \in Legal[Life[d]] /\ Bypasses' = Bypasses
              \/ Bypasses' = Bypasses + 1
  <1> DEFINE o == detectors[d]
             op == [thread |-> t, kind |-> "status_changed", obj |-> o,
                    old |-> heap[o].status, new |-> s, forced |-> f]
  <1>1. heap \in Seq(Object) /\ Len(heap) \in Nat /\ ops \in Seq(Op)
        /\ detectors \in [Detectors -> 0 .. Len(heap)]
    BY DEF ChainInv, TypeOK
  <1>2. o \in 1 .. Len(heap) /\ heap[o] \in Object /\ o # NoObject
    BY <1>1 DEF UpdateStatus, NoObject
  <1>3. heap[o].status \in Status /\ o \in Nat \ {0}
    BY <1>1, <1>2 DEF Object
  <1>4. op \in Op /\ ops' = Append(ops, op) /\ op.forced = f
    <2>1. ops' = Append(ops, op)
      BY DEF UpdateStatus, Commit
    <2> QED  BY <1>3, <2>1 DEF Op
  <1> HIDE DEF op
  <1>5. Life[d] = heap[o].status
    BY <1>2 DEF Life, Current
  <1>6. Life[d] # Lifecycle!Absent
    BY <1>3, <1>5 DEF Lifecycle!Absent, Status
  <1>7. Life' = [Life EXCEPT ![d] = s]
    BY <1>2, LifeAfterUpdate DEF UpdateStatus
  <1>8. f \/ s \in Legal[Life[d]]
    BY <1>5 DEF UpdateStatus, Allowed
  <1>9. Bypasses' = IF f THEN Bypasses + 1 ELSE Bypasses
    BY <1>1, <1>4, BypassesAfterAppend
  <1> QED  BY <1>6, <1>7, <1>8, <1>9

LEMMA RemoveLeaves ==
    ASSUME ChainInv, NEW t \in Threads, NEW d \in Detectors, Remove(t, d)
    PROVE  /\ Life[d] # Lifecycle!Absent
           /\ Life' = [Life EXCEPT ![d] = Lifecycle!Absent]
           /\ Bypasses' = Bypasses
  <1> DEFINE o == detectors[d]
             op == [thread |-> t, kind |-> "removed", obj |-> o, old |-> heap[o].status,
                    new |-> heap[o].status, forced |-> FALSE]
  <1>1. heap \in Seq(Object) /\ Len(heap) \in Nat /\ ops \in Seq(Op)
        /\ detectors \in [Detectors -> 0 .. Len(heap)]
    BY DEF ChainInv, TypeOK
  <1>2. o \in 1 .. Len(heap) /\ heap[o] \in Object /\ o # NoObject
    BY <1>1 DEF Remove, NoObject
  <1>3. heap[o].status \in Status /\ o \in Nat \ {0}
    BY <1>1, <1>2 DEF Object
  <1>4. op \in Op /\ ops' = Append(ops, op) /\ op.forced = FALSE
    <2>1. ops' = Append(ops, op)
      BY DEF Remove, Commit
    <2> QED  BY <1>3, <2>1 DEF Op
  <1> HIDE DEF op
  <1>5. Life[d] # Lifecycle!Absent
    BY <1>2, <1>3 DEF Life, Current, Lifecycle!Absent, Status
  <1>6. heap' = heap /\ detectors' = [detectors EXCEPT ![d] = NoObject]
    BY DEF Remove
  <1>7. \A e \in Detectors : Current(e)' = IF e = d THEN Lifecycle!Absent ELSE Current(e)
    BY <1>1, <1>6 DEF Current, Lifecycle!Absent
  <1>8. Life' = [Life EXCEPT ![d] = Lifecycle!Absent]
    BY <1>7 DEF Life
  <1>9. Bypasses' = Bypasses
    BY <1>1, <1>4, BypassesAfterAppend
  <1> QED  BY <1>5, <1>8, <1>9

\* Seen through the map, with all their threads, objects and logs the calls of the
\* twin are steps of DetectorLifecycle: a status changes by entry, by a legal
\* transition, by a bypass that is counted, or by removal.
THEOREM RefinesLifecycle == TwinSpec => ImplementsLifecycle
  <1> DEFINE LifeStep == [Lifecycle!LifeNext]_(Lifecycle!lifeVars)
  <1>1. TwinInit => Lifecycle!LifeInit
    <2> SUFFICES ASSUME TwinInit PROVE Lifecycle!LifeInit
      OBVIOUS
    <2>1. {i \in 1 .. Len(ops) : ops[i].forced} = {}
      BY DEF TwinInit
    <2>2. \A d \in Detectors : Current(d) = Lifecycle!Absent
      BY DEF TwinInit, Current, Lifecycle!Absent
    <2> QED  BY <2>1, <2>2, FS_EmptySet DEF Lifecycle!LifeInit
  <1>2. ChainInv /\ [TwinNext]_twinVars => LifeStep
    <2> SUFFICES ASSUME ChainInv, [TwinNext]_twinVars PROVE LifeStep
      OBVIOUS
    <2>1. ASSUME UNCHANGED store PROVE LifeStep
      BY <2>1 DEF store, Lifecycle!lifeVars, Current
    <2>2. ASSUME NEW t \in Threads, NEW d \in Detectors, NEW r \in Rooms, NEW s \in Entry,
                 Register(t, d, r, s)
          PROVE  Lifecycle!Enter(d, s)
      BY <2>2, RegisterEnters, EntryAssumption DEF Lifecycle!Enter, Life, Bypasses, ForcedOps
    <2>3. ASSUME NEW t \in Threads, NEW d \in Detectors, NEW s \in Status, NEW v \in BOOLEAN,
                 NEW f \in BOOLEAN, UpdateStatus(t, d, s, v, f)
          PROVE  Lifecycle!Transition(d, s) \/ Lifecycle!Bypass(d, s)
      BY <2>3, UpdateMovesOrBypasses
         DEF Lifecycle!Transition, Lifecycle!Bypass, Lifecycle!Legal, Legal,
             Life, Bypasses, ForcedOps
    <2>4. ASSUME NEW t \in Threads, NEW d \in Detectors, Remove(t, d)
          PROVE  Lifecycle!Leave(d)
      BY <2>4, RemoveLeaves DEF Lifecycle!Leave, Life, Bypasses, ForcedOps
    <2>5. CASE UNCHANGED twinVars
      BY <2>1, <2>5 DEF twinVars, store
    <2>6. ASSUME NEW t \in Threads, Emit(t) PROVE LifeStep
      BY <2>1, <2>6 DEF Emit, Record, Publish, Audit
    <2>7. ASSUME NEW t \in Threads, ClientCall(t) PROVE Lifecycle!LifeNext
      <3>1. PICK d \in Detectors :
               \/ \E r \in Rooms, s \in Entry : Register(t, d, r, s)
               \/ \E s \in Status, v \in Verifieds, f \in Forces : UpdateStatus(t, d, s, v, f)
               \/ Remove(t, d)
        BY <2>7 DEF ClientCall
      <3>2. Lifecycle!Status = Status
        BY DEF Lifecycle!Status, Status
      <3> QED  BY <2>2, <2>3, <2>4, <3>1, <3>2, FlagsAssumption DEF Lifecycle!LifeNext
    <2> QED  BY <2>5, <2>6, <2>7 DEF TwinNext
  <1> QED  BY <1>1, <1>2, ChainInvariant, PTL
           DEF TwinSpec, ImplementsLifecycle, Lifecycle!LifeSpec

-----------------------------------------------------------------------------
(* The order of the announcements.  InThreadOrder is not inductive: that an  *)
(* op may be put behind what a log has of its thread needs that a thread     *)
(* announces its ops one after the other, and each in each log once.         *)

Ordered(log) ==
    \A j \in 1 .. Len(log), k \in 1 .. Len(log) :
        (j < k /\ log[j] # 0 /\ log[k] # 0
               /\ ops[log[j]].thread = ops[log[k]].thread) => log[j] < log[k]

\* The log has only earlier ops of t than the one t is busy with.
Behind(log, t) ==
    \A j \in 1 .. Len(log) :
        (log[j] # 0 /\ ops[log[j]].thread = t) => log[j] < cur[t]

\* A busy thread emits an op of its own, which the logs it has not come to yet
\* do not have.
BusyThread(t) ==
    /\ pc[t] # "idle" => cur[t] # 0 /\ ops[cur[t]].thread = t
    /\ pc[t] = "record" => Behind(events, t)
    /\ pc[t] \in {"record", "publish"} => Behind(bus, t)
    /\ pc[t] \in {"record", "publish", "audit"} => Behind(audit, t)

OrderInv ==
    /\ Ordered(events) /\ Ordered(bus) /\ Ordered(audit)
    /\ \A t \in Threads : BusyThread(t)

\* Appending to a log the op of a thread that is behind it.
LEMMA AppendInOrder ==
    ASSUME TypeOK, NEW log \in Seq(0 .. Len(ops)), NEW t \in Threads, cur[t] # 0,
           ops[cur[t]].thread = t, Ordered(log), Behind(log, t),
           NEW longer, longer = Append(log, cur[t])
    PROVE  /\ Ordered(longer)
           /\ \A u \in Threads \ {t} : Behind(log, u) => Behind(longer, u)
  <1>1. /\ Len(log) \in Nat /\ Len(longer) = Len(log) + 1
        /\ \A i \in 1 .. Len(log) : longer[i] = log[i] /\ log[i] \in Nat
        /\ longer[Len(log) + 1] = cur[t]
        /\ cur[t] \in 0 .. Len(ops) /\ Len(ops) \in Nat
    <2>1. cur[t] \in 0 .. Len(ops) /\ Len(ops) \in Nat
      BY DEF TypeOK
    <2> QED  BY <2>1, AppendProperties
  <1>2. Ordered(longer)
    <2> SUFFICES ASSUME NEW j \in 1 .. Len(longer), NEW k \in 1 .. Len(longer),
                        j < k, longer[j] # 0, longer[k] # 0,
                        ops[longer[j]].thread = ops[longer[k]].thread
                 PROVE  longer[j] < longer[k]
      BY DEF Ordered
    <2>1. j \in 1 .. Len(log) /\ (k \in 1 .. Len(log) \/ k = Len(log) + 1)
      BY <1>1
    <2>2. CASE k \in 1 .. Len(log)
      BY <1>1, <2>1, <2>2 DEF Ordered
    <2>3. CASE k = Len(log) + 1
      BY <1>1, <2>1, <2>3 DEF Behind
    <2> QED  BY <2>1, <2>2, <2>3
  <1>3. ASSUME NEW u \in Threads \ {t}, Behind(log, u) PROVE Behind(longer, u)
    <2> SUFFICES ASSUME NEW j \in 1 .. Len(longer), longer[j] # 0, ops[longer[j]].thread = u
                 PROVE  longer[j] < cur[u]
      BY DEF Behind
    <2>1. j \in 1 .. Len(log)
      BY <1>1
    <2> QED  BY <1>1, <1>3, <2>1 DEF Behind
  <1> QED  BY <1>2, <1>3

\* Dropping the oldest entry of a full log.
LEMMA TailInOrder ==
    ASSUME TypeOK, NEW log \in Seq(0 .. Len(ops)), log # <<>>, NEW rest, rest = Tail(log)
    PROVE  /\ rest \in Seq(0 .. Len(ops))
           /\ Ordered(log) => Ordered(rest)
           /\ \A u \in Threads : Behind(log, u) => Behind(rest, u)
  <1>1. /\ rest \in Seq(0 .. Len(ops)) /\ Len(log) \in Nat
        /\ Len(rest) = Len(log) - 1
        /\ \A i \in 1 .. Len(rest) : rest[i] = log[i + 1]
    OBVIOUS
  <1>2. \A i \in 1 .. Len(rest) : i + 1 \in 1 .. Len(log)
    BY <1>1
  <1>3. Ordered(log) => Ordered(rest)
    <2> SUFFICES ASSUME Ordered(log), NEW j \in 1 .. Len(rest), NEW k \in 1 .. Len(rest),
                        j < k, rest[j] # 0, rest[k] # 0,
                        ops[rest[j]].thread = ops[rest[k]].thread
                 PROVE  rest[j] < rest[k]
      BY DEF Ordered
    <2>1. j + 1 < k + 1
      OBVIOUS
    <2> QED  BY <1>1, <1>2, <2>1 DEF Ordered
  <1>4. \A u \in Threads : Behind(log, u) => Behind(rest, u)
    BY <1>1, <1>2 DEF Behind
  <1> QED  BY <1>1, <1>3, <1>4

LEMMA PushInOrder ==
    ASSUME TypeOK, NEW t \in Threads, cur[t] # 0, ops[cur[t]].thread = t,
           Ordered(events), Behind(events, t), NEW longer, longer = Push(events, cur[t])
    PROVE  /\ Ordered(longer)
           /\ \A u \in Threads \ {t} : Behind(events, u) => Behind(longer, u)
  <1>1. events \in Seq(0 .. Len(ops))
    BY DEF TypeOK
  <1>2. CASE Len(events) < LogCap
    BY <1>1, <1>2, AppendInOrder DEF Push
  <1>3. CASE ~(Len(events) < LogCap)
    <2>1. events # <<>>
      BY <1>3, LogCapAssumption
    <2>2. /\ Tail(events) \in Seq(0 .. Len(ops)) /\ Ordered(Tail(events))
          /\ \A u \in Threads : Behind(events, u) => Behind(Tail(events), u)
      BY <1>1, <2>1, TailInOrder
    <2>3. longer = Append(Tail(events), cur[t])
      BY <1>3 DEF Push
    <2> QED  BY <2>2, <2>3, AppendInOrder
  <1> QED  BY <1>2, <1>3

\* A change of a thread is the newest, so that every log is behind it.
LEMMA CommitKeepsOrder ==
    ASSUME TypeOK, OrderInv, NEW t \in Threads, NEW op \in Op, op.thread = t, Commit(t, op)
    PROVE  OrderInv'
  <1>1. /\ Len(ops) \in Nat /\ Len(ops') = Len(ops) + 1
        /\ \A i \in 1 .. Len(ops) : ops'[i] = ops[i]
        /\ ops'[Len(ops) + 1] = op
    BY AppendProperties DEF Commit, TypeOK
  <1>2. /\ events' = events /\ bus' = bus /\ audit' = audit
        /\ pc' = [pc EXCEPT ![t] = "record"] /\ cur' = [cur EXCEPT ![t] = Len(ops) + 1]
        /\ pc \in [Threads -> {"idle", "record", "publish", "audit"}]
        /\ cur \in [Threads -> 0 .. Len(ops)]
    BY DEF Commit, sinks, TypeOK
  <1>3. ASSUME NEW log \in Seq(0 .. Len(ops)), Ordered(log)
        PROVE  \A j \in 1 .. Len(log), k \in 1 .. Len(log) :
                  (j < k /\ log[j] # 0 /\ log[k] # 0
                         /\ ops'[log[j]].thread = ops'[log[k]].thread) => log[j] < log[k]
    <2> SUFFICES ASSUME NEW j \in 1 .. Len(log), NEW k \in 1 .. Len(log),
                        j < k, log[j] # 0, log[k] # 0,
                        ops'[log[j]].thread = ops'[log[k]].thread
                 PROVE  log[j] < log[k]
      OBVIOUS
    <2>1. log[j] \in 1 .. Len(ops) /\ log[k] \in 1 .. Len(ops)
      <3>1. log[j] \in 0 .. Len(ops) /\ log[k] \in 0 .. Len(ops)
        OBVIOUS
      <3> QED  BY <1>1, <3>1
    <2>2. ops[log[j]].thread = ops[log[k]].thread
      BY <1>1, <2>1
    <2> QED  BY <1>3, <2>2 DEF Ordered
  <1>4. events \in Seq(0 .. Len(ops)) /\ bus \in Seq(0 .. Len(ops)) /\ audit \in Seq(0 .. Len(ops))
    BY DEF TypeOK
  <1>5. Ordered(events)' /\ Ordered(bus)' /\ Ordered(audit)'
    BY <1>2, <1>3, <1>4 DEF OrderInv, Ordered
  <1>6. ASSUME NEW log \in Seq(0 .. Len(ops)), NEW j \in 1 .. Len(log), log[j] # 0
        PROVE  log[j] < Len(ops) + 1 /\ ops'[log[j]] = ops[log[j]]
    BY <1>1, <1>6
  <1>7. BusyThread(t)'
    <2>1. cur'[t] = Len(ops) + 1 /\ ops'[cur'[t]].thread = t /\ cur'[t] # 0
      BY <1>1, <1>2
    <2>2. Behind(events, t)' /\ Behind(bus, t)' /\ Behind(audit, t)'
      BY <1>2, <1>4, <1>6, <2>1 DEF Behind
    <2> QED  BY <2>1, <2>2 DEF BusyThread
  <1>8. ASSUME NEW u \in Threads, u # t PROVE BusyThread(u)'
    <2>1. pc'[u] = pc[u] /\ cur'[u] = cur[u] /\ cur[u] \in 0 .. Len(ops) /\ BusyThread(u)
      BY <1>2, <1>8 DEF OrderInv
    <2>2. /\ Behind(events, u) => Behind(events, u)'
          /\ Behind(bus, u) => Behind(bus, u)'
          /\ Behind(audit, u) => Behind(audit, u)'
      BY <1>2, <1>4, <1>6, <2>1 DEF Behind
    <2>3. cur[u] # 0 => ops'[cur[u]] = ops[cur[u]]
      BY <1>1, <2>1
    <2> QED  BY <2>1, <2>2, <2>3 DEF BusyThread
  <1> QED  BY <1>5, <1>7, <1>8 DEF OrderInv

LEMMA EmitKeepsOrder ==
    ASSUME TypeOK, OrderInv, NEW t \in Threads, Emit(t)
    PROVE  OrderInv'
  <1>1. /\ pc \in [Threads -> {"idle", "record", "publish", "audit"}]
        /\ cur \in [Threads -> 0 .. Len(ops)]
        /\ bus \in Seq(0 .. Len(ops)) /\ audit \in Seq(0 .. Len(ops))
    BY DEF TypeOK
  <1>2. BusyThread(t) /\ \A u \in Threads : BusyThread(u)
    BY DEF OrderInv
  <1>3. CASE Record(t)
    <2>1. /\ pc[t] = "record" /\ pc' = [pc EXCEPT ![t] = "publish"]
          /\ events' = Push(events, cur[t])
          /\ ops' = ops /\ bus' = bus /\ audit' = audit /\ cur' = cur
      BY <1>3 DEF Record, store
    <2>2. cur[t] # 0 /\ ops[cur[t]].thread = t /\ Behind(events, t) /\ Ordered(events)
      BY <1>2, <2>1 DEF BusyThread, OrderInv
    <2> DEFINE longer == Push(events, cur[t])
    <2>3. /\ Ordered(longer)
          /\ \A u \in Threads \ {t} : Behind(events, u) => Behind(longer, u)
      BY <2>2, PushInOrder
    <2>4. Ordered(events)' /\ Ordered(bus)' /\ Ordered(audit)'
      BY <2>1, <2>3 DEF Ordered, OrderInv
    <2>5. \A u \in Threads : /\ Behind(bus, u)' <=> Behind(bus, u)
                             /\ Behind(audit, u)' <=> Behind(audit, u)
                             /\ Behind(events, u)' <=> Behind(longer, u)
      BY <2>1 DEF Behind
    <2>6. BusyThread(t)'
      BY <1>1, <1>2, <2>1, <2>5 DEF BusyThread
    <2>7. \A u \in Threads : u # t => BusyThread(u)'
      BY <1>1, <1>2, <2>1, <2>3, <2>5 DEF BusyThread
    <2> QED  BY <2>4, <2>6, <2>7 DEF OrderInv
  <1>4. CASE Publish(t)
    <2>1. /\ pc[t] = "publish" /\ pc' = [pc EXCEPT ![t] = "audit"]
          /\ bus' = Append(bus, cur[t])
          /\ ops' = ops /\ events' = events /\ audit' = audit /\ cur' = cur
      BY <1>4 DEF Publish, store
    <2>2. cur[t] # 0 /\ ops[cur[t]].thread = t /\ Behind(bus, t) /\ Ordered(bus)
      BY <1>2, <2>1 DEF BusyThread, OrderInv
    <2> DEFINE longer == Append(bus, cur[t])
    <2>3. /\ Ordered(longer)
          /\ \A u \in Threads \ {t} : Behind(bus, u) => Behind(longer, u)
      BY <1>1, <2>2, AppendInOrder
    <2>4. Ordered(events)' /\ Ordered(bus)' /\ Ordered(audit)'
      BY <2>1, <2>3 DEF Ordered, OrderInv
    <2>5. \A u \in Threads : /\ Behind(bus, u)' <=> Behind(longer, u)
                             /\ Behind(audit, u)' <=> Behind(audit, u)
                             /\ Behind(events, u)' <=> Behind(events, u)
      BY <2>1 DEF Behind
    <2>6. BusyThread(t)'
      BY <1>1, <1>2, <2>1, <2>5 DEF BusyThread
    <2>7. \A u \in Threads : u # t => BusyThread(u)'
      BY <1>1, <1>2, <2>1, <2>3, <2>5 DEF BusyThread
    <2> QED  BY <2>4, <2>6, <2>7 DEF OrderInv
  <1>5. CASE Audit(t)
    <2>1. /\ pc[t] = "audit" /\ pc' = [pc EXCEPT ![t] = "idle"]
          /\ audit' = audit \/ audit' = Append(audit, cur[t])
          /\ ops' = ops /\ events' = events /\ bus' = bus /\ cur' = [cur EXCEPT ![t] = 0]
      BY <1>5 DEF Audit, store
    <2>2. cur[t] # 0 /\ ops[cur[t]].thread = t /\ Behind(audit, t) /\ Ordered(audit)
      BY <1>2, <2>1 DEF BusyThread, OrderInv
    <2> DEFINE longer == Append(audit, cur[t])
    <2>3. /\ Ordered(longer)
          /\ \A u \in Threads \ {t} : Behind(audit, u) => Behind(longer, u)
      BY <1>1, <2>2, AppendInOrder
    <2>4. Ordered(events)' /\ Ordered(bus)'
      BY <2>1 DEF Ordered, OrderInv
    <2>5. Ordered(audit)'
      BY <2>1, <2>2, <2>3 DEF Ordered
    <2>6. \A u \in Threads \ {t} : /\ Behind(bus, u)' <=> Behind(bus, u)
                                   /\ Behind(events, u)' <=> Behind(events, u)
                                   /\ Behind(audit, u) => Behind(audit, u)'
      BY <1>1, <2>1, <2>3 DEF Behind
    <2>7. BusyThread(t)'
      BY <1>1, <2>1 DEF BusyThread
    <2>8. \A u \in Threads : u # t => BusyThread(u)'
      BY <1>1, <1>2, <2>1, <2>6 DEF BusyThread
    <2> QED  BY <2>4, <2>5, <2>7, <2>8 DEF OrderInv
  <1> QED  BY <1>3, <1>4, <1>5 DEF Emit

\* A client's call is a commit of an op of its own thread.
LEMMA CallCommits ==
    ASSUME TypeOK, NEW t \in Threads, ClientCall(t)
    PROVE  \E op \in Op : op.thread = t /\ Commit(t, op)
  <1>1. /\ heap \in Seq(Object) /\ Len(heap) \in Nat
        /\ detectors \in [Detectors -> 0 .. Len(heap)]
    BY DEF TypeOK
  <1>2. \A o \in 1 .. Len(heap) : heap[o].status \in Status
    <2>1. \A o \in 1 .. Len(heap) : heap[o] \in Object
      BY <1>1
    <2> QED  BY <2>1 DEF Object
  <1>3. ASSUME NEW d \in Detectors, NEW r \in Rooms, NEW s \in Entry, Register(t, d, r, s)
        PROVE  \E op \in Op : op.thread = t /\ Commit(t, op)
    <2> DEFINE op == [thread |-> t, kind |-> "registered", obj |-> Len(heap) + 1,
                      old |-> s, new |-> s, forced |-> FALSE]
    <2>1. op \in Op /\ op.thread = t
      BY <1>1, EntryAssumption DEF Op
    <2>2. Commit(t, op)
      BY <1>3 DEF Register
    <2> QED  BY <2>1, <2>2
  <1>4. ASSUME NEW d \in Detectors, NEW s \in Status, NEW v \in BOOLEAN, NEW f \in BOOLEAN,
               UpdateStatus(t, d, s, v, f)
        PROVE  \E op \in Op : op.thread = t /\ Commit(t, op)
    <2> DEFINE op == [thread |-> t, kind |-> "status_changed", obj |-> detectors[d],
                      old |-> heap[detectors[d]].status, new |-> s, forced |-> f]
    <2>1. detectors[d] \in 1 .. Len(heap)
      BY <1>1, <1>4 DEF UpdateStatus, NoObject
    <2>2. op \in Op /\ op.thread = t
      BY <1>1, <1>2, <2>1 DEF Op
    <2>3. Commit(t, op)
      BY <1>4 DEF UpdateStatus
    <2> QED  BY <2>2, <2>3
  <1>5. ASSUME NEW d \in Detectors, Remove(t, d)
        PROVE  \E op \in Op : op.thread = t /\ Commit(t, op)
    <2> DEFINE op == [thread |-> t, kind |-> "removed", obj |-> detectors[d],
                      old |-> heap[detectors[d]].status,
                      new |-> heap[detectors[d]].status, forced |-> FALSE]
    <2>1. detectors[d] \in 1 .. Len(heap)
      BY <1>1, <1>5 DEF Remove, NoObject
    <2>2. op \in Op /\ op.thread = t
      BY <1>1, <1>2, <2>1 DEF Op
    <2>3. Commit(t, op)
      BY <1>5 DEF Remove
    <2> QED  BY <2>2, <2>3
  <1> QED  BY <1>3, <1>4, <1>5, FlagsAssumption DEF ClientCall

\* In the twin's own log, on the bus and in the audit store alike, the changes of
\* one thread stand in the order in which the lock made them, however the threads
\* interleave between the four steps of a call and whatever the log has dropped.
THEOREM AnnouncedInOrder == TwinSpec => []InThreadOrder
  <1>1. TwinInit => OrderInv
    BY DEF TwinInit, OrderInv, Ordered, BusyThread
  <1>2. TypeOK /\ OrderInv /\ [TwinNext]_twinVars => OrderInv'
    <2> SUFFICES ASSUME TypeOK, OrderInv, [TwinNext]_twinVars PROVE OrderInv'
      OBVIOUS
    <2>1. CASE UNCHANGED twinVars
      BY <2>1 DEF twinVars, OrderInv, Ordered, BusyThread, Behind
    <2>2. ASSUME NEW t \in Threads, ClientCall(t) PROVE OrderInv'
      BY <2>2, CallCommits, CommitKeepsOrder
    <2>3. ASSUME NEW t \in Threads, Emit(t) PROVE OrderInv'
      BY <2>3, EmitKeepsOrder
    <2> QED  BY <2>1, <2>2, <2>3 DEF TwinNext
  <1>3. OrderInv => InThreadOrder
    BY DEF OrderInv, InThreadOrder, Ordered
  <1> QED  BY <1>1, <1>2, <1>3, TypeCorrect, PTL DEF TwinSpec

-----------------------------------------------------------------------------
(* What a step may never do to an object.                                  *)

\* remove_detector freezes an object: nobody can change it or map it again.
THEOREM Frozen == TwinSpec => RemovedIsFrozen
  <1> DEFINE Freeze == \A o \in 1 .. Len(heap) :
                          (\A d \in Detectors : detectors[d] # o) =>
                              heap'[o] = heap[o] /\ \A d \in Detectors : detectors'[d] # o
  <1>1. TypeOK /\ [TwinNext]_twinVars => [Freeze]_twinVars
    <2> SUFFICES ASSUME TypeOK, TwinNext, NEW o \in 1 .. Len(heap),
                        \A d \in Detectors : detectors[d] # o
                 PROVE  heap'[o] = heap[o] /\ \A d \in Detectors : detectors'[d] # o
      OBVIOUS
    <2>1. heap \in Seq(Object) /\ Len(heap) \in Nat
          /\ detectors \in [Detectors -> 0 .. Len(heap)]
      BY DEF TypeOK
    <2>2. ASSUME NEW t \in Threads, NEW d \in Detectors, NEW r \in Rooms, NEW s \in Entry,
                 Register(t, d, r, s)
          PROVE  heap'[o] = heap[o] /\ \A e \in Detectors : detectors'[e] # o
      <3>1. [det |-> d, room |-> r, status |-> s, installed |-> FALSE, verified |-> FALSE]
               \in Object
        BY EntryAssumption DEF Object
      <3>2. heap'[o] = heap[o]
        BY <2>1, <2>2, <3>1, AppendProperties DEF Register
      <3> QED  BY <2>1, <2>2, <3>2 DEF Register
    <2>3. ASSUME NEW t \in Threads, NEW d \in Detectors, NEW s \in Status, NEW v \in BOOLEAN,
                 NEW f \in BOOLEAN, UpdateStatus(t, d, s, v, f)
          PROVE  heap'[o] = heap[o] /\ \A e \in Detectors : detectors'[e] # o
      BY <2>1, <2>3 DEF UpdateStatus, NoObject
    <2>4. ASSUME NEW t \in Threads, NEW d \in Detectors, Remove(t, d)
          PROVE  heap'[o] = heap[o] /\ \A e \in Detectors : detectors'[e] # o
      BY <2>1, <2>4 DEF Remove, NoObject
    <2>5. ASSUME NEW t \in Threads, Emit(t)
          PROVE  heap'[o] = heap[o] /\ \A e \in Detectors : detectors'[e] # o
      BY <2>5 DEF Emit, Record, Publish, Audit, store
    <2> QED  BY <2>2, <2>3, <2>4, <2>5, FlagsAssumption DEF TwinNext, ClientCall
  <1> QED  BY <1>1, TypeCorrect, PTL DEF TwinSpec, RemovedIsFrozen

\* A decommissioned object takes another status only in a step that forced it.
THEOREM DeadStaysDead == TwinSpec => DeadIsDead
  <1> DEFINE Dead == \A o \in 1 .. Len(heap) :
                        heap[o].status = "decommissioned" =>
                            \/ heap'[o].status = "decommissioned"
                            \/ /\ Len(ops') > Len(ops)
                               /\ ops'[Len(ops')].obj = o
                               /\ ops'[Len(ops')].forced
  <1>1. TypeOK /\ [TwinNext]_twinVars => [Dead]_twinVars
    <2> SUFFICES ASSUME TypeOK, TwinNext, NEW o \in 1 .. Len(heap),
                        heap[o].status = "decommissioned",
                        heap'[o].status # "decommissioned"
                 PROVE  /\ Len(ops') > Len(ops)
                        /\ ops'[Len(ops')].obj = o
                        /\ ops'[Len(ops')].forced
      OBVIOUS
    <2>1. heap \in Seq(Object) /\ Len(heap) \in Nat /\ ops \in Seq(Op) /\ Len(ops) \in Nat
          /\ detectors \in [Detectors -> 0 .. Len(heap)]
      BY DEF TypeOK
    <2>2. ASSUME NEW t \in Threads, NEW d \in Detectors, NEW r \in Rooms, NEW s \in Entry,
                 Register(t, d, r, s)
          PROVE  FALSE
      <3>1. [det |-> d, room |-> r, status |-> s, installed |-> FALSE, verified |-> FALSE]
               \in Object
        BY EntryAssumption DEF Object
      <3> QED  BY <2>1, <2>2, <3>1, AppendProperties DEF Register
    <2>3. ASSUME NEW t \in Threads, NEW d \in Detectors, NEW s \in Status, NEW v \in BOOLEAN,
                 NEW f \in BOOLEAN, UpdateStatus(t, d, s, v, f)
          PROVE  /\ Len(ops') > Len(ops)
                 /\ ops'[Len(ops')].obj = o
                 /\ ops'[Len(ops')].forced
      <3> DEFINE op == [thread |-> t, kind |-> "status_changed", obj |-> detectors[d],
                        old |-> heap[detectors[d]].status, new |-> s, forced |-> f]
      <3>1. detectors[d] = o
        BY <2>1, <2>3 DEF UpdateStatus, NoObject
      <3>2. f = TRUE
        BY <2>3, <3>1 DEF UpdateStatus, Allowed, Legal
      <3>3. op \in Op /\ ops' = Append(ops, op)
        <4>1. heap[o] \in Object /\ o \in Nat \ {0}
          BY <2>1
        <4>2. ops' = Append(ops, op)
          BY <2>3 DEF UpdateStatus, Commit
        <4> QED  BY <3>1, <4>1, <4>2 DEF Op, Object
      <3>4. op.obj = o /\ op.forced
        BY <3>1, <3>2
      <3> HIDE DEF op
      <3> QED  BY <2>1, <3>3, <3>4, AppendProperties
    <2>4. ASSUME NEW t \in Threads, NEW d \in Detectors, Remove(t, d) PROVE FALSE
      BY <2>4 DEF Remove
    <2>5. ASSUME NEW t \in Threads, Emit(t) PROVE FALSE
      BY <2>5 DEF Emit, Record, Publish, Audit, store
    <2> QED  BY <2>2, <2>3, <2>4, <2>5, FlagsAssumption DEF TwinNext, ClientCall
  <1> QED  BY <1>1, TypeCorrect, PTL DEF TwinSpec, DeadIsDead

-----------------------------------------------------------------------------
(* What one mutating call does, in the words the modules that use the twin   *)
(* need: it appends op to the history, and op is about detector d.           *)

Change(op, d) ==
    LET o == op.obj IN
    /\ op \in Op /\ ops' = Append(ops, op)
    /\ heap' \in Seq(Object) /\ o \in 1 .. Len(heap') /\ Len(heap) <= Len(heap')
    /\ \A p \in 1 .. Len(heap) : /\ heap'[p].det = heap[p].det
                                 /\ heap'[p].room = heap[p].room
                                 /\ p # o => heap'[p] = heap[p]
    /\ heap'[o].det = d /\ heap'[o].status = op.new
    /\ op.kind = "removed" => heap' = heap
    /\ detectors' = [detectors EXCEPT ![d] = IF op.kind = "removed" THEN NoObject ELSE o]
    /\ roomIds \subseteq roomIds'
    /\ Current(d)' = IF op.kind = "removed" THEN "absent" ELSE op.new
    /\ \A e \in Detectors : e # d => Current(e)' = Current(e)
    /\ IF op.kind = "registered"
       THEN /\ detectors[d] = NoObject /\ o = Len(heap) + 1 /\ Len(heap') = o
            /\ heap'[o].room \in roomIds'
       ELSE detectors[d] = o /\ o \in 1 .. Len(heap) /\ Len(heap') = Len(heap)

LEMMA RegisterChanges ==
    ASSUME ChainInv, NEW t \in Threads, NEW d \in Detectors, NEW r \in Rooms,
           NEW s \in Status, Register(t, d, r, s)
    PROVE  \E op \in Op : /\ Change(op, d)
                          /\ op.thread = t /\ op.kind = "registered" /\ op.new = s
  <1> DEFINE obj == [det |-> d, room |-> r, status |-> s, installed |-> FALSE, verified |-> FALSE]
             op == [thread |-> t, kind |-> "registered", obj |-> Len(heap) + 1,
                    old |-> s, new |-> s, forced |-> FALSE]
  <1>1. heap \in Seq(Object) /\ Len(heap) \in Nat
        /\ detectors \in [Detectors -> 0 .. Len(heap)]
    BY DEF ChainInv, TypeOK
  <1>2. op \in Op /\ ops' = Append(ops, op)
    BY <1>1 DEF Register, Commit, Op
  <1>3. /\ op.thread = t /\ op.kind = "registered" /\ op.new = s /\ op.obj = Len(heap) + 1
        /\ obj.det = d /\ obj.status = s /\ obj.room = r
    OBVIOUS
  <1>4. obj \in Object /\ heap' = Append(heap, obj)
    BY DEF Register, Object
  <1> HIDE DEF op, obj
  <1>5. /\ heap' \in Seq(Object) /\ Len(heap') = Len(heap) + 1
        /\ \A o \in 1 .. Len(heap) : heap'[o] = heap[o]
        /\ heap'[Len(heap) + 1] = obj
    BY <1>1, <1>4, AppendProperties
  <1>6. /\ detectors[d] = NoObject /\ detectors' = [detectors EXCEPT ![d] = Len(heap) + 1]
        /\ roomIds' = roomIds \cup {r}
    BY DEF Register
  <1>7. Current(d)' = s
    BY <1>1, <1>3, <1>5, <1>6 DEF Current, NoObject
  <1>8. \A e \in Detectors : e # d => Current(e)' = Current(e)
    BY <1>1, <1>5, <1>6 DEF Current, NoObject
  <1>9. Change(op, d)
    BY <1>1, <1>2, <1>3, <1>5, <1>6, <1>7, <1>8 DEF Change
  <1> QED  BY <1>2, <1>3, <1>9

LEMMA UpdateChanges ==
    ASSUME ChainInv, NEW t \in Threads, NEW d \in Detectors, NEW s \in Status,
           NEW v \in BOOLEAN, NEW f \in BOOLEAN, UpdateStatus(t, d, s, v, f)
    PROVE  \E op \in Op : /\ Change(op, d)
                          /\ op.thread = t /\ op.kind = "status_changed" /\ op.new = s
  <1> DEFINE o == detectors[d]
             op == [thread |-> t, kind |-> "status_changed", obj |-> o,
                    old |-> heap[o].status, new |-> s, forced |-> f]
  <1>1. heap \in Seq(Object) /\ Len(heap) \in Nat
        /\ detectors \in [Detectors -> 0 .. Len(heap)]
    BY DEF ChainInv, TypeOK
  <1>2. o \in 1 .. Len(heap) /\ heap[o] \in Object /\ o # NoObject
    BY <1>1 DEF UpdateStatus, NoObject
  <1>3. op \in Op /\ ops' = Append(ops, op)
    <2>1. heap[o].status \in Status /\ o \in Nat \ {0}
      BY <1>1, <1>2 DEF Object
    <2>2. ops' = Append(ops, op)
      BY DEF UpdateStatus, Commit
    <2> QED  BY <2>1, <2>2 DEF Op
  <1>4. op.thread = t /\ op.kind = "status_changed" /\ op.new = s /\ op.obj = o
    OBVIOUS
  <1> HIDE DEF op
  <1>5. /\ heap' = [heap EXCEPT ![o] = Updated(@, s, v)]
        /\ detectors' = detectors /\ roomIds' = roomIds
    BY DEF UpdateStatus
  <1>6. /\ heap' \in Seq(Object) /\ Len(heap') = Len(heap)
        /\ \A p \in 1 .. Len(heap) : p # o => heap'[p] = heap[p]
        /\ heap'[o].status = s /\ heap'[o].det = heap[o].det
    BY <1>1, <1>2, <1>5, HeapAfterUpdate
  <1>7. heap'[o].room = heap[o].room
    BY <1>1, <1>2, <1>5 DEF Updated
  <1>8. \A p \in 1 .. Len(heap) : heap'[p].det = heap[p].det /\ heap'[p].room = heap[p].room
    BY <1>6, <1>7
  <1>9. heap'[o].det = d
    BY <1>2, <1>6 DEF ChainInv, MapMatchesHeap
  <1>10. detectors' = [detectors EXCEPT ![d] = o]
    BY <1>1, <1>5
  <1>11. Current(d)' = s
    BY <1>2, <1>5, <1>6 DEF Current
  <1>12. \A e \in Detectors : e # d => Current(e)' = Current(e)
    <2>1. Life' = [Life EXCEPT ![d] = s]
      BY <1>2, <1>5, LifeAfterUpdate
    <2> QED  BY <2>1 DEF Life
  <1>13. detectors[d] = o /\ Current(d)' = op.new /\ roomIds \subseteq roomIds'
    BY <1>4, <1>5, <1>11
  <1> HIDE DEF o
  <1>14. Change(op, d)
    BY <1>2, <1>3, <1>4, <1>6, <1>8, <1>9, <1>10, <1>12, <1>13 DEF Change
  <1> QED  BY <1>3, <1>4, <1>14

LEMMA RemoveChanges ==
    ASSUME ChainInv, NEW t \in Threads, NEW d \in Detectors, Remove(t, d)
    PROVE  \E op \in Op : Change(op, d) /\ op.thread = t /\ op.kind = "removed"
  <1> DEFINE o == detectors[d]
             op == [thread |-> t, kind |-> "removed", obj |-> o, old |-> heap[o].status,
                    new |-> heap[o].status, forced |-> FALSE]
  <1>1. heap \in Seq(Object) /\ Len(heap) \in Nat
        /\ detectors \in [Detectors -> 0 .. Len(heap)]
    BY DEF ChainInv, TypeOK
  <1>2. o \in 1 .. Len(heap) /\ heap[o] \in Object /\ o # NoObject
    BY <1>1 DEF Remove, NoObject
  <1>3. op \in Op /\ ops' = Append(ops, op)
    <2>1. heap[o].status \in Status /\ o \in Nat \ {0}
      BY <1>1, <1>2 DEF Object
    <2>2. ops' = Append(ops, op)
      BY DEF Remove, Commit
    <2> QED  BY <2>1, <2>2 DEF Op
  <1>4. op.thread = t /\ op.kind = "removed" /\ op.new = heap[o].status /\ op.obj = o
    OBVIOUS
  <1> HIDE DEF op
  <1>5. /\ heap' = heap /\ detectors' = [detectors EXCEPT ![d] = NoObject]
        /\ roomIds' = roomIds
    BY DEF Remove
  <1>6. heap'[o].det = d
    BY <1>2, <1>5 DEF ChainInv, MapMatchesHeap
  <1>7. Current(d)' = "absent"
    BY <1>1, <1>5 DEF Current
  <1>8. \A e \in Detectors : e # d => Current(e)' = Current(e)
    BY <1>1, <1>5 DEF Current
  <1>9. Change(op, d)
    BY <1>1, <1>2, <1>3, <1>4, <1>5, <1>6, <1>7, <1>8 DEF Change
  <1> QED  BY <1>3, <1>4, <1>9

LEMMA CallChanges ==
    ASSUME ChainInv, NEW t \in Threads, ClientCall(t)
    PROVE  \E op \in Op, d \in Detectors : Change(op, d) /\ op.thread = t
  <1>1. PICK d \in Detectors :
           \/ \E r \in Rooms, s \in Entry : Register(t, d, r, s)
           \/ \E s \in Status, v \in Verifieds, f \in Forces : UpdateStatus(t, d, s, v, f)
           \/ Remove(t, d)
    BY DEF ClientCall
  <1>2. \E op \in Op : Change(op, d) /\ op.thread = t
    BY <1>1, RegisterChanges, UpdateChanges, RemoveChanges, EntryAssumption, FlagsAssumption
  <1> QED  BY <1>2

\* The history after one more op.
LEMMA HistoryGrows ==
    ASSUME ops \in Seq(Op), NEW op \in Op, ops' = Append(ops, op)
    PROVE  /\ Len(ops) \in Nat /\ Len(ops') = Len(ops) + 1
           /\ \A i \in 1 .. Len(ops) : ops'[i] = ops[i]
           /\ ops'[Len(ops) + 1] = op
  BY AppendProperties

-----------------------------------------------------------------------------
(* The syncs.  A step of SyncNext either changes no detector, and at most    *)
(* one job, or is a Change; what it does to the job is one of Goto, Outcome  *)
(* and StartSync.                                                            *)

InBody == {"design", "remove", "register", "asbuilt", "isdead", "commission"}

JobState == [kind : {"none", "design", "asbuilt"}, overwrite : BOOLEAN, items : Seq(Item),
             stage : InBody \cup {"none", "next", "done", "aborted"}, seen : Nat,
             synced : Nat, skipped : Nat, errors : Nat, start : Nat, input : Seq(Item)]

JobTypeOK ==
    /\ job \in [Syncers -> JobState]
    /\ \A t \in Syncers :
          /\ job[t].start <= Len(ops)
          /\ job[t].stage \in InBody => job[t].items # <<>>
          /\ IF job[t].stage = "none" THEN job[t] = NoJob ELSE job[t].kind # "none"
          /\ job[t].stage = "remove" => job[t].overwrite

SyncInv == ChainInv /\ JobTypeOK

LEMMA OutcomeEffect ==
    ASSUME job \in [Syncers -> JobState], NEW t \in Syncers, job[t].items # <<>>,
           NEW count, Outcome(t, count)
    PROVE  /\ job' \in [Syncers -> JobState]
           /\ \A u \in Syncers : u # t => job'[u] = job[u]
           /\ job'[t].items = Tail(job[t].items) /\ job'[t].stage = "next"
           /\ job'[t].synced = IF count = "synced" THEN job[t].synced + 1 ELSE job[t].synced
           /\ job'[t].skipped = IF count = "skipped" THEN job[t].skipped + 1 ELSE job[t].skipped
           /\ job'[t].errors = IF count = "errors" THEN job[t].errors + 1 ELSE job[t].errors
           /\ job'[t].kind = job[t].kind /\ job'[t].overwrite = job[t].overwrite
           /\ job'[t].start = job[t].start /\ job'[t].input = job[t].input
  <1>1. job[t] \in JobState
    OBVIOUS
  <1> DEFINE sy == IF count = "synced" THEN job[t].synced + 1 ELSE job[t].synced
             sk == IF count = "skipped" THEN job[t].skipped + 1 ELSE job[t].skipped
             er == IF count = "errors" THEN job[t].errors + 1 ELSE job[t].errors
             new == [job[t] EXCEPT !.items = Tail(job[t].items), !.stage = "next",
                                   !.synced = sy, !.skipped = sk, !.errors = er]
  <1>2. Tail(job[t].items) \in Seq(Item)
    BY <1>1 DEF JobState
  <1>3. sy \in Nat /\ sk \in Nat /\ er \in Nat
    BY <1>1 DEF JobState
  <1>4. job' = [job EXCEPT ![t] = new]
    BY DEF Outcome
  <1> HIDE DEF sy, sk, er
  <1>5. /\ new \in JobState
        /\ new.items = Tail(job[t].items) /\ new.stage = "next"
        /\ new.synced = sy /\ new.skipped = sk /\ new.errors = er
        /\ new.kind = job[t].kind /\ new.overwrite = job[t].overwrite
        /\ new.start = job[t].start /\ new.input = job[t].input
    BY <1>1, <1>2, <1>3 DEF JobState
  <1> HIDE DEF new
  <1>6. /\ job' \in [Syncers -> JobState] /\ job'[t] = new
        /\ \A u \in Syncers : u # t => job'[u] = job[u]
    BY <1>4, <1>5
  <1> QED  BY <1>5, <1>6 DEF sy, sk, er

LEMMA GotoEffect ==
    ASSUME job \in [Syncers -> JobState], NEW t \in Syncers,
           NEW stage \in InBody \cup {"none", "next", "done", "aborted"}, Goto(t, stage)
    PROVE  /\ job' \in [Syncers -> JobState]
           /\ \A u \in Syncers : u # t => job'[u] = job[u]
           /\ job'[t] = [job[t] EXCEPT !.stage = stage]
           /\ job'[t].stage = stage /\ job'[t].items = job[t].items
           /\ job'[t].synced = job[t].synced /\ job'[t].skipped = job[t].skipped
           /\ job'[t].errors = job[t].errors /\ job'[t].seen = job[t].seen
           /\ job'[t].kind = job[t].kind /\ job'[t].overwrite = job[t].overwrite
           /\ job'[t].start = job[t].start /\ job'[t].input = job[t].input
  <1>1. job[t] \in JobState
    OBVIOUS
  <1>2. job' = [job EXCEPT ![t] = [job[t] EXCEPT !.stage = stage]]
    BY DEF Goto
  <1> QED  BY <1>1, <1>2 DEF JobState

LEMMA StartEffect ==
    ASSUME TypeOK, job \in [Syncers -> JobState], NEW t \in Syncers, StartSync(t)
    PROVE  /\ job' \in [Syncers -> JobState]
           /\ \A u \in Syncers : u # t => job'[u] = job[u]
           /\ \E input \in Inputs :
                 /\ job'[t].stage = "next" /\ job'[t].start = Len(ops)
                 /\ job'[t].items = input.items /\ job'[t].input = input.items
                 /\ job'[t].kind = input.kind /\ job'[t].overwrite = input.overwrite
                 /\ job'[t].synced = job[t].synced /\ job'[t].skipped = job[t].skipped
                 /\ job'[t].errors = job[t].errors
  <1>1. PICK input \in Inputs :
          job' = [job EXCEPT ![t] =
                    [job[t] EXCEPT !.kind = input.kind, !.overwrite = input.overwrite,
                              !.items = input.items, !.stage = "next",
                              !.input = input.items, !.start = Len(ops)]]
    BY DEF StartSync
  <1>2. input \in Job /\ job[t] \in JobState /\ Len(ops) \in Nat
    BY InputsAssumption DEF TypeOK
  <1>3. /\ job' \in [Syncers -> JobState]
        /\ \A u \in Syncers : u # t => job'[u] = job[u]
    BY <1>1, <1>2 DEF JobState, Job
  <1>4. /\ job'[t].stage = "next" /\ job'[t].start = Len(ops)
        /\ job'[t].items = input.items /\ job'[t].input = input.items
        /\ job'[t].kind = input.kind /\ job'[t].overwrite = input.overwrite
        /\ job'[t].synced = job[t].synced /\ job'[t].skipped = job[t].skipped
        /\ job'[t].errors = job[t].errors
    BY <1>1, <1>2 DEF JobState, Job
  <1> QED  BY <1>3, <1>4

LEMMA LookupEffect ==
    ASSUME TypeOK, job \in [Syncers -> JobState], NEW t \in Syncers,
           job[t].stage = "next", job[t].items # <<>>, job[t].kind # "none",
           job' = [job EXCEPT ![t] = [@ EXCEPT !.seen = detectors[It(t).det],
                                               !.stage = job[t].kind]]
    PROVE  /\ job' \in [Syncers -> JobState]
           /\ \A u \in Syncers : u # t => job'[u] = job[u]
           /\ job'[t].stage = job[t].kind /\ job'[t].seen = detectors[It(t).det]
           /\ job'[t].items = job[t].items
           /\ job'[t].synced = job[t].synced /\ job'[t].skipped = job[t].skipped
           /\ job'[t].errors = job[t].errors
           /\ job'[t].kind = job[t].kind /\ job'[t].overwrite = job[t].overwrite
           /\ job'[t].start = job[t].start /\ job'[t].input = job[t].input
  <1>1. job[t] \in JobState
    OBVIOUS
  <1>2. It(t) \in Item
    BY <1>1 DEF It, JobState
  <1>3. detectors[It(t).det] \in Nat
    <2>1. It(t).det \in Detectors
      BY <1>2 DEF Item
    <2>2. detectors \in [Detectors -> 0 .. Len(heap)] /\ Len(heap) \in Nat
      BY DEF TypeOK
    <2> QED  BY <2>1, <2>2
  <1> DEFINE new == [job[t] EXCEPT !.seen = detectors[It(t).det], !.stage = job[t].kind]
  <1>4. /\ new \in JobState
        /\ new.stage = job[t].kind /\ new.seen = detectors[It(t).det]
        /\ new.items = job[t].items
        /\ new.synced = job[t].synced /\ new.skipped = job[t].skipped
        /\ new.errors = job[t].errors
        /\ new.kind = job[t].kind /\ new.overwrite = job[t].overwrite
        /\ new.start = job[t].start /\ new.input = job[t].input
    <2>1. job[t].kind \in {"design", "asbuilt"}
      BY <1>1 DEF JobState
    <2> QED  BY <1>1, <1>3, <2>1 DEF JobState, InBody
  <1>5. job' = [job EXCEPT ![t] = new]
    OBVIOUS
  <1> HIDE DEF new
  <1> QED  BY <1>4, <1>5

\* The list of t and what is counted of it are as before.
SameEntry(t) ==
    /\ job'[t].items = job[t].items /\ job'[t].input = job[t].input
    /\ job'[t].synced = job[t].synced /\ job'[t].skipped = job[t].skipped
    /\ job'[t].errors = job[t].errors /\ job'[t].start = job[t].start
    /\ job'[t].kind = job[t].kind /\ job'[t].overwrite = job[t].overwrite

Typed(t) == /\ job' \in [Syncers -> JobState]
            /\ \A u \in Syncers : u # t => job'[u] = job[u]

Stays(t) ==
    /\ Typed(t) /\ SameEntry(t)
    /\ job[t].stage # "none" /\ job'[t].stage # "none"
    /\ job'[t].stage \in InBody => job[t].items # <<>>
    /\ job'[t].stage = "remove" => job[t].overwrite

Passes(t, count) ==
    /\ Typed(t) /\ job[t].stage # "none" /\ job'[t].stage = "next"
    /\ job[t].items # <<>> /\ job'[t].items = Tail(job[t].items)
    /\ job'[t].synced = IF count = "synced" THEN job[t].synced + 1 ELSE job[t].synced
    /\ job'[t].skipped = IF count = "skipped" THEN job[t].skipped + 1 ELSE job[t].skipped
    /\ job'[t].errors = IF count = "errors" THEN job[t].errors + 1 ELSE job[t].errors
    /\ job'[t].kind = job[t].kind /\ job'[t].overwrite = job[t].overwrite
    /\ job'[t].start = job[t].start /\ job'[t].input = job[t].input

Starts(t) ==
    /\ Typed(t) /\ job[t].stage = "none" /\ job'[t].stage = "next"
    /\ job'[t].start = Len(ops) /\ job'[t].items = job'[t].input /\ job'[t].kind # "none"
    /\ job'[t].synced = 0 /\ job'[t].skipped = 0 /\ job'[t].errors = 0

LEMMA GoesTo ==
    ASSUME SyncInv, NEW t \in Syncers, job[t].stage # "none",
           NEW stage \in InBody \cup {"next", "done", "aborted"}, Goto(t, stage),
           stage \in InBody => job[t].items # <<>>,
           stage = "remove" => job[t].overwrite
    PROVE  Stays(t)
  <1>1. job \in [Syncers -> JobState] /\ stage # "none"
        /\ stage \in InBody \cup {"none", "next", "done", "aborted"}
    BY DEF SyncInv, JobTypeOK, InBody
  <1>2. Typed(t) /\ SameEntry(t) /\ job'[t].stage = stage
    BY <1>1, GotoEffect DEF SameEntry, Typed
  <1> QED  BY <1>1, <1>2 DEF Stays

LEMMA Counts ==
    ASSUME SyncInv, NEW t \in Syncers, job[t].stage # "none", job[t].items # <<>>,
           NEW count, Outcome(t, count)
    PROVE  Passes(t, count)
  BY OutcomeEffect DEF SyncInv, JobTypeOK, Passes, Typed

\* The steps that leave the twin's map alone.
Quiet(t) ==
    UNCHANGED store /\ (Starts(t) \/ Stays(t) \/ Passes(t, "skipped") \/ Passes(t, "errors"))

LEMMA StartIsQuiet ==
    ASSUME SyncInv, NEW t \in Syncers, StartSync(t)
    PROVE  Quiet(t)
  <1>1. TypeOK /\ job \in [Syncers -> JobState]
    BY DEF SyncInv, ChainInv, JobTypeOK
  <1>2. job[t] = NoJob /\ job[t].stage = "none" /\ UNCHANGED store
    BY DEF SyncInv, JobTypeOK, StartSync, twinVars, store
  <1>3. job[t].synced = 0 /\ job[t].skipped = 0 /\ job[t].errors = 0
    BY <1>2 DEF NoJob
  <1>4. \A input \in Inputs : input.kind # "none"
    BY InputsAssumption DEF Job
  <1> QED  BY <1>1, <1>2, <1>3, <1>4, StartEffect DEF Quiet, Starts, Typed

LEMMA LookupIsQuiet ==
    ASSUME SyncInv, NEW t \in Syncers, Lookup(t)
    PROVE  Quiet(t)
  <1>1. TypeOK /\ job \in [Syncers -> JobState]
    BY DEF SyncInv, ChainInv, JobTypeOK
  <1>2. /\ job[t].stage = "next" /\ job[t].items # <<>> /\ job[t].kind # "none"
        /\ UNCHANGED store
    BY DEF SyncInv, JobTypeOK, Lookup, At, twinVars, store
  <1>3. \/ Outcome(t, "errors") \/ Goto(t, "aborted")
        \/ job' = [job EXCEPT ![t] = [@ EXCEPT !.seen = detectors[It(t).det],
                                               !.stage = job[t].kind]]
    BY DEF Lookup, Abort
  <1>4. CASE Outcome(t, "errors")
    BY <1>2, <1>4, Counts DEF Quiet
  <1>5. CASE Goto(t, "aborted")
    BY <1>2, <1>5, GoesTo DEF Quiet, InBody
  <1>6. CASE job' = [job EXCEPT ![t] = [@ EXCEPT !.seen = detectors[It(t).det],
                                                 !.stage = job[t].kind]]
    <2>1. job[t].kind \in {"design", "asbuilt"}
      BY <1>1, <1>2 DEF JobState
    <2> QED  BY <1>1, <1>2, <1>6, <2>1, LookupEffect DEF Quiet, Stays, SameEntry, Typed
  <1> QED  BY <1>3, <1>4, <1>5, <1>6

LEMMA DecisionIsQuiet ==
    ASSUME SyncInv, NEW t \in Syncers,
           DesignDecide(t) \/ AsBuiltIsOk(t) \/ AsBuiltIsDead(t) \/ EndSync(t)
    PROVE  Quiet(t)
  <1>1. /\ job[t].stage # "none" /\ UNCHANGED store
        /\ job[t].stage \in InBody => job[t].items # <<>>
    BY DEF SyncInv, JobTypeOK, DesignDecide, AsBuiltIsOk, AsBuiltIsDead, EndSync, At,
           twinVars, store
  <1>2. CASE EndSync(t)
    BY <1>1, <1>2, GoesTo DEF EndSync, Quiet, InBody
  <1>3. CASE DesignDecide(t) \/ AsBuiltIsOk(t) \/ AsBuiltIsDead(t)
    <2>1. job[t].stage \in InBody
      BY <1>3 DEF DesignDecide, AsBuiltIsOk, AsBuiltIsDead, At, InBody
    <2>2. \/ Outcome(t, "skipped") \/ Outcome(t, "errors")
          \/ Goto(t, "aborted") \/ Goto(t, "register") \/ Goto(t, "isdead")
          \/ Goto(t, "commission")
          \/ Goto(t, "remove") /\ job[t].overwrite
      BY <1>3 DEF DesignDecide, AsBuiltIsOk, AsBuiltIsDead, Abort
    <2>3. \/ Passes(t, "skipped") \/ Passes(t, "errors") \/ Stays(t)
      BY <1>1, <2>1, <2>2, Counts, GoesTo DEF InBody
    <2> QED  BY <1>1, <2>3 DEF Quiet
  <1> QED  BY <1>2, <1>3

\* The steps of a sync that change the twin; the alternative is a refusal.
Changes(t) ==
    \E op \in Op, d \in Detectors :
        /\ Change(op, d) /\ op.thread = t
        /\ \/ op.kind = "removed" /\ job[t].overwrite /\ Stays(t)
           \/ /\ op.kind # "removed"
              /\ op.kind = "registered" \/ op.new = "ok"
              /\ Passes(t, "synced")

LEMMA ItsDetector ==
    ASSUME SyncInv, NEW t \in Syncers, job[t].items # <<>>
    PROVE  It(t) \in Item /\ It(t).det \in Detectors /\ It(t).room \in Rooms
           /\ It(t).verified \in BOOLEAN
  <1>1. job[t].items \in Seq(Item)
    BY DEF SyncInv, JobTypeOK, JobState
  <1>2. It(t) \in Item
    BY <1>1 DEF It
  <1> QED  BY <1>2 DEF Item

LEMMA RemoveChangesOrNot ==
    ASSUME SyncInv, NEW t \in Syncers, DesignRemove(t)
    PROVE  Quiet(t) \/ Changes(t)
  <1>1. /\ job[t].stage # "none" /\ job[t].items # <<>> /\ job[t].overwrite /\ t \in Threads
    BY SyncersAssumption DEF SyncInv, JobTypeOK, DesignRemove, At, InBody
  <1>2. PICK d \in Detectors : d = It(t).det
    BY <1>1, ItsDetector
  <1>3. CASE Remove(t, It(t).det) /\ Goto(t, "register")
    <2>1. Stays(t)
      BY <1>1, <1>3, GoesTo DEF InBody
    <2>2. \E op \in Op : Change(op, d) /\ op.thread = t /\ op.kind = "removed"
      BY <1>1, <1>2, <1>3, RemoveChanges DEF SyncInv
    <2> QED  BY <1>1, <2>1, <2>2 DEF Changes
  <1>4. CASE Outcome(t, "errors") /\ UNCHANGED twinVars
    BY <1>1, <1>4, Counts DEF Quiet, twinVars, store
  <1> QED  BY <1>3, <1>4 DEF DesignRemove

LEMMA RegisterChangesOrNot ==
    ASSUME SyncInv, NEW t \in Syncers, SyncRegister(t)
    PROVE  Quiet(t) \/ Changes(t)
  <1>1. job[t].stage # "none" /\ job[t].items # <<>> /\ t \in Threads
    BY SyncersAssumption DEF SyncInv, JobTypeOK, SyncRegister, At, InBody
  <1>2. PICK d \in Detectors : d = It(t).det
    BY <1>1, ItsDetector
  <1>3. CASE /\ Register(t, It(t).det, It(t).room, EntryStatus(job[t].kind))
             /\ Outcome(t, "synced")
    <2>1. Passes(t, "synced")
      BY <1>1, <1>3, Counts
    <2>2. EntryStatus(job[t].kind) \in Status
      BY DEF EntryStatus, Status
    <2>3. \E op \in Op : Change(op, d) /\ op.thread = t /\ op.kind = "registered"
      BY <1>1, <1>2, <1>3, <2>2, ItsDetector, RegisterChanges DEF SyncInv
    <2> QED  BY <1>1, <2>1, <2>3 DEF Changes
  <1>4. CASE Outcome(t, "errors") /\ UNCHANGED twinVars
    BY <1>1, <1>4, Counts DEF Quiet, twinVars, store
  <1> QED  BY <1>3, <1>4 DEF SyncRegister

LEMMA CommissionChangesOrNot ==
    ASSUME SyncInv, NEW t \in Syncers, AsBuiltCommission(t)
    PROVE  Quiet(t) \/ Changes(t)
  <1>1. job[t].stage # "none" /\ job[t].items # <<>> /\ t \in Threads
    BY SyncersAssumption DEF SyncInv, JobTypeOK, AsBuiltCommission, At, InBody
  <1>2. PICK d \in Detectors : d = It(t).det
    BY <1>1, ItsDetector
  <1>3. CASE /\ UpdateStatus(t, It(t).det, "ok", It(t).verified, FALSE)
             /\ Outcome(t, "synced")
    <2>1. Passes(t, "synced")
      BY <1>1, <1>3, Counts
    <2>2. "ok" \in Status /\ FALSE \in BOOLEAN
      BY DEF Status
    <2>3. \E op \in Op : /\ Change(op, d) /\ op.thread = t
                         /\ op.kind = "status_changed" /\ op.new = "ok"
      <3>1. ChainInv /\ It(t).det \in Detectors /\ It(t).verified \in BOOLEAN
        BY <1>1, ItsDetector DEF SyncInv
      <3>2. \E v \in BOOLEAN, f \in BOOLEAN : UpdateStatus(t, d, "ok", v, f)
        BY <1>2, <1>3, <2>2, <3>1, Zenon
      <3> QED  BY <1>1, <2>2, <3>1, <3>2, UpdateChanges
    <2> QED  BY <1>1, <2>1, <2>3 DEF Changes
  <1>4. CASE Outcome(t, "errors") /\ UNCHANGED twinVars
    BY <1>1, <1>4, Counts DEF Quiet, twinVars, store
  <1> QED  BY <1>3, <1>4 DEF AsBuiltCommission

\* Whatever happens is a quiet step or a change of one sync, a change by another
\* thread, or an announcement.
LEMMA SyncStepShape ==
    ASSUME SyncInv, [SyncNext]_syncVars
    PROVE  \/ \E t \in Syncers : Quiet(t) \/ Changes(t)
           \/ /\ UNCHANGED job
              /\ \E op \in Op, d \in Detectors : Change(op, d) /\ op.thread \notin Syncers
           \/ UNCHANGED job /\ UNCHANGED store
  <1>1. ASSUME NEW t \in Syncers, StartSync(t) \/ SyncStep(t)
        PROVE  Quiet(t) \/ Changes(t)
    BY <1>1, StartIsQuiet, LookupIsQuiet, DecisionIsQuiet, RemoveChangesOrNot,
       RegisterChangesOrNot, CommissionChangesOrNot DEF SyncStep
  <1>2. ASSUME NEW t \in Threads \ Syncers, BoundedCall(t)
        PROVE  \E op \in Op, d \in Detectors : Change(op, d) /\ op.thread \notin Syncers
    BY <1>2, CallChanges DEF BoundedCall, SyncInv
  <1>3. ASSUME NEW t \in Threads, Emit(t) PROVE UNCHANGED store
    BY <1>3, EmitKeepsStore
  <1>4. CASE UNCHANGED syncVars
    BY <1>4 DEF syncVars, twinVars, store
  <1> QED  BY <1>1, <1>2, <1>3, <1>4 DEF SyncNext

-----------------------------------------------------------------------------
(* The invariants of the syncs.                                            *)

LEMMA EndSyncType ==
    ASSUME TypeOK, NEW t \in Syncers, EndSync(t)
    PROVE  TypeOK'
  <1>1. bus' \in Seq(0 .. Len(ops))
    BY DEF EndSync, TypeOK
  <1>2. audit' \in Seq(0 .. Len(ops))
    <2>1. audit \in Seq(0 .. Len(ops)) /\ Append(audit, 0) \in Seq(0 .. Len(ops))
      BY DEF TypeOK
    <2> QED  BY <2>1, Zenon DEF EndSync
  <1> QED  BY <1>1, <1>2 DEF EndSync, TypeOK, store

LEMMA SyncKeepsType ==
    ASSUME SyncInv, [SyncNext]_syncVars
    PROVE  TypeOK'
  <1>1. TypeOK
    BY DEF SyncInv, ChainInv
  <1>2. ASSUME UNCHANGED twinVars PROVE TypeOK'
    BY <1>1, <1>2 DEF TypeOK, twinVars
  <1>3. ASSUME NEW t \in Syncers, StartSync(t) \/ SyncStep(t) PROVE TypeOK'
    <2>1. t \in Threads
      BY SyncersAssumption
    <2>2. CASE DesignRemove(t)
      <3>1. job[t].items # <<>>
        BY <2>2 DEF SyncInv, JobTypeOK, DesignRemove, At, InBody
      <3> QED  BY <1>1, <1>2, <2>1, <2>2, <3>1, ItsDetector, RemoveType DEF DesignRemove
    <2>3. CASE SyncRegister(t)
      <3>1. job[t].items # <<>>
        BY <2>3 DEF SyncInv, JobTypeOK, SyncRegister, At, InBody
      <3>2. EntryStatus(job[t].kind) \in Status
        BY DEF EntryStatus, Status
      <3> QED  BY <1>1, <1>2, <2>1, <2>3, <3>1, <3>2, ItsDetector, RegisterType DEF SyncRegister
    <2>4. CASE AsBuiltCommission(t)
      <3>1. job[t].items # <<>>
        BY <2>4 DEF SyncInv, JobTypeOK, AsBuiltCommission, At, InBody
      <3>2. "ok" \in Status
        BY DEF Status
      <3>3. It(t).det \in Detectors /\ It(t).verified \in BOOLEAN
        BY <3>1, ItsDetector
      <3>4. \/ UNCHANGED twinVars
            \/ \E v \in BOOLEAN, f \in BOOLEAN : UpdateStatus(t, It(t).det, "ok", v, f)
        BY <2>4, <3>3, Zenon DEF AsBuiltCommission
      <3> QED  BY <1>1, <1>2, <2>1, <3>2, <3>3, <3>4, UpdateType
    <2>5. CASE EndSync(t)
      BY <1>1, <2>5, EndSyncType
    <2>6. CASE \/ StartSync(t) \/ Lookup(t) \/ DesignDecide(t)
               \/ AsBuiltIsOk(t) \/ AsBuiltIsDead(t)
      BY <1>2, <2>6 DEF StartSync, Lookup, DesignDecide, AsBuiltIsOk, AsBuiltIsDead
    <2> QED  BY <1>3, <2>2, <2>3, <2>4, <2>5, <2>6 DEF SyncStep
  <1>4. ASSUME NEW t \in Threads, ClientCall(t) \/ Emit(t) PROVE TypeOK'
    BY <1>1, <1>4, CallType, EmitType
  <1> QED  BY <1>2, <1>3, <1>4 DEF SyncNext, BoundedCall, syncVars

\* A change keeps the chain whoever makes it.
LEMMA ChangeKeepsChain ==
    ASSUME ChainInv, TypeOK', NEW t \in Threads, NEW d \in Detectors,
           \/ \E r \in Rooms, s \in Status : Register(t, d, r, s)
           \/ \E s \in Status, v \in BOOLEAN, f \in BOOLEAN : UpdateStatus(t, d, s, v, f)
           \/ Remove(t, d)
    PROVE  ChainInv'
  BY RegisterKeepsChain, UpdateKeepsChain, RemoveKeepsChain

LEMMA SyncKeepsChain ==
    ASSUME SyncInv, TypeOK', [SyncNext]_syncVars
    PROVE  ChainInv'
  <1>1. ChainInv
    BY DEF SyncInv
  <1>2. ASSUME UNCHANGED store PROVE ChainInv'
    BY <1>1, <1>2, StoreUnchangedKeepsChain
  <1>3. ASSUME NEW t \in Syncers, StartSync(t) \/ SyncStep(t) PROVE ChainInv'
    <2>1. t \in Threads
      BY SyncersAssumption
    <2>2. CASE DesignRemove(t)
      <3>1. job[t].items # <<>>
        BY <2>2 DEF SyncInv, JobTypeOK, DesignRemove, At, InBody
      <3>2. Remove(t, It(t).det) \/ UNCHANGED store
        BY <2>2 DEF DesignRemove, twinVars, store
      <3> QED  BY <1>1, <1>2, <2>1, <3>1, <3>2, ItsDetector, ChangeKeepsChain
    <2>3. CASE SyncRegister(t)
      <3>1. job[t].items # <<>>
        BY <2>3 DEF SyncInv, JobTypeOK, SyncRegister, At, InBody
      <3>2. EntryStatus(job[t].kind) \in Status
        BY DEF EntryStatus, Status
      <3>3. Register(t, It(t).det, It(t).room, EntryStatus(job[t].kind)) \/ UNCHANGED store
        BY <2>3 DEF SyncRegister, twinVars, store
      <3> QED  BY <1>1, <1>2, <2>1, <3>1, <3>2, <3>3, ItsDetector, ChangeKeepsChain
    <2>4. CASE AsBuiltCommission(t)
      <3>1. job[t].items # <<>>
        BY <2>4 DEF SyncInv, JobTypeOK, AsBuiltCommission, At, InBody
      <3>2. "ok" \in Status
        BY DEF Status
      <3>3. It(t).det \in Detectors /\ It(t).verified \in BOOLEAN
        BY <3>1, ItsDetector
      <3>4. \/ UNCHANGED twinVars
            \/ \E v \in BOOLEAN, f \in BOOLEAN : UpdateStatus(t, It(t).det, "ok", v, f)
        BY <2>4, <3>3, Zenon DEF AsBuiltCommission
      <3>5. UNCHANGED twinVars => UNCHANGED store
        BY DEF twinVars, store
      <3> QED  BY <1>1, <1>2, <2>1, <3>2, <3>3, <3>4, <3>5, ChangeKeepsChain
    <2>5. CASE \/ StartSync(t) \/ Lookup(t) \/ DesignDecide(t)
               \/ AsBuiltIsOk(t) \/ AsBuiltIsDead(t) \/ EndSync(t)
      <3>1. UNCHANGED store
        BY <2>5 DEF StartSync, Lookup, DesignDecide, AsBuiltIsOk, AsBuiltIsDead, EndSync,
                    twinVars, store
      <3> QED  BY <1>2, <3>1
    <2> QED  BY <1>3, <2>2, <2>3, <2>4, <2>5 DEF SyncStep
  <1>4. ASSUME NEW t \in Threads, ClientCall(t) PROVE ChainInv'
    BY <1>1, <1>4, CallKeepsChain
  <1>5. ASSUME NEW t \in Threads, Emit(t) PROVE ChainInv'
    BY <1>2, <1>5, EmitKeepsStore
  <1>6. CASE UNCHANGED syncVars
    <2>1. UNCHANGED store
      BY <1>6 DEF syncVars, twinVars, store
    <2> QED  BY <1>2, <2>1
  <1> QED  BY <1>3, <1>4, <1>5, <1>6 DEF SyncNext, BoundedCall

\* What a step appends to the history, if anything.
LEMMA SyncHistory ==
    ASSUME SyncInv, [SyncNext]_syncVars
    PROVE  /\ ops \in Seq(Op) /\ Len(ops) \in Nat
           /\ ops' = ops \/ \E op \in Op : ops' = Append(ops, op)
           /\ Len(ops) <= Len(ops') /\ Len(ops') \in Nat
  <1>1. ops \in Seq(Op) /\ Len(ops) \in Nat
    BY DEF SyncInv, ChainInv, TypeOK
  <1>2. ops' = ops \/ \E op \in Op : ops' = Append(ops, op)
    BY SyncStepShape DEF Quiet, Changes, Change, store
  <1> QED  BY <1>1, <1>2, HistoryGrows

LEMMA SyncKeepsJobs ==
    ASSUME SyncInv, [SyncNext]_syncVars
    PROVE  JobTypeOK'
  <1>1. /\ job \in [Syncers -> JobState] /\ Len(ops) \in Nat /\ Len(ops') \in Nat
        /\ Len(ops) <= Len(ops')
    BY SyncHistory DEF SyncInv, JobTypeOK
  <1>2. ASSUME NEW t \in Syncers, job'[t] = job[t]
        PROVE  /\ job'[t].start <= Len(ops')
               /\ job'[t].stage \in InBody => job'[t].items # <<>>
               /\ IF job'[t].stage = "none" THEN job'[t] = NoJob ELSE job'[t].kind # "none"
               /\ job'[t].stage = "remove" => job'[t].overwrite
    <2>1. job[t] \in JobState
      BY <1>1
    <2>2. job[t].start \in Nat
      BY <2>1 DEF JobState
    <2> QED  BY <1>1, <1>2, <2>2 DEF SyncInv, JobTypeOK
  <1>3. ASSUME UNCHANGED job PROVE JobTypeOK'
    BY <1>1, <1>2, <1>3 DEF JobTypeOK
  <1>4. ASSUME NEW t \in Syncers,
               Starts(t) \/ Stays(t) \/ (\E count : Passes(t, count))
        PROVE  JobTypeOK'
    <2>1. Typed(t) /\ job[t] \in JobState
      BY <1>1, <1>4 DEF Starts, Stays, Passes
    <2>2. job[t].start \in Nat /\ job[t].start <= Len(ops)
      BY <2>1 DEF SyncInv, JobTypeOK, JobState
    <2>3. /\ job'[t].start <= Len(ops')
          /\ job'[t].stage \in InBody => job'[t].items # <<>>
          /\ job'[t].stage # "none" /\ job'[t].kind # "none"
          /\ job'[t].stage = "remove" => job'[t].overwrite
      BY <1>1, <1>4, <2>2 DEF Starts, Stays, Passes, SameEntry, SyncInv, JobTypeOK, InBody
    <2> QED  BY <1>2, <2>1, <2>3 DEF JobTypeOK, Typed
  <1> QED  BY <1>3, <1>4, SyncStepShape DEF Quiet, Changes

\* The invariant the theorems about the syncs rest on.
LEMMA SyncInvariant == SyncSpec => []SyncInv
  <1>1. SyncInit => SyncInv
    <2> SUFFICES ASSUME SyncInit PROVE SyncInv
      OBVIOUS
    <2>1. ChainInv
      BY DEF SyncInit, TwinInit, ChainInv, TypeOK, MapMatchesHeap, HistoryMatchesMap,
             NoLostUpdate, NoObject
    <2>2. NoJob \in JobState
      BY DEF NoJob, JobState, NoObject
    <2>3. JobTypeOK
      BY <2>2 DEF SyncInit, TwinInit, JobTypeOK, NoJob, InBody
    <2> QED  BY <2>1, <2>3 DEF SyncInv
  <1>2. SyncInv /\ [SyncNext]_syncVars => SyncInv'
    BY SyncKeepsType, SyncKeepsChain, SyncKeepsJobs DEF SyncInv
  <1> QED  BY <1>1, <1>2, PTL DEF SyncSpec

-----------------------------------------------------------------------------
(* The SyncResult.  ResultIsTrue is inductive once the jobs are well-formed: *)
(* a thread that runs a sync changes the twin in no other way.               *)

Made(log, t, start) == {i \in start + 1 .. Len(log) : log[i].thread = t /\ log[i].kind # "removed"}

LEMMA MadeAfterAppend ==
    ASSUME ops \in Seq(Op), NEW op \in Op, ops' = Append(ops, op), NEW t \in Syncers,
           NEW start \in 0 .. Len(ops)
    PROVE  /\ Cardinality(Made(ops, t, start)) \in Nat
           /\ Cardinality(Made(ops', t, start))
                 = IF op.thread = t /\ op.kind # "removed"
                   THEN Cardinality(Made(ops, t, start)) + 1
                   ELSE Cardinality(Made(ops, t, start))
  <1>1. /\ Len(ops) \in Nat /\ Len(ops') = Len(ops) + 1
        /\ \A i \in 1 .. Len(ops) : ops'[i] = ops[i]
        /\ ops'[Len(ops) + 1] = op
    BY HistoryGrows
  <1>2. IsFiniteSet(Made(ops, t, start))
    <2>1. IsFiniteSet(1 .. Len(ops))
      BY <1>1, FS_Interval
    <2>2. Made(ops, t, start) \subseteq 1 .. Len(ops)
      BY <1>1 DEF Made
    <2> QED  BY <2>1, <2>2, FS_Subset
  <1>3. Len(ops) + 1 \notin Made(ops, t, start)
    BY <1>1 DEF Made
  <1>4. Made(ops', t, start) = IF op.thread = t /\ op.kind # "removed"
                               THEN Made(ops, t, start) \cup {Len(ops) + 1}
                               ELSE Made(ops, t, start)
    BY <1>1 DEF Made
  <1>5. Cardinality(Made(ops, t, start)) \in Nat
    BY <1>2, FS_CardinalityType
  <1>6. CASE op.thread = t /\ op.kind # "removed"
    BY <1>2, <1>3, <1>4, <1>5, <1>6, FS_AddElement
  <1>7. CASE ~(op.thread = t /\ op.kind # "removed")
    BY <1>4, <1>5, <1>7
  <1> QED  BY <1>5, <1>6, <1>7

\* What ResultIsTrue says of one sync.
Counted(t) ==
    /\ job[t].synced = Cardinality(Made(ops, t, job[t].start))
    /\ job[t].synced + job[t].skipped + job[t].errors + Len(job[t].items) = Len(job[t].input)

LEMMA MadeAtItsStart ==
    ASSUME NEW t, Len(ops) \in Nat
    PROVE  Cardinality(Made(ops, t, Len(ops))) = 0
  <1>1. Made(ops, t, Len(ops)) = {}
    BY DEF Made
  <1> QED  BY <1>1, FS_EmptySet

\* One more entry, one more outcome.
LEMMA PassCounts ==
    ASSUME SyncInv, NEW t \in Syncers, NEW count \in {"synced", "skipped", "errors"},
           Passes(t, count), Counted(t)
    PROVE  job'[t].synced + job'[t].skipped + job'[t].errors + Len(job'[t].items)
              = Len(job'[t].input)
  <1>1. job[t] \in JobState
    BY DEF SyncInv, JobTypeOK
  <1>2. /\ job[t].items \in Seq(Item) /\ job[t].synced \in Nat
        /\ job[t].skipped \in Nat /\ job[t].errors \in Nat /\ job[t].input \in Seq(Item)
    BY <1>1 DEF JobState
  <1>3. Len(job'[t].items) = Len(job[t].items) - 1 /\ Len(job[t].items) \in Nat
    BY <1>2 DEF Passes
  <1>4. Len(job[t].input) \in Nat /\ job'[t].input = job[t].input
    BY <1>2 DEF Passes
  <1>5. job'[t].synced + job'[t].skipped + job'[t].errors
           = job[t].synced + job[t].skipped + job[t].errors + 1
    <2> DEFINE sy == job[t].synced
               sk == job[t].skipped
               er == job[t].errors
    <2>1. sy \in Nat /\ sk \in Nat /\ er \in Nat
      BY <1>2
    <2>2. /\ job'[t].synced = IF count = "synced" THEN sy + 1 ELSE sy
          /\ job'[t].skipped = IF count = "skipped" THEN sk + 1 ELSE sk
          /\ job'[t].errors = IF count = "errors" THEN er + 1 ELSE er
      BY DEF Passes
    <2> HIDE DEF sy, sk, er
    <2>3. CASE count = "synced"
      <3>1. job'[t].synced = sy + 1 /\ job'[t].skipped = sk /\ job'[t].errors = er
        BY <2>2, <2>3
      <3> QED  BY <2>1, <3>1 DEF sy, sk, er
    <2>4. CASE count = "skipped"
      <3>1. job'[t].synced = sy /\ job'[t].skipped = sk + 1 /\ job'[t].errors = er
        BY <2>2, <2>4
      <3> QED  BY <2>1, <3>1 DEF sy, sk, er
    <2>5. CASE count = "errors"
      <3>1. job'[t].synced = sy /\ job'[t].skipped = sk /\ job'[t].errors = er + 1
        BY <2>2, <2>5
      <3> QED  BY <2>1, <3>1 DEF sy, sk, er
    <2> QED  BY <2>3, <2>4, <2>5 DEF sy, sk, er
  <1> DEFINE n == job[t].synced + job[t].skipped + job[t].errors
             l == Len(job[t].items)
  <1>6. n \in Nat /\ l \in Nat /\ n + l = Len(job[t].input)
    BY <1>2, <1>3 DEF Counted
  <1>7. n + 1 + (l - 1) = Len(job[t].input)
    <2> HIDE DEF n, l
    <2> QED  BY <1>6
  <1> QED  BY <1>3, <1>4, <1>5, <1>7

LEMMA SyncKeepsCount ==
    ASSUME SyncInv, [SyncNext]_syncVars, NEW u \in Syncers, Counted(u)
    PROVE  Counted(u)'
  <1>1. /\ ops \in Seq(Op) /\ Len(ops) \in Nat /\ job[u] \in JobState
        /\ job[u].start \in 0 .. Len(ops)
    <2>1. ops \in Seq(Op) /\ Len(ops) \in Nat /\ job[u] \in JobState
          /\ job[u].start <= Len(ops)
      BY SyncHistory DEF SyncInv, JobTypeOK
    <2>2. job[u].start \in Nat
      BY <2>1 DEF JobState
    <2> QED  BY <2>1, <2>2
  <1>2. ASSUME UNCHANGED ops, job'[u] = job[u] PROVE Counted(u)'
    BY <1>2 DEF Counted
  <1>3. ASSUME NEW op \in Op, ops' = Append(ops, op), op.thread # u, job'[u] = job[u]
        PROVE  Counted(u)'
    BY <1>1, <1>3, MadeAfterAppend DEF Counted
  <1>4. ASSUME NEW t \in Syncers, Quiet(t) PROVE Counted(u)'
    <2>1. UNCHANGED ops /\ Typed(t)
      BY <1>4 DEF Quiet, Starts, Stays, Passes, store
    <2>2. CASE u # t
      BY <1>2, <2>1, <2>2 DEF Typed
    <2>3. CASE u = t /\ Starts(t)
      <3>1. Counted(t)' <=> /\ 0 = Cardinality(Made(ops, t, Len(ops)))
                            /\ 0 + 0 + 0 + Len(job'[t].input) = Len(job'[t].input)
        BY <2>1, <2>3 DEF Counted, Starts
      <3>2. Len(job'[t].input) \in Nat
        BY <2>1 DEF Typed, JobState
      <3> QED  BY <1>1, <2>3, <3>1, <3>2, MadeAtItsStart
    <2>4. CASE u = t /\ Stays(t)
      BY <2>1, <2>4 DEF Counted, Stays, SameEntry
    <2>5. CASE u = t /\ (Passes(t, "skipped") \/ Passes(t, "errors"))
      <3>1. job'[t].synced = job[t].synced /\ job'[t].start = job[t].start
        BY <2>5 DEF Passes
      <3> QED  BY <2>1, <2>5, <3>1, PassCounts DEF Counted
    <2> QED  BY <1>4, <2>2, <2>3, <2>4, <2>5 DEF Quiet
  <1>5. ASSUME NEW t \in Syncers, Changes(t) PROVE Counted(u)'
    <2>1. PICK op \in Op : \E d \in Detectors :
             /\ Change(op, d) /\ op.thread = t
             /\ \/ op.kind = "removed" /\ job[t].overwrite /\ Stays(t)
                \/ op.kind # "removed" /\ Passes(t, "synced")
      BY <1>5 DEF Changes
    <2>2. ops' = Append(ops, op) /\ op.thread = t /\ Typed(t)
      BY <2>1 DEF Change, Stays, Passes
    <2>3. CASE u # t
      BY <1>3, <2>2, <2>3 DEF Typed
    <2>4. CASE u = t /\ op.kind = "removed" /\ Stays(t)
      BY <1>1, <2>2, <2>4, MadeAfterAppend DEF Counted, Stays, SameEntry
    <2>5. CASE u = t /\ op.kind # "removed" /\ Passes(t, "synced")
      <3>1. job'[t].synced = job[t].synced + 1 /\ job'[t].start = job[t].start
        BY <2>5 DEF Passes
      <3>2. Cardinality(Made(ops', t, job[t].start)) = Cardinality(Made(ops, t, job[t].start)) + 1
        BY <1>1, <2>2, <2>5, MadeAfterAppend
      <3> QED  BY <2>5, <3>1, <3>2, PassCounts DEF Counted
    <2> QED  BY <2>1, <2>3, <2>4, <2>5
  <1>6. ASSUME UNCHANGED job, NEW op \in Op, NEW d \in Detectors, Change(op, d),
               op.thread \notin Syncers
        PROVE  Counted(u)'
    BY <1>3, <1>6 DEF Change
  <1>7. CASE UNCHANGED job /\ UNCHANGED store
    BY <1>2, <1>7 DEF store
  <1> QED  BY <1>4, <1>5, <1>6, <1>7, SyncStepShape

\* The SyncResult of every sync counts each entry of its list once, and as synced
\* exactly the registrations and status changes it made, whatever other syncs and
\* clients did to the same detectors between its calls.
THEOREM SyncResultIsTrue == SyncSpec => []ResultIsTrue
  <1> DEFINE AllCounted == \A t \in Syncers : Counted(t)
  <1>1. SyncInit => AllCounted
    <2> SUFFICES ASSUME SyncInit, NEW t \in Syncers PROVE Counted(t)
      OBVIOUS
    <2>1. job[t] = NoJob /\ ops = <<>>
      BY DEF SyncInit, TwinInit
    <2>2. Made(ops, t, 0) = {}
      BY <2>1 DEF Made
    <2>3. Cardinality(Made(ops, t, 0)) = 0
      BY <2>2, FS_EmptySet
    <2>4. /\ job[t].synced = 0 /\ job[t].skipped = 0 /\ job[t].errors = 0
          /\ job[t].start = 0 /\ job[t].items = <<>> /\ job[t].input = <<>>
      BY <2>1 DEF NoJob
    <2> QED  BY <2>3, <2>4 DEF Counted
  <1>2. SyncInv /\ AllCounted /\ [SyncNext]_syncVars => AllCounted'
    BY SyncKeepsCount
  <1>3. AllCounted => ResultIsTrue
    BY DEF Counted, Made, ResultIsTrue
  <1> HIDE DEF AllCounted
  <1> QED  BY <1>1, <1>2, <1>3, SyncInvariant, PTL DEF SyncSpec

-----------------------------------------------------------------------------
(* A commissioning survives the other sync.                                *)

\* What CommissionSurvives says of one op.
Survives(i) ==
    (ops[i].thread \in Syncers /\ ops[i].new = "ok" /\ ops[i].kind # "removed") =>
        LET d == heap[ops[i].obj].det IN
        \/ Current(d) = "ok"
        \/ \E j \in OpsOf(d) : j > i /\ ops[j].thread \notin Syncers \ Overwriting

\* A sync that overwrites was told so at its start and stays told.
LEMMA OverwritingGrows ==
    ASSUME SyncInv, NEW t \in Syncers, Starts(t) \/ Stays(t) \/ \E count : Passes(t, count)
    PROVE  Overwriting \subseteq Overwriting'
  <1>1. ASSUME NEW u \in Syncers, job[u].overwrite PROVE job'[u].overwrite
    <2>1. Typed(t)
      BY DEF Starts, Stays, Passes
    <2>2. CASE u # t
      BY <1>1, <2>1, <2>2 DEF Typed
    <2>3. CASE u = t
      <3>1. job[t].stage # "none"
        BY <1>1, <2>3 DEF SyncInv, JobTypeOK, NoJob
      <3> QED  BY <1>1, <2>3, <3>1 DEF Starts, Stays, SameEntry, Passes
    <2> QED  BY <2>2, <2>3
  <1> QED  BY <1>1 DEF Overwriting

LEMMA QuietSurvives ==
    ASSUME SyncInv, UNCHANGED store, Overwriting \subseteq Overwriting',
           NEW i \in 1 .. Len(ops), Survives(i)
    PROVE  Survives(i)'
  <1>1. heap' = heap /\ detectors' = detectors /\ ops' = ops
    BY DEF store
  <1>2. \A d : Current(d)' = Current(d) /\ OpsOf(d)' = OpsOf(d)
    BY <1>1 DEF Current, OpsOf
  <1> QED  BY <1>1, <1>2 DEF Survives

\* After a change the op it appends survives, and the others do unless the change
\* takes the detector away from OK; then the op is the later one they ask for.
LEMMA ChangeSurvives ==
    ASSUME SyncInv, Overwriting \subseteq Overwriting', NEW op \in Op, NEW d \in Detectors,
           Change(op, d),
           \/ op.thread \notin Syncers \ Overwriting'
           \/ op.kind # "removed" /\ op.new = "ok"
           \/ op.kind = "registered",
           NEW i \in 1 .. Len(ops'), i \in 1 .. Len(ops) => Survives(i)
    PROVE  Survives(i)'
  <1>1. /\ Len(ops) \in Nat /\ Len(ops') = Len(ops) + 1
        /\ \A j \in 1 .. Len(ops) : ops'[j] = ops[j]
        /\ ops'[Len(ops) + 1] = op
        /\ \A j \in 1 .. Len(ops) : ops[j].obj \in 1 .. Len(heap)
    BY HistoryGrows DEF Change, SyncInv, ChainInv, TypeOK, HistoryMatchesMap
  <1>2. /\ \A p \in 1 .. Len(heap) : heap'[p].det = heap[p].det
        /\ heap'[op.obj].det = d
        /\ Current(d)' = IF op.kind = "removed" THEN "absent" ELSE op.new
        /\ \A e \in Detectors : e # d => Current(e)' = Current(e)
        /\ op.kind = "registered" => Current(d) = "absent"
    BY DEF Change, Current
  <1>3. CASE i = Len(ops) + 1
    BY <1>1, <1>2, <1>3 DEF Survives
  <1>4. CASE i \in 1 .. Len(ops)
    <2>1. PICK e \in Detectors : e = heap[ops[i].obj].det
      <3>1. heap[ops[i].obj] \in Object
        BY <1>1, <1>4 DEF SyncInv, ChainInv, TypeOK
      <3> QED  BY <3>1 DEF Object
    <2> SUFFICES ASSUME ops[i].thread \in Syncers, ops[i].new = "ok", ops[i].kind # "removed",
                        Current(e)' # "ok"
                 PROVE  \E j \in OpsOf(e)' : j > i /\ ops'[j].thread \notin Syncers \ Overwriting'
      BY <1>1, <1>2, <1>4, <2>1 DEF Survives
    <2>2. CASE Current(e) = "ok"
      <3>1. e = d /\ op.kind # "registered"
        BY <1>2, <2>1, <2>2
      <3>2. op.thread \notin Syncers \ Overwriting'
        BY <1>2, <3>1
      <3>3. Len(ops) + 1 \in OpsOf(e)'
        BY <1>1, <1>2, <3>1 DEF OpsOf
      <3> QED  BY <1>1, <1>4, <3>2, <3>3
    <2>3. CASE Current(e) # "ok"
      <3>1. PICK j \in OpsOf(e) : j > i /\ ops[j].thread \notin Syncers \ Overwriting
        BY <1>4, <2>1, <2>3 DEF Survives
      <3>2. j \in 1 .. Len(ops) /\ heap[ops[j].obj].det = e
        BY <3>1 DEF OpsOf
      <3>3. j \in OpsOf(e)' /\ ops'[j].thread \notin Syncers \ Overwriting'
        BY <1>1, <1>2, <3>1, <3>2 DEF OpsOf
      <3> QED  BY <3>1, <3>3
    <2> QED  BY <2>2, <2>3
  <1> QED  BY <1>1, <1>3, <1>4

\* A detector that an as-built sync commissioned is still OK, unless a client or
\* a sync that overwrites changed it since: the decision each sync made on a
\* look-up that the other has overtaken never undoes it.
THEOREM CommissioningSurvives == SyncSpec => []CommissionSurvives
  <1> DEFINE AllSurvive == \A i \in 1 .. Len(ops) : Survives(i)
  <1>1. SyncInit => AllSurvive
    BY DEF SyncInit, TwinInit
  <1>2. SyncInv /\ AllSurvive /\ [SyncNext]_syncVars => AllSurvive'
    <2> SUFFICES ASSUME SyncInv, AllSurvive, [SyncNext]_syncVars,
                        NEW i \in 1 .. Len(ops')
                 PROVE  Survives(i)'
      OBVIOUS
    <2>1. ASSUME UNCHANGED store, Overwriting \subseteq Overwriting' PROVE Survives(i)'
      BY <2>1, QuietSurvives DEF store
    <2>2. ASSUME NEW t \in Syncers, Quiet(t) PROVE Survives(i)'
      BY <2>1, <2>2, OverwritingGrows DEF Quiet
    <2>3. ASSUME NEW t \in Syncers, Changes(t) PROVE Survives(i)'
      <3>1. PICK op \in Op, d \in Detectors :
               /\ Change(op, d) /\ op.thread = t
               /\ \/ op.kind = "removed" /\ job[t].overwrite /\ Stays(t)
                  \/ /\ op.kind # "removed"
                     /\ op.kind = "registered" \/ op.new = "ok"
                     /\ Passes(t, "synced")
        BY <2>3 DEF Changes
      <3>2. Overwriting \subseteq Overwriting'
        BY <3>1, OverwritingGrows
      <3>3. \/ op.thread \notin Syncers \ Overwriting'
            \/ op.kind # "removed" /\ op.new = "ok"
            \/ op.kind = "registered"
        BY <3>1, <3>2 DEF Overwriting
      <3> QED  BY <3>1, <3>2, <3>3, ChangeSurvives
    <2>4. ASSUME UNCHANGED job PROVE Overwriting \subseteq Overwriting'
      BY <2>4 DEF Overwriting
    <2>5. ASSUME UNCHANGED job, NEW op \in Op, NEW d \in Detectors, Change(op, d),
                 op.thread \notin Syncers
          PROVE  Survives(i)'
      BY <2>4, <2>5, ChangeSurvives
    <2> QED  BY <2>1, <2>2, <2>3, <2>4, <2>5, SyncStepShape
  <1>3. AllSurvive => CommissionSurvives
    BY DEF Survives, CommissionSurvives
  <1> HIDE DEF AllSurvive
  <1> QED  BY <1>1, <1>2, <1>3, SyncInvariant, PTL DEF SyncSpec

-----------------------------------------------------------------------------
(* What a sync that nobody disturbs leaves behind.                         *)

Passed(t) == Len(job[t].input) - Len(job[t].items)

\* The entries still to come are the end of the list.
WalksInput(t) ==
    /\ Len(job[t].items) <= Len(job[t].input)
    /\ \A k \in 1 .. Len(job[t].items) : job[t].items[k] = job[t].input[Passed(t) + k]

\* Between the removal and the registration of an overwritten detector the
\* entries that name it are unserved.
Pending(t, k) ==
    /\ job[t].kind = "design" /\ job[t].stage = "register" /\ job[t].overwrite
    /\ job[t].input[k].det = It(t).det

\* What the sync knows of the entry it is at.
Knows(t) ==
    LET d == It(t).det
        stage == job[t].stage IN
    /\ stage \in {"design", "remove"} => job[t].kind = "design"
    /\ stage \in {"asbuilt", "isdead", "commission"} => job[t].kind = "asbuilt"
    /\ stage \in {"design", "asbuilt", "isdead"} => job[t].seen = detectors[d]
    /\ stage = "register" => detectors[d] = NoObject
    /\ stage \in {"remove", "isdead", "commission"} => detectors[d] # NoObject
    /\ stage = "isdead" => Current(d) # "ok"
    /\ stage = "commission" => Current(d) \notin {"ok", "decommissioned"}

Progress(t) ==
    (job[t].stage \notin {"none", "aborted"} /\ Undisturbed(t)) =>
        Knows(t) /\ \A k \in 1 .. Passed(t) : Served(t, k) \/ Pending(t, k)

LEMMA WalkSteps ==
    ASSUME SyncInv, NEW t \in Syncers, WalksInput(t),
           Starts(t) \/ Stays(t) \/ \E count : Passes(t, count)
    PROVE  WalksInput(t)'
  <1>1. Typed(t) /\ job[t] \in JobState /\ job'[t] \in JobState
    BY DEF SyncInv, JobTypeOK, Starts, Stays, Passes, Typed
  <1>2. /\ job[t].items \in Seq(Item) /\ job[t].input \in Seq(Item)
        /\ job'[t].input \in Seq(Item)
    BY <1>1 DEF JobState
  <1>3. CASE Starts(t)
    <2>1. job'[t].items = job'[t].input /\ Len(job'[t].input) \in Nat
      BY <1>2, <1>3 DEF Starts
    <2> QED  BY <2>1 DEF WalksInput, Passed
  <1>4. CASE Stays(t)
    BY <1>4 DEF WalksInput, Passed, Stays, SameEntry
  <1>5. CASE \E count : Passes(t, count)
    <2>1. /\ job'[t].items = Tail(job[t].items) /\ job[t].items # <<>>
          /\ job'[t].input = job[t].input
      BY <1>5 DEF Passes
    <2>2. /\ Len(job'[t].items) = Len(job[t].items) - 1 /\ Len(job[t].items) \in Nat
          /\ \A k \in 1 .. Len(job[t].items) - 1 : job'[t].items[k] = job[t].items[k + 1]
          /\ Len(job[t].input) \in Nat
      BY <1>2, <2>1
    <2> DEFINE l == Len(job[t].items)
               n == Len(job[t].input)
    <2>3. /\ l \in Nat /\ n \in Nat /\ l <= n
          /\ Passed(t) = n - l /\ Passed(t)' = n - (l - 1)
          /\ \A k \in 1 .. l : job[t].items[k] = job[t].input[Passed(t) + k]
          /\ \A k \in 1 .. l - 1 : job'[t].items[k] = job[t].items[k + 1]
      BY <2>1, <2>2 DEF WalksInput, Passed
    <2>4. Len(job'[t].items) = l - 1 /\ Len(job'[t].input) = n
      BY <2>1, <2>2
    <2> HIDE DEF l, n
    <2>5. /\ l - 1 <= n /\ Passed(t) \in Nat /\ Passed(t)' = Passed(t) + 1
          /\ \A k \in 1 .. l - 1 : k + 1 \in 1 .. l /\ Passed(t) + (k + 1) = Passed(t) + 1 + k
      BY <2>3
    <2>6. \A k \in 1 .. l - 1 : job'[t].items[k] = job[t].input[Passed(t) + 1 + k]
      BY <2>3, <2>5
    <2> QED  BY <2>1, <2>4, <2>5, <2>6 DEF WalksInput
  <1> QED  BY <1>3, <1>4, <1>5

LEMMA SyncKeepsWalk ==
    ASSUME SyncInv, [SyncNext]_syncVars, NEW u \in Syncers, WalksInput(u)
    PROVE  WalksInput(u)'
  <1>1. ASSUME job'[u] = job[u] PROVE WalksInput(u)'
    BY <1>1 DEF WalksInput, Passed
  <1>2. ASSUME NEW t \in Syncers, Quiet(t) \/ Changes(t) PROVE WalksInput(u)'
    <2>1. Starts(t) \/ Stays(t) \/ \E count : Passes(t, count)
      BY <1>2 DEF Quiet, Changes
    <2>2. Typed(t)
      BY <2>1 DEF Starts, Stays, Passes
    <2> QED  BY <1>1, <2>1, <2>2, WalkSteps DEF Typed
  <1> QED  BY <1>1, <1>2, SyncStepShape

\* A step that is not of the sync itself tells it nothing new, or disturbs it.
LEMMA OthersKeepProgress ==
    ASSUME SyncInv, NEW u \in Syncers, job'[u] = job[u], Progress(u),
           UNCHANGED store \/ \E op \in Op : ops' = Append(ops, op) /\ op.thread # u
    PROVE  Progress(u)'
  <1>1. ops \in Seq(Op) /\ job[u].start \in 0 .. Len(ops)
    <2>1. ops \in Seq(Op) /\ job[u] \in JobState /\ job[u].start <= Len(ops)
      BY DEF SyncInv, ChainInv, TypeOK, JobTypeOK
    <2> QED  BY <2>1 DEF JobState
  <1>2. CASE UNCHANGED store
    <2>1. heap' = heap /\ detectors' = detectors /\ ops' = ops
      BY <1>2 DEF store
    <2>2. \A d : Current(d)' = Current(d)
      BY <2>1 DEF Current
    <2>3. Undisturbed(u)' <=> Undisturbed(u)
      BY <2>1 DEF Undisturbed
    <2>4. /\ Passed(u)' = Passed(u) /\ It(u)' = It(u)
          /\ \A k : Withdrawn(u, k)' <=> Withdrawn(u, k)
          /\ \A k : Pending(u, k)' <=> Pending(u, k)
      BY DEF Passed, It, Withdrawn, Pending
    <2>5. Knows(u)' <=> Knows(u)
      BY <2>1, <2>2, <2>4 DEF Knows
    <2>6. \A k : Served(u, k)' <=> Served(u, k)
      BY <2>1, <2>2, <2>4 DEF Served
    <2> QED  BY <2>3, <2>4, <2>5, <2>6 DEF Progress
  <1>3. ASSUME NEW op \in Op, ops' = Append(ops, op), op.thread # u
        PROVE  Progress(u)'
    <2>1. /\ Len(ops) \in Nat /\ Len(ops') = Len(ops) + 1 /\ ops'[Len(ops) + 1] = op
      BY <1>1, <1>3, HistoryGrows
    <2>2. ~Undisturbed(u)'
      BY <1>1, <1>3, <2>1 DEF Undisturbed
    <2> QED  BY <2>2 DEF Progress
  <1> QED  BY <1>2, <1>3

\* A sync that is undisturbed after its own step was so before it.
LEMMA StillUndisturbed ==
    ASSUME SyncInv, NEW t \in Syncers, Quiet(t) \/ Changes(t), Undisturbed(t)',
           job[t].stage # "none"
    PROVE  Undisturbed(t)
  <1>1. ops \in Seq(Op) /\ Len(ops) \in Nat /\ job[t].start \in Nat /\ job'[t].start = job[t].start
    <2>1. ops \in Seq(Op) /\ Len(ops) \in Nat /\ job[t] \in JobState
      BY DEF SyncInv, ChainInv, TypeOK, JobTypeOK
    <2>2. job'[t].start = job[t].start
      BY DEF Quiet, Changes, Starts, Stays, SameEntry, Passes
    <2> QED  BY <2>1, <2>2 DEF JobState
  <1>2. ops' = ops \/ \E op \in Op : ops' = Append(ops, op)
    BY DEF Quiet, Changes, Change, store
  <1>3. /\ Len(ops) <= Len(ops') /\ Len(ops') \in Nat
        /\ \A i \in 1 .. Len(ops) : ops'[i] = ops[i]
    BY <1>1, <1>2, HistoryGrows
  <1> QED  BY <1>1, <1>3 DEF Undisturbed

\* The list of t, and what an entry of it asks for, do not change with a step.
LEMMA SameInput ==
    ASSUME NEW t, job'[t].kind = job[t].kind, job'[t].overwrite = job[t].overwrite,
           job'[t].input = job[t].input
    PROVE  \A k : Withdrawn(t, k)' <=> Withdrawn(t, k)
  BY DEF Withdrawn

\* The entry t is at, as an entry of its list.
LEMMA CurrentEntry ==
    ASSUME SyncInv, NEW t \in Syncers, WalksInput(t), job[t].items # <<>>
    PROVE  /\ Passed(t) \in Nat /\ Passed(t) + 1 \in 1 .. Len(job[t].input)
           /\ job[t].input[Passed(t) + 1] = It(t)
           /\ \A k \in 1 .. Passed(t) : job[t].input[k] \in Item
  <1>1. job[t].items \in Seq(Item) /\ job[t].input \in Seq(Item)
    BY DEF SyncInv, JobTypeOK, JobState
  <1>2. Len(job[t].items) \in Nat /\ Len(job[t].items) >= 1 /\ Len(job[t].input) \in Nat
    BY <1>1
  <1>3. job[t].items[1] = It(t)
    BY <1>1, <1>2 DEF It
  <1>4. Passed(t) \in Nat /\ Passed(t) + 1 \in 1 .. Len(job[t].input)
    <2> DEFINE l == Len(job[t].items)
               n == Len(job[t].input)
    <2>1. l \in Nat /\ l >= 1 /\ n \in Nat /\ l <= n /\ Passed(t) = n - l
      BY <1>2 DEF WalksInput, Passed
    <2> HIDE DEF l, n
    <2>2. Passed(t) \in Nat /\ Passed(t) + 1 \in 1 .. n
      BY <2>1
    <2> QED  BY <2>2 DEF n
  <1>5. job[t].input[Passed(t) + 1] = It(t)
    BY <1>2, <1>3 DEF WalksInput
  <1>6. \A k \in 1 .. Passed(t) : k \in 1 .. Len(job[t].input)
    BY <1>2, <1>4
  <1> QED  BY <1>1, <1>4, <1>5, <1>6

\* A pass serves the list so far if it serves the entry it was at, and every
\* earlier one stays or becomes served.
LEMMA PassKeepsProgress ==
    ASSUME SyncInv, NEW t \in Syncers, WalksInput(t), NEW count, Passes(t, count),
           \A k \in 1 .. Passed(t) : Served(t, k)',
           NEW at, at = Passed(t) + 1, Served(t, at)'
    PROVE  Progress(t)'
  <1>1. job[t].items \in Seq(Item) /\ job[t].items # <<>> /\ Passed(t) \in Nat
    BY CurrentEntry DEF SyncInv, JobTypeOK, JobState, Passes
  <1>2. Len(job'[t].items) = Len(job[t].items) - 1 /\ Len(job[t].items) \in Nat
        /\ job'[t].input = job[t].input /\ Len(job[t].input) \in Nat
    BY <1>1 DEF Passes, SyncInv, JobTypeOK, JobState
  <1>3. Passed(t)' = Passed(t) + 1
    <2> DEFINE l == Len(job[t].items)
               n == Len(job[t].input)
    <2>1. l \in Nat /\ n \in Nat /\ Passed(t) = n - l /\ Passed(t)' = n - (l - 1)
      BY <1>2 DEF Passed
    <2> HIDE DEF l, n
    <2> QED  BY <2>1
  <1>4. \A k \in 1 .. Passed(t) + 1 : Served(t, k)'
    <2>1. \A k \in 1 .. Passed(t) + 1 : k \in 1 .. Passed(t) \/ k = at
      BY <1>1
    <2> QED  BY <2>1
  <1>5. Knows(t)'
    BY DEF Knows, Passes
  <1> QED  BY <1>3, <1>4, <1>5 DEF Progress

\* What a change of the detector that t is at does to the entries of its list:
\* those that name another detector see nothing of it.
LEMMA ServedAfterChange ==
    ASSUME SyncInv, NEW t \in Syncers, NEW d \in Detectors, NEW op \in Op, Change(op, d),
           job'[t].kind = job[t].kind, job'[t].overwrite = job[t].overwrite,
           job'[t].input = job[t].input,
           NEW k, job[t].input[k].det \in Detectors,
           \/ Served(t, k) /\ job[t].input[k].det # d
           \/ /\ job[t].input[k].det = d /\ op.kind # "removed"
              /\ job[t].kind = "design" \/ op.new = "ok"
    PROVE  Served(t, k)'
  <1>1. detectors \in [Detectors -> 0 .. Len(heap)] /\ op.obj # NoObject
    BY DEF SyncInv, ChainInv, TypeOK, Op, NoObject
  <1>2. \A e \in Detectors : e # d => detectors'[e] = detectors[e] /\ Current(e)' = Current(e)
    BY <1>1 DEF Change
  <1>3. op.kind # "removed" => detectors'[d] # NoObject /\ Current(d)' = op.new
    BY <1>1 DEF Change
  <1>4. Withdrawn(t, k)' <=> Withdrawn(t, k)
    BY SameInput
  <1>5. PICK e \in Detectors : e = job[t].input[k].det
    OBVIOUS
  <1>6. Served(t, k)' <=>
          (job[t].input[k].flaw = "none" =>
              IF job[t].kind = "design" THEN detectors'[e] # NoObject \/ Withdrawn(t, k)
                                        ELSE Current(e)' \in {"ok", "decommissioned"})
    BY <1>4, <1>5 DEF Served
  <1>7. CASE e # d
    BY <1>2, <1>5, <1>6, <1>7 DEF Served
  <1>8. CASE e = d
    BY <1>3, <1>5, <1>6, <1>8
  <1> QED  BY <1>7, <1>8

\* A step that leaves the map alone leaves every entry as it is.
LEMMA ServedAfterQuiet ==
    ASSUME NEW t \in Syncers, UNCHANGED store,
           job'[t].kind = job[t].kind, job'[t].overwrite = job[t].overwrite,
           job'[t].input = job[t].input
    PROVE  \A k : Served(t, k)' <=> Served(t, k)
  <1>1. heap' = heap /\ detectors' = detectors
    BY DEF store
  <1>2. \A e : Current(e)' = Current(e)
    BY <1>1 DEF Current
  <1>3. \A k : Withdrawn(t, k)' <=> Withdrawn(t, k)
    BY SameInput
  <1> QED  BY <1>1, <1>2, <1>3 DEF Served

\* The entry that t is at is served once its detector is there as asked, or if
\* there was something wrong with it.
LEMMA EntryServed ==
    ASSUME SyncInv, NEW t \in Syncers, WalksInput(t), job[t].items # <<>>,
           \/ It(t).flaw # "none"
           \/ job[t].kind = "design" /\ detectors[It(t).det] # NoObject
           \/ job[t].kind # "design" /\ Current(It(t).det) \in {"ok", "decommissioned"}
    PROVE  Served(t, Passed(t) + 1)
  <1>1. job[t].input[Passed(t) + 1] = It(t)
    BY CurrentEntry
  <1> QED  BY <1>1 DEF Served

\* A pass with nothing changed, in a state where every earlier entry is served.
LEMMA QuietPass ==
    ASSUME SyncInv, NEW t \in Syncers, WalksInput(t), NEW count, Outcome(t, count),
           job[t].stage # "none", job[t].items # <<>>, UNCHANGED store,
           \A k \in 1 .. Passed(t) : Served(t, k),
           \/ It(t).flaw # "none"
           \/ job[t].kind = "design" /\ detectors[It(t).det] # NoObject
           \/ job[t].kind # "design" /\ Current(It(t).det) \in {"ok", "decommissioned"}
    PROVE  Progress(t)'
  <1>1. Passes(t, count)
    BY Counts
  <1>2. \A k : Served(t, k)' <=> Served(t, k)
    BY <1>1, ServedAfterQuiet DEF Passes
  <1>3. PICK at : at = Passed(t) + 1
    OBVIOUS
  <1>4. Served(t, at)
    BY <1>3, EntryServed
  <1> QED  BY <1>1, <1>2, <1>3, <1>4, PassKeepsProgress

\* A step to another stage with nothing changed: what it then knows is to be shown.
LEMMA QuietGoto ==
    ASSUME SyncInv, NEW t \in Syncers, Stays(t), UNCHANGED store,
           \A k \in 1 .. Passed(t) : Served(t, k), Knows(t)'
    PROVE  Progress(t)'
  <1>1. \A k : Served(t, k)' <=> Served(t, k)
    BY ServedAfterQuiet DEF Stays, SameEntry
  <1>2. Passed(t)' = Passed(t)
    BY DEF Passed, Stays, SameEntry
  <1> QED  BY <1>1, <1>2 DEF Progress

\* What an undisturbed sync may rely on when it takes its next step.
LEMMA KnownSoFar ==
    ASSUME SyncInv, NEW t \in Syncers, Progress(t), Quiet(t) \/ Changes(t), Undisturbed(t)',
           job[t].stage \notin {"none", "aborted"}
    PROVE  /\ Knows(t)
           /\ \A k \in 1 .. Passed(t) : Served(t, k) \/ Pending(t, k)
           /\ job[t].stage # "register" => \A k \in 1 .. Passed(t) : Served(t, k)
  <1>1. Undisturbed(t)
    BY StillUndisturbed
  <1>2. Knows(t) /\ \A k \in 1 .. Passed(t) : Served(t, k) \/ Pending(t, k)
    BY <1>1 DEF Progress
  <1> QED  BY <1>2 DEF Pending

LEMMA StartProgress ==
    ASSUME SyncInv, NEW t \in Syncers, StartSync(t)
    PROVE  Progress(t)'
  <1>1. Starts(t)
    BY StartEffect, StartIsQuiet DEF Quiet, Stays, Passes, SyncInv, JobTypeOK, ChainInv, StartSync
  <1>2. job'[t] \in JobState
    BY <1>1 DEF Starts, Typed
  <1>3. Len(job'[t].input) \in Nat /\ Passed(t)' = Len(job'[t].input) - Len(job'[t].input)
    BY <1>1, <1>2 DEF JobState, Starts, Passed
  <1>4. Passed(t)' = 0
    BY <1>3
  <1>5. Knows(t)'
    BY <1>1 DEF Knows, Starts
  <1> QED  BY <1>4, <1>5 DEF Progress

LEMMA LookupProgress ==
    ASSUME SyncInv, NEW t \in Syncers, WalksInput(t), Progress(t), Lookup(t)
    PROVE  Progress(t)'
  <1> SUFFICES ASSUME Undisturbed(t)' PROVE Progress(t)'
    BY DEF Progress
  <1>1. /\ job[t].stage = "next" /\ job[t].items # <<>> /\ UNCHANGED store /\ Quiet(t)
        /\ job \in [Syncers -> JobState] /\ TypeOK /\ job[t].kind # "none"
    BY LookupIsQuiet DEF Lookup, At, twinVars, store, SyncInv, JobTypeOK, ChainInv
  <1>2. \A k \in 1 .. Passed(t) : Served(t, k)
    BY <1>1, KnownSoFar
  <1>3. CASE It(t).flaw = "fields" /\ Outcome(t, "errors")
    BY <1>1, <1>2, <1>3, QuietPass
  <1>4. CASE Goto(t, "aborted")
    <2>1. job'[t].stage = "aborted"
      BY <1>1, <1>4, GotoEffect
    <2> QED  BY <2>1 DEF Progress
  <1>5. CASE job' = [job EXCEPT ![t] = [@ EXCEPT !.seen = detectors[It(t).det],
                                                 !.stage = job[t].kind]]
    <2>1. /\ job'[t].stage = job[t].kind /\ job'[t].seen = detectors[It(t).det]
          /\ job'[t].items = job[t].items /\ job'[t].kind = job[t].kind
          /\ Typed(t) /\ SameEntry(t)
      BY <1>1, <1>5, LookupEffect DEF Typed, SameEntry
    <2>2. job[t].kind \in {"design", "asbuilt"}
      BY <1>1 DEF JobState
    <2>3. Stays(t)
      BY <1>1, <2>1, <2>2 DEF Stays
    <2>4. It(t)' = It(t) /\ detectors' = detectors
      BY <1>1, <2>1 DEF It, store
    <2>5. Knows(t)'
      BY <2>1, <2>2, <2>4 DEF Knows
    <2> QED  BY <1>1, <1>2, <2>3, <2>5, QuietGoto
  <1> QED  BY <1>1, <1>3, <1>4, <1>5 DEF Lookup, Abort

\* Goto as a step that stays at the entry.
LEMMA GotoStays ==
    ASSUME SyncInv, NEW t \in Syncers, job[t].stage # "none", job[t].items # <<>>,
           NEW stage \in InBody \cup {"next", "done"}, Goto(t, stage),
           stage = "remove" => job[t].overwrite
    PROVE  /\ Stays(t) /\ job'[t].stage = stage /\ job'[t].seen = job[t].seen
           /\ job'[t].kind = job[t].kind /\ job'[t].overwrite = job[t].overwrite
           /\ job'[t].input = job[t].input /\ job'[t].items = job[t].items
           /\ Passed(t)' = Passed(t) /\ It(t)' = It(t)
  <1>1. stage \in InBody \cup {"none", "next", "done", "aborted"}
        /\ stage \in InBody \cup {"next", "done", "aborted"}
        /\ job \in [Syncers -> JobState]
    BY DEF SyncInv, JobTypeOK
  <1>2. Stays(t)
    BY <1>1, GoesTo
  <1> QED  BY <1>1, <1>2, GotoEffect DEF Passed, It

LEMMA DesignDecideProgress ==
    ASSUME SyncInv, NEW t \in Syncers, WalksInput(t), Progress(t), DesignDecide(t)
    PROVE  Progress(t)'
  <1> SUFFICES ASSUME Undisturbed(t)' PROVE Progress(t)'
    BY DEF Progress
  <1>1. /\ job[t].stage = "design" /\ job[t].items # <<>> /\ UNCHANGED store /\ Quiet(t)
    BY DecisionIsQuiet DEF DesignDecide, At, twinVars, store, SyncInv, JobTypeOK, InBody
  <1>2. detectors' = detectors /\ heap' = heap
    BY <1>1 DEF store
  <1>3. /\ \A k \in 1 .. Passed(t) : Served(t, k)
        /\ job[t].kind = "design" /\ job[t].seen = detectors[It(t).det]
    BY <1>1, KnownSoFar DEF Knows
  <1>4. CASE job[t].seen = NoObject /\ Goto(t, "register")
    <2>1. Stays(t) /\ job'[t].stage = "register" /\ It(t)' = It(t)
      BY <1>1, <1>4, GotoStays DEF InBody
    <2>2. Knows(t)'
      BY <1>2, <1>3, <1>4, <2>1 DEF Knows
    <2> QED  BY <1>1, <1>3, <2>1, <2>2, QuietGoto
  <1>5. CASE job[t].seen # NoObject /\ job[t].overwrite /\ Goto(t, "remove")
    <2>1. /\ Stays(t) /\ job'[t].stage = "remove" /\ It(t)' = It(t)
          /\ job'[t].kind = job[t].kind
      BY <1>1, <1>5, GotoStays DEF InBody
    <2>2. Knows(t)'
      BY <1>2, <1>3, <1>5, <2>1 DEF Knows
    <2> QED  BY <1>1, <1>3, <2>1, <2>2, QuietGoto
  <1>6. CASE job[t].seen # NoObject /\ Outcome(t, "skipped")
    BY <1>1, <1>3, <1>6, QuietPass
  <1> QED  BY <1>4, <1>5, <1>6 DEF DesignDecide

LEMMA AsBuiltIsOkProgress ==
    ASSUME SyncInv, NEW t \in Syncers, WalksInput(t), Progress(t), AsBuiltIsOk(t)
    PROVE  Progress(t)'
  <1> SUFFICES ASSUME Undisturbed(t)' PROVE Progress(t)'
    BY DEF Progress
  <1>1. /\ job[t].stage = "asbuilt" /\ job[t].items # <<>> /\ UNCHANGED store /\ Quiet(t)
        /\ job \in [Syncers -> JobState]
    BY DecisionIsQuiet DEF AsBuiltIsOk, At, twinVars, store, SyncInv, JobTypeOK, InBody
  <1>2. detectors' = detectors /\ heap' = heap
    BY <1>1 DEF store
  <1>3. /\ \A k \in 1 .. Passed(t) : Served(t, k)
        /\ job[t].kind = "asbuilt" /\ job[t].seen = detectors[It(t).det]
    BY <1>1, KnownSoFar DEF Knows
  <1>4. CASE Goto(t, "aborted")
    <2>1. job'[t].stage = "aborted"
      BY <1>1, <1>4, GotoEffect
    <2> QED  BY <2>1 DEF Progress
  <1>5. CASE job[t].seen = NoObject /\ Goto(t, "register")
    <2>1. Stays(t) /\ job'[t].stage = "register" /\ It(t)' = It(t)
      BY <1>1, <1>5, GotoStays DEF InBody
    <2>2. Knows(t)'
      BY <1>2, <1>3, <1>5, <2>1 DEF Knows
    <2> QED  BY <1>1, <1>3, <2>1, <2>2, QuietGoto
  <1>6. CASE job[t].seen # NoObject /\ heap[job[t].seen].status = "ok" /\ Outcome(t, "skipped")
    <2>1. Current(It(t).det) = "ok"
      BY <1>3, <1>6 DEF Current
    <2> QED  BY <1>1, <1>3, <1>6, <2>1, QuietPass
  <1>7. CASE job[t].seen # NoObject /\ heap[job[t].seen].status # "ok" /\ Goto(t, "isdead")
    <2>1. /\ Stays(t) /\ job'[t].stage = "isdead" /\ It(t)' = It(t)
          /\ job'[t].kind = job[t].kind /\ job'[t].seen = job[t].seen
      BY <1>1, <1>7, GotoStays DEF InBody
    <2>2. Current(It(t).det)' # "ok"
      BY <1>2, <1>3, <1>7, <2>1 DEF Current
    <2>3. Knows(t)'
      BY <1>2, <1>3, <1>7, <2>1, <2>2 DEF Knows
    <2> QED  BY <1>1, <1>3, <2>1, <2>3, QuietGoto
  <1> QED  BY <1>4, <1>5, <1>6, <1>7 DEF AsBuiltIsOk, Abort

LEMMA AsBuiltIsDeadProgress ==
    ASSUME SyncInv, NEW t \in Syncers, WalksInput(t), Progress(t), AsBuiltIsDead(t)
    PROVE  Progress(t)'
  <1> SUFFICES ASSUME Undisturbed(t)' PROVE Progress(t)'
    BY DEF Progress
  <1>1. /\ job[t].stage = "isdead" /\ job[t].items # <<>> /\ UNCHANGED store /\ Quiet(t)
    BY DecisionIsQuiet DEF AsBuiltIsDead, At, twinVars, store, SyncInv, JobTypeOK, InBody
  <1>2. detectors' = detectors /\ heap' = heap
    BY <1>1 DEF store
  <1>3. /\ \A k \in 1 .. Passed(t) : Served(t, k)
        /\ job[t].kind = "asbuilt" /\ job[t].seen = detectors[It(t).det]
        /\ detectors[It(t).det] # NoObject /\ Current(It(t).det) # "ok"
    BY <1>1, KnownSoFar DEF Knows
  <1>4. CASE heap[job[t].seen].status = "decommissioned" /\ Outcome(t, "errors")
    <2>1. Current(It(t).det) = "decommissioned"
      BY <1>3, <1>4 DEF Current
    <2> QED  BY <1>1, <1>3, <1>4, <2>1, QuietPass
  <1>5. CASE heap[job[t].seen].status # "decommissioned" /\ Goto(t, "commission")
    <2>1. /\ Stays(t) /\ job'[t].stage = "commission" /\ It(t)' = It(t)
          /\ job'[t].kind = job[t].kind
      BY <1>1, <1>5, GotoStays DEF InBody
    <2>2. Current(It(t).det)' \notin {"ok", "decommissioned"}
      BY <1>2, <1>3, <1>5, <2>1 DEF Current
    <2>3. Knows(t)'
      BY <1>2, <1>3, <2>1, <2>2 DEF Knows
    <2> QED  BY <1>1, <1>3, <2>1, <2>3, QuietGoto
  <1> QED  BY <1>4, <1>5 DEF AsBuiltIsDead

LEMMA DesignRemoveProgress ==
    ASSUME SyncInv, NEW t \in Syncers, WalksInput(t), Progress(t), DesignRemove(t)
    PROVE  Progress(t)'
  <1> SUFFICES ASSUME Undisturbed(t)' PROVE Progress(t)'
    BY DEF Progress
  <1>1. /\ job[t].stage = "remove" /\ job[t].items # <<>> /\ job[t].overwrite
        /\ Quiet(t) \/ Changes(t)
    BY RemoveChangesOrNot DEF DesignRemove, At, SyncInv, JobTypeOK, InBody
  <1>2. /\ \A k \in 1 .. Passed(t) : Served(t, k)
        /\ job[t].kind = "design" /\ detectors[It(t).det] # NoObject
    BY <1>1, KnownSoFar DEF Knows
  <1>3. PICK d \in Detectors : d = It(t).det
    BY <1>1, ItsDetector
  <1>4. Remove(t, d) /\ Goto(t, "register")
    BY <1>2, <1>3 DEF DesignRemove
  <1>5. /\ Stays(t) /\ job'[t].stage = "register" /\ It(t)' = It(t) /\ Passed(t)' = Passed(t)
        /\ job'[t].kind = job[t].kind /\ job'[t].overwrite = job[t].overwrite
        /\ job'[t].input = job[t].input
    BY <1>1, <1>4, GotoStays DEF InBody
  <1>6. PICK op \in Op : Change(op, d) /\ op.kind = "removed"
    BY <1>4, RemoveChanges, SyncersAssumption DEF SyncInv
  <1>7. detectors'[d] = NoObject
    BY <1>6 DEF Change, SyncInv, ChainInv, TypeOK
  <1>8. Knows(t)'
    BY <1>2, <1>3, <1>5, <1>7 DEF Knows
  <1>9. ASSUME NEW k \in 1 .. Passed(t) PROVE Served(t, k)' \/ Pending(t, k)'
    <2>1. job[t].input[k].det \in Detectors
      BY <1>1, CurrentEntry DEF Item
    <2>2. CASE job[t].input[k].det = d
      BY <1>1, <1>2, <1>3, <1>5, <2>2 DEF Pending
    <2>3. CASE job[t].input[k].det # d
      BY <1>2, <1>5, <1>6, <2>1, <2>3, ServedAfterChange
    <2> QED  BY <2>2, <2>3
  <1> QED  BY <1>5, <1>8, <1>9 DEF Progress

\* A pass that changed the detector the entry names serves every entry that names it.
LEMMA ChangePass ==
    ASSUME SyncInv, NEW t \in Syncers, WalksInput(t), Passes(t, "synced"),
           NEW d \in Detectors, d = It(t).det, NEW op \in Op, Change(op, d),
           op.kind # "removed", job[t].kind = "design" \/ op.new = "ok",
           \A k \in 1 .. Passed(t) : Served(t, k) \/ job[t].input[k].det = d
    PROVE  Progress(t)'
  <1>1. /\ job'[t].kind = job[t].kind /\ job'[t].overwrite = job[t].overwrite
        /\ job'[t].input = job[t].input /\ job[t].items # <<>>
    BY DEF Passes
  <1>2. ASSUME NEW k \in 1 .. Passed(t) PROVE Served(t, k)'
    <2>1. job[t].input[k].det \in Detectors
      BY <1>1, CurrentEntry DEF Item
    <2> QED  BY <1>1, <2>1, ServedAfterChange
  <1>3. PICK at : at = Passed(t) + 1
    OBVIOUS
  <1>4. job[t].input[at].det = d
    BY <1>1, <1>3, CurrentEntry
  <1>5. Served(t, at)'
    BY <1>1, <1>4, ServedAfterChange
  <1> QED  BY <1>2, <1>3, <1>5, PassKeepsProgress

LEMMA SyncRegisterProgress ==
    ASSUME SyncInv, NEW t \in Syncers, WalksInput(t), Progress(t), SyncRegister(t)
    PROVE  Progress(t)'
  <1> SUFFICES ASSUME Undisturbed(t)' PROVE Progress(t)'
    BY DEF Progress
  <1>1. /\ job[t].stage = "register" /\ job[t].items # <<>>
        /\ Quiet(t) \/ Changes(t)
    BY RegisterChangesOrNot DEF SyncRegister, At, SyncInv, JobTypeOK, InBody
  <1>2. /\ \A k \in 1 .. Passed(t) : Served(t, k) \/ Pending(t, k)
        /\ detectors[It(t).det] = NoObject
    BY <1>1, KnownSoFar DEF Knows
  <1>3. PICK d \in Detectors : d = It(t).det
    BY <1>1, ItsDetector
  <1>4. CASE Register(t, d, It(t).room, EntryStatus(job[t].kind)) /\ Outcome(t, "synced")
    <2>1. Passes(t, "synced")
      BY <1>1, <1>4, Counts
    <2>2. EntryStatus(job[t].kind) \in Status /\ It(t).room \in Rooms
      BY <1>1, ItsDetector DEF EntryStatus, Status
    <2>3. PICK op \in Op : /\ Change(op, d) /\ op.kind = "registered"
                           /\ op.new = EntryStatus(job[t].kind)
      BY <1>4, <2>2, RegisterChanges, SyncersAssumption DEF SyncInv
    <2>4. job[t].kind = "design" \/ op.new = "ok"
      BY <2>3 DEF EntryStatus
    <2> QED  BY <1>2, <1>3, <2>1, <2>3, <2>4, ChangePass DEF Pending
  <1>5. CASE It(t).flaw = "radius" /\ Outcome(t, "errors") /\ UNCHANGED store
    <2>1. ASSUME NEW k \in 1 .. Passed(t), Pending(t, k) PROVE Served(t, k)
      <3>1. /\ Passed(t) \in Nat /\ Passed(t) + 1 \in 1 .. Len(job[t].input)
            /\ job[t].input[Passed(t) + 1] = It(t)
        BY <1>1, CurrentEntry
      <3>2. Passed(t) + 1 \in k + 1 .. Len(job[t].input)
        BY <3>1
      <3>3. Withdrawn(t, k)
        BY <1>5, <2>1, <3>1, <3>2 DEF Pending, Withdrawn
      <3> QED  BY <2>1, <3>3 DEF Served, Pending
    <2> QED  BY <1>1, <1>2, <1>5, <2>1, QuietPass
  <1> QED  BY <1>2, <1>3, <1>4, <1>5 DEF SyncRegister, twinVars, store

LEMMA AsBuiltCommissionProgress ==
    ASSUME SyncInv, NEW t \in Syncers, WalksInput(t), Progress(t), AsBuiltCommission(t)
    PROVE  Progress(t)'
  <1> SUFFICES ASSUME Undisturbed(t)' PROVE Progress(t)'
    BY DEF Progress
  <1>1. /\ job[t].stage = "commission" /\ job[t].items # <<>>
        /\ Quiet(t) \/ Changes(t)
    BY CommissionChangesOrNot DEF AsBuiltCommission, At, SyncInv, JobTypeOK, InBody
  <1>2. /\ \A k \in 1 .. Passed(t) : Served(t, k)
        /\ detectors[It(t).det] # NoObject
        /\ Current(It(t).det) \notin {"ok", "decommissioned"}
    BY <1>1, KnownSoFar DEF Knows
  <1>3. PICK d \in Detectors : d = It(t).det
    BY <1>1, ItsDetector
  <1>4. It(t).verified \in BOOLEAN
    BY <1>1, ItsDetector
  <1>5. heap[detectors[d]].status \in Status \ {"ok", "decommissioned"}
    <2>1. detectors[d] \in 1 .. Len(heap)
      BY <1>2, <1>3 DEF SyncInv, ChainInv, TypeOK, NoObject
    <2>2. heap[detectors[d]] \in Object
      BY <2>1 DEF SyncInv, ChainInv, TypeOK
    <2> QED  BY <1>2, <1>3, <2>2 DEF Object, Current
  <1>6. Allowed(heap[detectors[d]].status, "ok", FALSE)
    BY <1>5 DEF Allowed, Legal, Status
  <1>7. UpdateStatus(t, d, "ok", It(t).verified, FALSE) /\ Outcome(t, "synced")
    BY <1>2, <1>3, <1>6, Zenon DEF AsBuiltCommission
  <1>8. \E v \in BOOLEAN, f \in BOOLEAN : UpdateStatus(t, d, "ok", v, f)
    BY <1>4, <1>7, Zenon
  <1>9. "ok" \in Status /\ t \in Threads
    BY SyncersAssumption DEF Status
  <1>10. PICK op \in Op : Change(op, d) /\ op.kind = "status_changed" /\ op.new = "ok"
    BY <1>8, <1>9, UpdateChanges DEF SyncInv
  <1>11. Passes(t, "synced")
    BY <1>1, <1>7, Counts
  <1> QED  BY <1>2, <1>3, <1>10, <1>11, ChangePass

\* A sync ends when its list is empty.
Emptied(t) == job[t].stage = "done" => job[t].items = <<>>

LEMMA EndSyncProgress ==
    ASSUME SyncInv, NEW t \in Syncers, Progress(t), EndSync(t)
    PROVE  Progress(t)'
  <1> SUFFICES ASSUME Undisturbed(t)' PROVE Progress(t)'
    BY DEF Progress
  <1>1. job[t].stage = "next" /\ UNCHANGED store /\ Quiet(t) /\ Goto(t, "done")
    BY DecisionIsQuiet DEF EndSync, At
  <1>2. \A k \in 1 .. Passed(t) : Served(t, k)
    BY <1>1, KnownSoFar
  <1>3. Stays(t) /\ job'[t].stage = "done"
    BY <1>1, GoesTo, GotoEffect DEF InBody, SyncInv, JobTypeOK
  <1>4. Knows(t)'
    BY <1>3 DEF Knows
  <1> QED  BY <1>1, <1>2, <1>3, <1>4, QuietGoto

\* A step of a sync is progress for it, and leaves the other syncs theirs.
LEMMA SyncKeepsProgress ==
    ASSUME SyncInv, [SyncNext]_syncVars, NEW u \in Syncers, WalksInput(u), Progress(u)
    PROVE  Progress(u)'
  <1>1. CASE StartSync(u) \/ SyncStep(u)
    BY <1>1, StartProgress, LookupProgress, DesignDecideProgress, DesignRemoveProgress,
       SyncRegisterProgress, AsBuiltIsOkProgress, AsBuiltIsDeadProgress,
       AsBuiltCommissionProgress, EndSyncProgress DEF SyncStep
  <1>2. ASSUME NEW t \in Syncers, t # u, StartSync(t) \/ SyncStep(t) PROVE Progress(u)'
    <2>1. Quiet(t) \/ Changes(t)
      BY <1>2, StartIsQuiet, LookupIsQuiet, DecisionIsQuiet, RemoveChangesOrNot,
         RegisterChangesOrNot, CommissionChangesOrNot DEF SyncStep
    <2>2. job'[u] = job[u]
      BY <1>2, <2>1 DEF Quiet, Changes, Starts, Stays, Passes, Typed
    <2>3. UNCHANGED store \/ \E op \in Op : ops' = Append(ops, op) /\ op.thread # u
      BY <1>2, <2>1 DEF Quiet, Changes, Change
    <2> QED  BY <2>2, <2>3, OthersKeepProgress
  <1>3. ASSUME NEW t \in Threads \ Syncers, BoundedCall(t), UNCHANGED job PROVE Progress(u)'
    <2>1. \E op \in Op : ops' = Append(ops, op) /\ op.thread # u
      BY <1>3, CallChanges DEF BoundedCall, SyncInv, Change
    <2> QED  BY <1>3, <2>1, OthersKeepProgress
  <1>4. ASSUME UNCHANGED job, UNCHANGED store PROVE Progress(u)'
    BY <1>4, OthersKeepProgress
  <1>5. CASE UNCHANGED syncVars
    BY <1>4, <1>5 DEF syncVars, twinVars, store
  <1> QED  BY <1>1, <1>2, <1>3, <1>4, <1>5, EmitKeepsStore DEF SyncNext

LEMMA SyncKeepsEmptied ==
    ASSUME SyncInv, [SyncNext]_syncVars, NEW u \in Syncers, Emptied(u)
    PROVE  Emptied(u)'
  <1>1. ASSUME job'[u] = job[u] PROVE Emptied(u)'
    BY <1>1 DEF Emptied
  <1>2. CASE EndSync(u)
    <2>1. job[u].stage # "none"
      BY <1>2 DEF EndSync, At
    <2>2. job'[u].items = <<>>
      BY <1>2, GotoEffect DEF EndSync, SyncInv, JobTypeOK
    <2> QED  BY <2>2 DEF Emptied
  <1>3. job \in [Syncers -> JobState] /\ TypeOK
    BY DEF SyncInv, ChainInv, JobTypeOK
  <1>4. ASSUME job[u].items # <<>>,
               \/ \E count : Outcome(u, count)
               \/ \E stage \in InBody \cup {"aborted"} : Goto(u, stage)
        PROVE  Emptied(u)'
    <2>1. CASE \E count : Outcome(u, count)
      <3>1. job'[u].stage = "next"
        BY <1>3, <1>4, <2>1, OutcomeEffect
      <3> QED  BY <3>1 DEF Emptied
    <2>2. ASSUME NEW stage \in InBody \cup {"aborted"}, Goto(u, stage) PROVE Emptied(u)'
      <3>1. stage \in InBody \cup {"none", "next", "done", "aborted"} /\ stage # "done"
        BY DEF InBody
      <3>2. job'[u].stage = stage
        BY <1>3, <2>2, <3>1, GotoEffect
      <3> QED  BY <3>1, <3>2 DEF Emptied
    <2> QED  BY <1>4, <2>1, <2>2
  <1>5. CASE StartSync(u)
    BY <1>3, <1>5, StartEffect DEF Emptied
  <1>6. CASE Lookup(u)
    <2>1. job[u].items # <<>> /\ job[u].stage = "next" /\ job[u].kind # "none"
      BY <1>6 DEF Lookup, At, SyncInv, JobTypeOK
    <2>2. \/ Outcome(u, "errors") \/ Goto(u, "aborted")
          \/ job' = [job EXCEPT ![u] = [@ EXCEPT !.seen = detectors[It(u).det],
                                                 !.stage = job[u].kind]]
      BY <1>6 DEF Lookup, Abort
    <2>3. CASE job' = [job EXCEPT ![u] = [@ EXCEPT !.seen = detectors[It(u).det],
                                                   !.stage = job[u].kind]]
      <3>1. job'[u].stage = job[u].kind
        BY <1>3, <2>1, <2>3, LookupEffect
      <3>2. job[u].kind # "done"
        BY <1>3 DEF JobState
      <3> QED  BY <3>1, <3>2 DEF Emptied
    <2> QED  BY <1>4, <2>1, <2>2, <2>3
  <1>7. CASE \/ DesignDecide(u) \/ DesignRemove(u) \/ SyncRegister(u)
             \/ AsBuiltIsOk(u) \/ AsBuiltIsDead(u) \/ AsBuiltCommission(u)
    <2>1. \/ \E count : Outcome(u, count)
          \/ \E stage \in InBody \cup {"aborted"} : Goto(u, stage)
      BY <1>7 DEF DesignDecide, DesignRemove, SyncRegister, AsBuiltIsOk, AsBuiltIsDead,
                  AsBuiltCommission, Abort, InBody
    <2>2. job[u].items # <<>>
      BY <1>7 DEF DesignDecide, DesignRemove, SyncRegister, AsBuiltIsOk, AsBuiltIsDead,
                  AsBuiltCommission, At, SyncInv, JobTypeOK, InBody
    <2> QED  BY <1>4, <2>1, <2>2
  <1>8. ASSUME NEW t \in Syncers, t # u, StartSync(t) \/ SyncStep(t) PROVE Emptied(u)'
    <2>1. Quiet(t) \/ Changes(t)
      BY <1>8, StartIsQuiet, LookupIsQuiet, DecisionIsQuiet, RemoveChangesOrNot,
         RegisterChangesOrNot, CommissionChangesOrNot DEF SyncStep
    <2> QED  BY <1>1, <1>8, <2>1 DEF Quiet, Changes, Starts, Stays, Passes, Typed
  <1>9. UNCHANGED job => Emptied(u)'
    BY <1>1
  <1> QED  BY <1>2, <1>5, <1>6, <1>7, <1>8, <1>9 DEF SyncNext, SyncStep, syncVars

\* A sync that no other thread disturbed leaves every well-formed entry of its list
\* in the twin: there after a design sync, and commissioned, or known to be dead,
\* after an as-built one; only its own later entries can take one out again.
THEOREM UndisturbedCompletes == SyncSpec => []UndisturbedSyncIsComplete
  <1> DEFINE AllProgress == \A t \in Syncers : WalksInput(t) /\ Progress(t) /\ Emptied(t)
  <1>1. SyncInit => AllProgress
    <2> SUFFICES ASSUME SyncInit, NEW t \in Syncers
                 PROVE  WalksInput(t) /\ Progress(t) /\ Emptied(t)
      OBVIOUS
    <2>1. job[t].stage = "none" /\ job[t].items = <<>> /\ job[t].input = <<>>
      BY DEF SyncInit, NoJob
    <2> QED  BY <2>1 DEF WalksInput, Progress, Emptied
  <1>2. SyncInv /\ AllProgress /\ [SyncNext]_syncVars => AllProgress'
    BY SyncKeepsWalk, SyncKeepsProgress, SyncKeepsEmptied
  <1>3. SyncInv /\ AllProgress => UndisturbedSyncIsComplete
    <2> SUFFICES ASSUME SyncInv, AllProgress, NEW t \in Syncers, Ended(t), Undisturbed(t),
                        NEW k \in 1 .. Len(job[t].input)
                 PROVE  Served(t, k)
      BY DEF UndisturbedSyncIsComplete
    <2>1. job[t].stage = "done" /\ Len(job[t].items) = 0
      BY DEF Ended, Emptied
    <2>2. Passed(t) = Len(job[t].input)
      BY <2>1 DEF Passed, SyncInv, JobTypeOK, JobState
    <2>3. Served(t, k) \/ Pending(t, k)
      BY <2>1, <2>2 DEF Progress
    <2> QED  BY <2>1, <2>3 DEF Pending
  <1> HIDE DEF AllProgress
  <1> QED  BY <1>1, <1>2, <1>3, SyncInvariant, PTL DEF SyncSpec

-----------------------------------------------------------------------------
(* The reports.  A report reads live objects one at a time while the twin    *)
(* moves on; the history says what each object was at every instant.         *)

\* The least element that CHOOSE picks in First is there.
LEMMA FirstIsIn ==
    ASSUME NEW S, S \subseteq Nat, S # {}
    PROVE  First(S) \in S /\ \A p \in S : First(S) <= p
  <1> DEFINE R == OpToRel(<, Nat)
  <1>1. PICK o \in S : \A p \in S : <<p, o>> \notin R
    <2>1. IsWellFoundedOn(R, Nat)
      BY NatLessThanWellFounded
    <2> HIDE DEF R
    <2> QED  BY <2>1, WFMin
  <1>2. \A p \in S : p \in Nat /\ o \in Nat
    BY <1>1
  <1>3. \A p \in S : ~(p < o)
    BY <1>1, <1>2 DEF OpToRel
  <1>4. \A p \in S : o <= p
    BY <1>2, <1>3
  <1> QED  BY <1>1, <1>4 DEF First

\* The last op on an object that has left the map removed it.
GoneIsRemoved ==
    \A o \in 1 .. Len(heap) : o \notin InMap =>
        \A i \in LastOpOn(o, Len(ops)) : ops[i].kind = "removed"

RoomsAreKnown == \A o \in 1 .. Len(heap) : heap[o].room \in roomIds

StoreInv == ChainInv /\ GoneIsRemoved /\ RoomsAreKnown

\* The history says of this instant what the heap says.
LEMMA StatusNow ==
    ASSUME ChainInv, NEW o \in 1 .. Len(heap)
    PROVE  StatusAt(o, Len(ops)) = {heap[o].status}
  <1>1. PICK i \in LastOpOn(o, Len(ops)) : heap[o].status = ops[i].new
    BY DEF ChainInv, NoLostUpdate
  <1>2. \A j \in LastOpOn(o, Len(ops)) : j = i
    BY <1>1 DEF LastOpOn, LastOf, ChainInv, TypeOK
  <1> QED  BY <1>1, <1>2 DEF StatusAt

LEMMA LiveNow ==
    ASSUME StoreInv, NEW o \in 1 .. Len(heap)
    PROVE  LiveAt(o, Len(ops)) <=> o \in InMap
  <1>1. PICK i \in LastOpOn(o, Len(ops)) : heap[o].status = ops[i].new
    BY DEF StoreInv, ChainInv, NoLostUpdate
  <1>2. CASE o \in InMap
    <2>1. PICK d \in Detectors : detectors[d] = o
      BY <1>2 DEF InMap
    <2>2. ops[i].kind # "removed"
      BY <1>1, <2>1 DEF StoreInv, ChainInv, HistoryMatchesMap, NoObject
    <2> QED  BY <1>1, <1>2, <2>2 DEF LiveAt
  <1>3. CASE o \notin InMap
    BY <1>3 DEF LiveAt, StoreInv, GoneIsRemoved
  <1> QED  BY <1>2, <1>3

\* A change adds an instant to the history and leaves the earlier ones.
LEMMA PastStands ==
    ASSUME ChainInv, NEW op \in Op, NEW d \in Detectors, Change(op, d),
           NEW n \in 0 .. Len(ops)
    PROVE  /\ \A o : StatusAt(o, n)' = StatusAt(o, n) /\ (LiveAt(o, n)' <=> LiveAt(o, n))
           /\ \A room : KnownAt(room, n)' <=> KnownAt(room, n)
  <1>1. /\ Len(ops) \in Nat /\ Len(ops') = Len(ops) + 1
        /\ \A i \in 1 .. Len(ops) : ops'[i] = ops[i]
        /\ \A i \in 1 .. Len(ops) : heap'[ops[i].obj].room = heap[ops[i].obj].room
    BY HistoryGrows DEF Change, ChainInv, TypeOK, HistoryMatchesMap
  <1>2. \A o : LastOpOn(o, n)' = LastOpOn(o, n)
    <2>1. \A o : LastOf(ops', o, n) = LastOf(ops, o, n)
      BY <1>1 DEF LastOf
    <2> QED  BY <2>1 DEF LastOpOn
  <1>3. \A o : LastOpOn(o, n) \subseteq 1 .. Len(ops)
    BY <1>1 DEF LastOpOn, LastOf
  <1>4. \A o : StatusAt(o, n)' = StatusAt(o, n)
    BY <1>1, <1>2, <1>3 DEF StatusAt
  <1>5. \A o : LiveAt(o, n)' <=> LiveAt(o, n)
    BY <1>1, <1>2, <1>3 DEF LiveAt
  <1>6. \A room : KnownAt(room, n)' <=> KnownAt(room, n)
    BY <1>1 DEF KnownAt
  <1> QED  BY <1>4, <1>5, <1>6

LEMMA LastAfterChange ==
    ASSUME ChainInv, NEW op \in Op, NEW d \in Detectors, Change(op, d)
    PROVE  /\ Len(ops) \in Nat /\ Len(ops') = Len(ops) + 1 /\ ops'[Len(ops')] = op
           /\ \A i \in 1 .. Len(ops) : ops'[i] = ops[i]
           /\ LastOf(ops', op.obj, Len(ops')) = {Len(ops')}
           /\ \A o : o # op.obj => LastOf(ops', o, Len(ops')) = LastOf(ops, o, Len(ops))
  <1>1. /\ ops \in Seq(Op) /\ Len(ops) \in Nat /\ Len(ops') = Len(ops) + 1
        /\ \A i \in 1 .. Len(ops) : ops'[i] = ops[i]
        /\ ops'[Len(ops) + 1] = op /\ ops' = Append(ops, op)
    BY HistoryGrows DEF Change, ChainInv, TypeOK
  <1>2. /\ LastOf(Append(ops, op), op.obj, Len(ops) + 1) = {Len(ops) + 1}
        /\ \A o : o # op.obj =>
              LastOf(Append(ops, op), o, Len(ops) + 1) = LastOf(ops, o, Len(ops))
    BY <1>1, LastOfAppend, Zenon
  <1> QED  BY <1>1, <1>2, Zenon

LEMMA ChangeKeepsStoreInv ==
    ASSUME StoreInv, ChainInv', NEW op \in Op, NEW d \in Detectors, Change(op, d)
    PROVE  StoreInv'
  <1>1. ChainInv
    BY DEF StoreInv
  <1>2. /\ Len(ops) \in Nat /\ Len(ops') = Len(ops) + 1 /\ ops'[Len(ops')] = op
        /\ \A i \in 1 .. Len(ops) : ops'[i] = ops[i]
        /\ LastOf(ops', op.obj, Len(ops')) = {Len(ops')}
        /\ \A o : o # op.obj => LastOf(ops', o, Len(ops')) = LastOf(ops, o, Len(ops))
    BY <1>1, LastAfterChange
  <1>3. /\ Len(heap) \in Nat /\ Len(heap') \in Nat
        /\ detectors \in [Detectors -> 0 .. Len(heap)]
    <2>1. heap \in Seq(Object) /\ heap' \in Seq(Object)
      BY <1>1 DEF ChainInv, TypeOK, Change
    <2> QED  BY <1>1, <2>1 DEF ChainInv, TypeOK
  <1>4. \A o \in 1 .. Len(heap') : o # op.obj => o \in 1 .. Len(heap)
    BY <1>3 DEF Change
  <1>5. ASSUME NEW o \in 1 .. Len(heap'), o \notin InMap'
        PROVE  \A i \in LastOpOn(o, Len(ops))' : ops'[i].kind = "removed"
    <2>1. CASE o = op.obj
      <3>1. op.kind = "removed"
        BY <1>3, <1>5, <2>1 DEF Change, InMap
      <3> QED  BY <1>2, <2>1, <3>1 DEF LastOpOn
    <2>2. CASE o # op.obj
      <3>1. o \in 1 .. Len(heap)
        BY <1>4, <2>2
      <3>2. o \notin InMap
        <4> SUFFICES ASSUME NEW e \in Detectors, detectors[e] = o PROVE FALSE
          BY DEF InMap
        <4>1. CASE e = d
          BY <2>2, <3>1, <4>1 DEF Change, NoObject
        <4>2. CASE e # d
          <5>1. detectors'[e] = o
            BY <1>3, <4>2 DEF Change
          <5> QED  BY <1>5, <5>1 DEF InMap
        <4> QED  BY <4>1, <4>2
      <3>3. LastOpOn(o, Len(ops))' = LastOpOn(o, Len(ops))
        BY <1>2, <2>2 DEF LastOpOn
      <3>4. LastOpOn(o, Len(ops)) \subseteq 1 .. Len(ops)
        BY DEF LastOpOn, LastOf
      <3> QED  BY <1>2, <3>1, <3>2, <3>3, <3>4 DEF StoreInv, GoneIsRemoved
    <2> QED  BY <2>1, <2>2
  <1>6. GoneIsRemoved'
    BY <1>5 DEF GoneIsRemoved
  <1>7. RoomsAreKnown'
    <2> SUFFICES ASSUME NEW o \in 1 .. Len(heap') PROVE heap'[o].room \in roomIds'
      BY DEF RoomsAreKnown
    <2>1. CASE o \in 1 .. Len(heap)
      BY <2>1 DEF Change, StoreInv, RoomsAreKnown
    <2>2. CASE o \notin 1 .. Len(heap)
      BY <1>3, <1>4, <2>2 DEF Change
    <2> QED  BY <2>1, <2>2
  <1> QED  BY <1>6, <1>7 DEF StoreInv

LEMMA QuietKeepsStoreInv ==
    ASSUME StoreInv, TypeOK', UNCHANGED store
    PROVE  StoreInv'
  <1>1. heap' = heap /\ detectors' = detectors /\ roomIds' = roomIds /\ ops' = ops
    BY DEF store
  <1>2. ChainInv'
    BY StoreUnchangedKeepsChain DEF StoreInv
  <1>3. InMap' = InMap /\ \A o, n : LastOpOn(o, n)' = LastOpOn(o, n)
    BY <1>1 DEF InMap, LastOpOn
  <1>4. GoneIsRemoved'
    BY <1>1, <1>3 DEF StoreInv, GoneIsRemoved
  <1>5. RoomsAreKnown'
    BY <1>1 DEF StoreInv, RoomsAreKnown
  <1> QED  BY <1>2, <1>4, <1>5 DEF StoreInv

\* The record of a report, and where its two kinds of scan are.
RepState == [call : {"none", "health", "coverage", "drift", "snapshot"},
             stage : {"none", "read", "record", "publish", "audit", "done"},
             step : 1 .. 6, start : Nat, stop : Nat, objs : SUBSET Nat, rooms : SUBSET Rooms,
             left : SUBSET Nat, scan : SUBSET Nat, tally : [Status -> Nat],
             okRooms : SUBSET Rooms, plannedRooms : SUBSET Rooms, found : Seq(Nat),
             unresolved : Nat, counted : Nat]

Ending == {"record", "publish", "audit"}

\* The room a coverage scan is at, and the objects of it.
ItsRoom(r) == heap[First(r.left)].room
ItsDets(r) == {o \in r.left : heap[o].room = ItsRoom(r)}

Formed(r) ==
    /\ r \in RepState
    /\ r.objs \subseteq 1 .. Len(heap) /\ r.left \subseteq r.objs
    /\ r.call = "coverage" => r.scan \subseteq ItsDets(r)
    /\ r.start <= Len(ops) /\ r.stop <= Len(ops)
    /\ IF r.stage = "none" THEN r = NoReport ELSE r.call # "none"
    /\ r.stage = "read" =>
          /\ r.call = "drift" => r.step = 1
          /\ r.call = "snapshot" => r.step \in {1, 2}
          /\ r.call = "coverage" => /\ r.step \in {1, 2, 3}
                                    /\ r.left = {} => r.step = 1
                                    /\ r.scan # {} => r.step # 1
    /\ r.stage \in Ending => r.step \in DOMAIN Rest[r.call] /\ Rest[r.call][r.step] = r.stage
    /\ r.stage \in Ending \cup {"done"} => r.start <= r.stop /\ (r.call # "snapshot" => r.left = {})

Upto(r) == IF r.stage = "read" THEN Len(ops) ELSE r.stop

Was(r, s) == {o \in r.objs : \E n \in r.start .. Upto(r) : StatusAt(o, n) = {s}}

Fresh(r) ==
    r.stage = "read" =>
        \A o \in r.objs : \E n \in r.start .. Len(ops) :
            LiveAt(o, n) /\ StatusAt(o, n) = {heap[o].status}

\* The objects of S that pass k of health_report has read.
Tallied(r, S, k) ==
    IF r.stage # "read" \/ k < r.step THEN S ELSE IF k = r.step THEN S \ r.left ELSE {}

Covered(r) ==
    \A room \in r.okRooms : \E o \in r.objs, n \in r.start .. Upto(r) :
        heap[o].room = room /\ LiveAt(o, n) /\ StatusAt(o, n) = {"ok"}

Listed(r) ==
    \/ r.call = "coverage"
    \/ r.call = "health" /\ (r.stage # "read" \/ r.step = 6)
    => \A room \in Rooms : KnownAt(room, r.start) => room \in r.rooms

Honest(r) ==
    /\ \A room \in r.plannedRooms : \E o \in Was(r, "planned") : heap[o].room = room
    /\ \A k \in 1 .. Len(r.found) : r.found[k] \in Was(r, "planned")
    /\ r.call = "health" =>
          \A k \in 1 .. 5 : r.tally[HealthPasses[k]]
                              <= Cardinality(Tallied(r, Was(r, HealthPasses[k]), k))

LiveObjs(n) == {o \in 1 .. Len(heap) : LiveAt(o, n)}
Are(r, s) == {o \in LiveObjs(r.start) : StatusAt(o, r.start) = {s}}
RoomsOf(S) == {heap[o].room : o \in S}

\* The objects a coverage scan has looked at for OK, and for PLANNED.
OkSeen(r) == (r.objs \ r.left) \cup
    (IF r.step = 1 THEN {} ELSE IF r.step = 2 THEN ItsDets(r) \ r.scan ELSE ItsDets(r))
PlannedSeen(r) == (r.objs \ r.left) \cup (IF r.step = 3 THEN ItsDets(r) \ r.scan ELSE {})

WholeRooms(r) == r.call = "coverage" =>
    \A o \in r.left, p \in r.objs : heap[p].room = heap[o].room => p \in r.left

Exact(r) ==
    (r.stage # "none" /\ r.start = Upto(r)) =>
        /\ r.objs = LiveObjs(r.start)
        /\ r.call = "health" =>
              /\ \A k \in 1 .. 5 : r.tally[HealthPasses[k]]
                                     = Cardinality(Tallied(r, Are(r, HealthPasses[k]), k))
              /\ r.okRooms = RoomsOf(Tallied(r, Are(r, "ok"), 6))
        /\ r.call = "coverage" =>
              /\ r.okRooms = RoomsOf(Are(r, "ok") \cap OkSeen(r))
              /\ r.plannedRooms = RoomsOf(Are(r, "planned") \cap PlannedSeen(r)) \ r.okRooms
        /\ r.call = "drift" => Len(r.found) = Cardinality(Are(r, "planned") \ r.left)
        /\ r.call = "snapshot" =>
              /\ r.stage # "read" \/ r.step = 2 => r.counted = Cardinality(r.objs)
              /\ r.stage # "read" => r.tally["ok"] = Cardinality(Are(r, "ok"))

RepInv(r) == /\ Formed(r) /\ Fresh(r) /\ Covered(r) /\ Listed(r)
             /\ Honest(r) /\ WholeRooms(r) /\ Exact(r)

\* What a reporter has in hand is about objects that exist.
LEMMA InHand ==
    ASSUME ChainInv, NEW r, Formed(r)
    PROVE  /\ r \in RepState /\ Len(heap) \in Nat /\ Len(ops) \in Nat
           /\ r.left \subseteq r.objs /\ r.objs \subseteq 1 .. Len(heap)
           /\ r.start \in 0 .. Len(ops) /\ r.stop \in 0 .. Len(ops) /\ Upto(r) \in 0 .. Len(ops)
           /\ r.left # {} => /\ First(r.left) \in r.left
                             /\ First(r.left) \in 1 .. Len(heap)
                             /\ ItsRoom(r) \in Rooms
           /\ \A o \in r.objs : heap[o] \in Object
  <1>1. heap \in Seq(Object) /\ Len(heap) \in Nat /\ Len(ops) \in Nat
    BY DEF ChainInv, TypeOK
  <1>2. /\ r \in RepState /\ r.left \subseteq r.objs /\ r.objs \subseteq 1 .. Len(heap)
        /\ r.start <= Len(ops) /\ r.stop <= Len(ops)
    BY DEF Formed
  <1>3. r.start \in Nat /\ r.stop \in Nat /\ r.left \subseteq Nat
    BY <1>2 DEF RepState
  <1>4. r.start \in 0 .. Len(ops) /\ r.stop \in 0 .. Len(ops) /\ Upto(r) \in 0 .. Len(ops)
    BY <1>1, <1>2, <1>3 DEF Upto
  <1>5. r.left # {} => First(r.left) \in r.left
    BY <1>3, FirstIsIn
  <1>6. r.left # {} => First(r.left) \in 1 .. Len(heap) /\ ItsRoom(r) \in Rooms
    <2> SUFFICES ASSUME r.left # {} PROVE First(r.left) \in 1 .. Len(heap) /\ ItsRoom(r) \in Rooms
      OBVIOUS
    <2>1. First(r.left) \in 1 .. Len(heap)
      BY <1>2, <1>5
    <2>2. heap[First(r.left)] \in Object
      BY <1>1, <2>1
    <2> QED  BY <2>1, <2>2 DEF ItsRoom, Object
  <1> QED  BY <1>1, <1>2, <1>4, <1>5, <1>6

\* Sets of objects are finite, and what a report counts of them does not shrink.
LEMMA ObjectsAreFinite ==
    ASSUME NEW n \in Nat, NEW S, S \subseteq 1 .. n
    PROVE  /\ IsFiniteSet(S) /\ Cardinality(S) \in Nat
           /\ \A T : T \subseteq S => IsFiniteSet(T) /\ Cardinality(T) <= Cardinality(S)
                                    /\ Cardinality(T) \in Nat
  <1>1. IsFiniteSet(1 .. n)
    BY FS_Interval
  <1>2. IsFiniteSet(S)
    BY <1>1, FS_Subset
  <1>3. Cardinality(S) \in Nat
    BY <1>2, FS_CardinalityType
  <1>4. \A T : T \subseteq S => IsFiniteSet(T) /\ Cardinality(T) <= Cardinality(S)
    BY <1>2, FS_Subset
  <1> QED  BY <1>2, <1>3, <1>4, FS_CardinalityType

LEMMA QuietKeepsReport ==
    ASSUME UNCHANGED store, NEW r, RepInv(r)
    PROVE  RepInv(r)'
  <1>1. heap' = heap /\ ops' = ops
    BY DEF store
  <1>2. /\ \A o, n : StatusAt(o, n)' = StatusAt(o, n) /\ (LiveAt(o, n)' <=> LiveAt(o, n))
        /\ \A room, n : KnownAt(room, n)' <=> KnownAt(room, n)
    BY <1>1 DEF StatusAt, LiveAt, KnownAt, LastOpOn
  <1>3. Upto(r)' = Upto(r) /\ ItsRoom(r)' = ItsRoom(r)
    BY <1>1 DEF Upto, ItsRoom
  <1>4. ItsDets(r)' = ItsDets(r)
    BY <1>1, <1>3 DEF ItsDets
  <1>5. /\ \A s : Was(r, s)' = Was(r, s) /\ Are(r, s)' = Are(r, s)
        /\ \A n : LiveObjs(n)' = LiveObjs(n)
        /\ \A S : RoomsOf(S)' = RoomsOf(S)
        /\ OkSeen(r)' = OkSeen(r) /\ PlannedSeen(r)' = PlannedSeen(r)
    BY <1>1, <1>2, <1>3, <1>4 DEF Was, Are, LiveObjs, RoomsOf, OkSeen, PlannedSeen
  <1>6. Formed(r)'
    BY <1>1, <1>4 DEF RepInv, Formed
  <1>7. Fresh(r)' /\ Covered(r)' /\ Listed(r)' /\ WholeRooms(r)'
    <2>1. Fresh(r)'
      BY <1>1, <1>2 DEF RepInv, Fresh
    <2>2. Covered(r)'
      BY <1>1, <1>2, <1>3 DEF RepInv, Covered
    <2>3. Listed(r)'
      BY <1>1, <1>2 DEF RepInv, Listed
    <2>4. WholeRooms(r)'
      BY <1>1 DEF RepInv, WholeRooms
    <2> QED  BY <2>1, <2>2, <2>3, <2>4
  <1>8. Honest(r)'
    BY <1>1, <1>5 DEF RepInv, Honest
  <1>9. Exact(r)'
    BY <1>1, <1>3, <1>5 DEF RepInv, Exact
  <1> QED  BY <1>6, <1>7, <1>8, <1>9 DEF RepInv

\* A change of the twin adds an instant to the reports that are being made, and
\* is nothing to those that are computed.
LEMMA ChangeKeepsReport ==
    ASSUME StoreInv, NEW op \in Op, NEW d \in Detectors, Change(op, d), NEW r, RepInv(r)
    PROVE  RepInv(r)'
  <1>1. /\ ChainInv /\ Formed(r) /\ Len(ops') = Len(ops) + 1 /\ ops'[Len(ops')] = op
        /\ LastOf(ops', op.obj, Len(ops')) = {Len(ops')}
    BY LastAfterChange DEF StoreInv, RepInv
  <1>2. /\ r \in RepState /\ Len(heap) \in Nat /\ Len(ops) \in Nat
        /\ r.left \subseteq r.objs /\ r.objs \subseteq 1 .. Len(heap)
        /\ r.start \in 0 .. Len(ops) /\ r.stop \in 0 .. Len(ops) /\ Upto(r) \in 0 .. Len(ops)
        /\ r.left # {} => First(r.left) \in 1 .. Len(heap)
    BY <1>1, InHand
  <1>3. /\ Len(heap') \in Nat /\ Len(heap) <= Len(heap')
        /\ \A o \in 1 .. Len(heap) : heap'[o].room = heap[o].room
        /\ \A o \in 1 .. Len(heap) : o # op.obj => heap'[o] = heap[o]
    <2>1. heap' \in Seq(Object)
      BY DEF Change
    <2> QED  BY <2>1 DEF Change
  <1>4. \A n \in 0 .. Len(ops) :
          /\ \A o : StatusAt(o, n)' = StatusAt(o, n) /\ (LiveAt(o, n)' <=> LiveAt(o, n))
          /\ \A room : KnownAt(room, n)' <=> KnownAt(room, n)
    BY <1>1, PastStands
  <1>5. Upto(r) <= Upto(r)' /\ (r.stage # "read" => Upto(r)' = Upto(r))
    BY <1>1, <1>2 DEF Upto
  <1>6. \A n \in r.start .. Upto(r) : n \in 0 .. Len(ops) /\ n \in r.start .. Upto(r)'
    <2>1. Upto(r)' \in Nat
      BY <1>1, <1>2 DEF Upto
    <2> QED  BY <1>2, <1>5, <2>1
  <1>7. ItsDets(r)' = ItsDets(r)
    <2>1. CASE r.left = {}
      BY <2>1 DEF ItsDets
    <2>2. CASE r.left # {}
      <3>1. ItsRoom(r)' = ItsRoom(r)
        BY <1>2, <1>3, <2>2 DEF ItsRoom
      <3> QED  BY <1>2, <1>3, <3>1 DEF ItsDets
    <2> QED  BY <2>1, <2>2
  <1>8. Formed(r)'
    <2>2. r.objs \subseteq 1 .. Len(heap') /\ r.start <= Len(ops') /\ r.stop <= Len(ops')
      BY <1>1, <1>2, <1>3
    <2> QED  BY <1>1, <1>7, <2>2 DEF Formed
  <1>9. Fresh(r)'
    <2> SUFFICES ASSUME r.stage = "read", NEW o \in r.objs
                 PROVE  \E n \in r.start .. Len(ops') :
                           LiveAt(o, n)' /\ StatusAt(o, n)' = {heap'[o].status}
      BY DEF Fresh
    <2>1. PICK n \in r.start .. Len(ops) : LiveAt(o, n) /\ StatusAt(o, n) = {heap[o].status}
      BY DEF RepInv, Fresh
    <2>2. n \in 0 .. Len(ops) /\ n \in r.start .. Len(ops')
      BY <1>1, <1>2, <2>1
    <2>3. CASE heap'[o] = heap[o]
      BY <1>4, <2>1, <2>2, <2>3
    <2>4. CASE heap'[o] # heap[o]
      <3>1. o = op.obj /\ o \in 1 .. Len(heap)
        BY <1>2, <1>3, <2>4
      <3>2. CASE op.kind = "removed"
        BY <2>4, <3>2 DEF Change
      <3>3. CASE op.kind # "removed"
        <4>1. Len(ops') \in r.start .. Len(ops')
          BY <1>1, <1>2
        <4>2. PICK k : k = Len(ops')
          OBVIOUS
        <4>3. LastOpOn(o, k)' = {k}
          BY <1>1, <3>1, <4>2 DEF LastOpOn
        <4>4. ops'[k] = op
          BY <1>1, <4>2
        <4>5. LiveAt(o, k)'
          BY <3>3, <4>3, <4>4 DEF LiveAt
        <4>6. StatusAt(o, k)' = {op.new}
          BY <4>3, <4>4 DEF StatusAt
        <4>7. op.new = heap'[o].status
          BY <3>1 DEF Change
        <4> QED  BY <4>1, <4>2, <4>5, <4>6, <4>7
      <3> QED  BY <3>2, <3>3
    <2> QED  BY <2>3, <2>4
  <1>10. \A s : Was(r, s) \subseteq Was(r, s)'
    BY <1>4, <1>6 DEF Was
  <1>11. Covered(r)'
    <2> SUFFICES ASSUME NEW room \in r.okRooms
                 PROVE  \E o \in r.objs, n \in r.start .. Upto(r)' :
                          heap'[o].room = room /\ LiveAt(o, n)' /\ StatusAt(o, n)' = {"ok"}
      BY DEF Covered
    <2>1. PICK o \in r.objs, n \in r.start .. Upto(r) :
             heap[o].room = room /\ LiveAt(o, n) /\ StatusAt(o, n) = {"ok"}
      BY DEF RepInv, Covered
    <2> QED  BY <1>2, <1>3, <1>4, <1>6, <2>1
  <1>12. Listed(r)'
    BY <1>2, <1>4 DEF RepInv, Listed
  <1>13. Honest(r)'
    <2>1. \A room \in r.plannedRooms : \E o \in Was(r, "planned")' : heap'[o].room = room
      BY <1>2, <1>3, <1>10 DEF RepInv, Honest, Was
    <2>2. \A k \in 1 .. Len(r.found) : r.found[k] \in Was(r, "planned")'
      BY <1>10 DEF RepInv, Honest
    <2>3. ASSUME r.call = "health", NEW k \in 1 .. 5, NEW s, s = HealthPasses[k]
          PROVE  r.tally[s] <= Cardinality(Tallied(r, Was(r, s)', k))
      <3>1. Tallied(r, Was(r, s), k) \subseteq Tallied(r, Was(r, s)', k)
        BY <1>10 DEF Tallied
      <3>2. Tallied(r, Was(r, s)', k) \subseteq 1 .. Len(heap)
        BY <1>2 DEF Tallied, Was
      <3>3. /\ Cardinality(Tallied(r, Was(r, s), k)) <= Cardinality(Tallied(r, Was(r, s)', k))
            /\ Cardinality(Tallied(r, Was(r, s), k)) \in Nat
            /\ Cardinality(Tallied(r, Was(r, s)', k)) \in Nat
        BY <1>2, <3>1, <3>2, ObjectsAreFinite
      <3>4. r.tally[s] <= Cardinality(Tallied(r, Was(r, s), k))
        BY <2>3 DEF RepInv, Honest
      <3>5. r.tally[s] \in Nat
        <4>1. s \in Status
          BY <2>3 DEF HealthPasses, Status
        <4>2. r.tally \in [Status -> Nat]
          BY <1>2 DEF RepState
        <4> QED  BY <4>1, <4>2
      <3> QED  BY <3>3, <3>4, <3>5
    <2>4. \A k \in 1 .. 5 : r.call = "health" =>
            r.tally[HealthPasses[k]] <= Cardinality(Tallied(r, Was(r, HealthPasses[k])', k))
      BY <2>3
    <2> QED  BY <2>1, <2>2, <2>4 DEF Honest, Tallied
  <1>14. WholeRooms(r)'
    <2>1. \A o \in r.left, p \in r.objs :
             heap'[o].room = heap[o].room /\ heap'[p].room = heap[p].room
      BY <1>2, <1>3
    <2> QED  BY <2>1 DEF RepInv, WholeRooms
  <1>15. Exact(r)'
    <2> SUFFICES ASSUME r.stage # "none", r.start = Upto(r)' PROVE Exact(r)'
      BY DEF Exact
    <2>1. r.stage # "read" /\ r.start = Upto(r)
      BY <1>1, <1>2, <1>5 DEF Upto
    <2>2. \A o : LiveAt(o, r.start) => o \in 1 .. Len(heap)
      BY <1>1, <1>2 DEF LiveAt, LastOpOn, LastOf, ChainInv, HistoryMatchesMap
    <2>3. LiveObjs(r.start)' = LiveObjs(r.start)
      BY <1>2, <1>3, <1>4, <2>2 DEF LiveObjs
    <2>4. \A s : Are(r, s)' = Are(r, s) /\ Are(r, s) \subseteq 1 .. Len(heap)
      BY <1>2, <1>4, <2>3 DEF Are, LiveObjs
    <2>5. /\ r.objs = LiveObjs(r.start)'
          /\ r.call = "health" =>
                /\ \A k \in 1 .. 5 : r.tally[HealthPasses[k]]
                     = Cardinality(Tallied(r, Are(r, HealthPasses[k])', k))
                /\ r.okRooms = RoomsOf(Tallied(r, Are(r, "ok"), 6))
          /\ r.call = "coverage" =>
                /\ r.okRooms = RoomsOf(Are(r, "ok") \cap OkSeen(r))
                /\ r.plannedRooms = RoomsOf(Are(r, "planned") \cap PlannedSeen(r)) \ r.okRooms
          /\ r.call = "drift" => Len(r.found) = Cardinality(Are(r, "planned")' \ r.left)
          /\ r.call = "snapshot" => /\ r.counted = Cardinality(r.objs)
                                    /\ r.tally["ok"] = Cardinality(Are(r, "ok")')
      BY <2>1, <2>3, <2>4 DEF RepInv, Exact
    <2>6. \A S : S \subseteq 1 .. Len(heap) => RoomsOf(S) = {heap'[o].room : o \in S}
      BY <1>3 DEF RoomsOf
    <2>7. OkSeen(r)' = OkSeen(r) /\ PlannedSeen(r)' = PlannedSeen(r)
      BY <1>7 DEF OkSeen, PlannedSeen
    <2>8. /\ RoomsOf(Tallied(r, Are(r, "ok"), 6)) =
               {heap'[o].room : o \in Tallied(r, Are(r, "ok")', 6)}
          /\ RoomsOf(Are(r, "ok") \cap OkSeen(r)) =
               {heap'[o].room : o \in Are(r, "ok")' \cap OkSeen(r)'}
          /\ RoomsOf(Are(r, "planned") \cap PlannedSeen(r)) =
               {heap'[o].room : o \in Are(r, "planned")' \cap PlannedSeen(r)'}
      BY <2>4, <2>6, <2>7 DEF Tallied
    <2> QED  BY <2>5, <2>8 DEF Exact, RoomsOf
  <1> QED  BY <1>8, <1>9, <1>11, <1>12, <1>13, <1>14, <1>15 DEF RepInv

\* A step of a report that is still reading: the copies and the instants stay.
Frame(r, r2) ==
    /\ r2.call = r.call /\ r2.start = r.start /\ r2.objs = r.objs
    /\ r.stage = "read" /\ r2.stage # "none" /\ Upto(r2) = Upto(r)

\* What a reader may conclude of the objects it holds, at this instant.
LEMMA ReadNow ==
    ASSUME StoreInv, NEW r, RepInv(r), r.stage = "read"
    PROVE  /\ \A o \in r.objs : o \in Was(r, heap[o].status)
           /\ \A o \in r.objs : \E n \in r.start .. Upto(r) :
                 LiveAt(o, n) /\ StatusAt(o, n) = {heap[o].status}
           /\ r.start = Upto(r) =>
                 /\ r.objs = LiveObjs(r.start) /\ r.objs = InMap
                 /\ \A s : Are(r, s) \subseteq r.objs
                 /\ \A s, o : o \in Are(r, s) <=> o \in r.objs /\ heap[o].status = s
  <1>1. /\ Upto(r) = Len(ops) /\ r.start \in 0 .. Len(ops) /\ Len(ops) \in Nat
        /\ r.objs \subseteq 1 .. Len(heap) /\ ChainInv
    <2>1. ChainInv /\ Formed(r)
      BY DEF RepInv, StoreInv
    <2> QED  BY <2>1, InHand DEF Upto
  <1>2. \A o \in r.objs : StatusAt(o, Len(ops)) = {heap[o].status}
    BY <1>1, StatusNow
  <1>3. \A o \in r.objs : o \in Was(r, heap[o].status)
    BY <1>1, <1>2 DEF Was
  <1>4. \A o \in r.objs : \E n \in r.start .. Upto(r) :
           LiveAt(o, n) /\ StatusAt(o, n) = {heap[o].status}
    BY <1>1 DEF RepInv, Fresh
  <1>5. ASSUME r.start = Upto(r)
        PROVE  /\ r.objs = LiveObjs(r.start) /\ r.objs = InMap
               /\ \A s : Are(r, s) \subseteq r.objs
               /\ \A s, o : o \in Are(r, s) <=> o \in r.objs /\ heap[o].status = s
    <2>1. r.start = Len(ops) /\ r.objs = LiveObjs(r.start)
      BY <1>1, <1>5 DEF RepInv, Exact
    <2>2. LiveObjs(Len(ops)) = InMap
      BY LiveNow DEF LiveObjs, InMap
    <2>3. \A s : \A o \in r.objs : StatusAt(o, r.start) = {s} <=> heap[o].status = s
      BY <1>2, <2>1
    <2> QED  BY <2>1, <2>2, <2>3 DEF Are
  <1> QED  BY <1>3, <1>4, <1>5

LEMMA FrameFacts ==
    ASSUME StoreInv, NEW r, RepInv(r), NEW r2, Frame(r, r2)
    PROVE  /\ Fresh(r2)
           /\ \A s : /\ Was(r2, s) = Was(r, s) /\ Was(r, s) \subseteq r.objs
                     /\ Are(r2, s) = Are(r, s)
           /\ r2.start = Upto(r2) => \A s : Are(r, s) \subseteq r.objs
           /\ r2.okRooms = r.okRooms => Covered(r2)
           /\ r2.plannedRooms = r.plannedRooms =>
                 \A room \in r2.plannedRooms : \E o \in Was(r2, "planned") : heap[o].room = room
           /\ r2.found = r.found => \A k \in 1 .. Len(r2.found) : r2.found[k] \in Was(r2, "planned")
           /\ r2.rooms = r.rooms =>
                 \/ Listed(r2)
                 \/ r2.call = "health" /\ (r2.stage # "read" \/ r2.step = 6) /\ r.step # 6
           /\ r2.left = r.left => WholeRooms(r2)
  <1>1. \A s : /\ Was(r2, s) = Was(r, s) /\ Was(r, s) \subseteq r.objs
               /\ Are(r2, s) = Are(r, s)
    BY DEF Frame, Was, Are
  <1>2. Fresh(r2)
    BY DEF Frame, RepInv, Fresh
  <1>3. ASSUME r2.start = Upto(r2), NEW s PROVE Are(r, s) \subseteq r.objs
    <2>1. r.stage = "read" /\ r.start = Upto(r)
      BY <1>3 DEF Frame
    <2> QED  BY <2>1, ReadNow
  <1>4. r2.okRooms = r.okRooms => Covered(r2)
    BY DEF Frame, RepInv, Covered
  <1>5. r2.plannedRooms = r.plannedRooms =>
           \A room \in r2.plannedRooms : \E o \in Was(r2, "planned") : heap[o].room = room
    BY <1>1 DEF RepInv, Honest
  <1>6. r2.found = r.found => \A k \in 1 .. Len(r2.found) : r2.found[k] \in Was(r2, "planned")
    BY <1>1 DEF RepInv, Honest
  <1>7. r2.rooms = r.rooms =>
           \/ Listed(r2)
           \/ r2.call = "health" /\ (r2.stage # "read" \/ r2.step = 6) /\ r.step # 6
    BY DEF Frame, RepInv, Listed
  <1>8. r2.left = r.left => WholeRooms(r2)
    BY DEF Frame, RepInv, WholeRooms
  <1> QED  BY <1>1, <1>2, <1>3, <1>4, <1>5, <1>6, <1>7, <1>8

\* Taking one object off the list counts it if it is one of S.
LEMMA CountOne ==
    ASSUME NEW S, IsFiniteSet(S), NEW L, NEW o \in L
    PROVE  /\ Cardinality(S \ L) \in Nat
           /\ Cardinality(S \ (L \ {o})) = IF o \in S THEN Cardinality(S \ L) + 1
                                                      ELSE Cardinality(S \ L)
  <1>1. IsFiniteSet(S \ L) /\ Cardinality(S \ L) \in Nat
    BY FS_Subset, FS_CardinalityType
  <1>2. CASE o \in S
    <2>1. S \ (L \ {o}) = (S \ L) \cup {o} /\ o \notin S \ L
      BY <1>2
    <2> QED  BY <1>1, <1>2, <2>1, FS_AddElement
  <1>3. CASE o \notin S
    <2>1. S \ (L \ {o}) = S \ L
      BY <1>3
    <2> QED  BY <1>1, <1>3, <2>1
  <1> QED  BY <1>2, <1>3

-----------------------------------------------------------------------------
(* The steps of health_report.                                             *)

AfterHealthRead(r) ==
    LET o == First(r.left)
        p == HealthPasses[r.step]
    IN [r EXCEPT
          !.left = r.left \ {o},
          !.tally = [s \in Status |-> IF p = s /\ heap[o].status = s
                                      THEN r.tally[s] + 1 ELSE r.tally[s]],
          !.okRooms = IF p = "rooms" /\ heap[o].status = "ok"
                      THEN r.okRooms \cup {heap[o].room} ELSE r.okRooms]

LEMMA HealthReadKeeps ==
    ASSUME StoreInv, NEW r, RepInv(r), r.call = "health", r.stage = "read", r.left # {},
           NEW r2, r2 = AfterHealthRead(r)
    PROVE  RepInv(r2)
  <1>0. PICK o, p : o = First(r.left) /\ p = HealthPasses[r.step]
    OBVIOUS
  <1>1. /\ r \in RepState /\ Len(heap) \in Nat /\ Formed(r)
        /\ r.left \subseteq r.objs /\ r.objs \subseteq 1 .. Len(heap)
        /\ o \in r.left /\ o \in r.objs /\ heap[o] \in Object
    <2>1. ChainInv /\ Formed(r)
      BY DEF RepInv, StoreInv
    <2> QED  BY <1>0, <2>1, InHand
  <1>2. r.step \in 1 .. 6 /\ heap[o].status \in Status /\ heap[o].room \in Rooms
    BY <1>1 DEF RepState, Object
  <1> DEFINE ta == [s \in Status |-> IF p = s /\ heap[o].status = s
                                     THEN r.tally[s] + 1 ELSE r.tally[s]]
             ok == IF p = "rooms" /\ heap[o].status = "ok"
                   THEN r.okRooms \cup {heap[o].room} ELSE r.okRooms
  <1>3. ta \in [Status -> Nat] /\ ok \in SUBSET Rooms /\ r.left \ {o} \in SUBSET Nat
    BY <1>1, <1>2 DEF RepState
  <1>4. r2 = [r EXCEPT !.left = r.left \ {o}, !.tally = ta, !.okRooms = ok]
    BY <1>0 DEF AfterHealthRead
  <1> HIDE DEF ta, ok
  <1>5. /\ r2 \in RepState
        /\ r2.call = r.call /\ r2.stage = r.stage /\ r2.step = r.step /\ r2.start = r.start
        /\ r2.stop = r.stop /\ r2.objs = r.objs /\ r2.rooms = r.rooms
        /\ r2.plannedRooms = r.plannedRooms /\ r2.found = r.found
        /\ r2.left = r.left \ {o} /\ r2.tally = ta /\ r2.okRooms = ok
    BY <1>1, <1>3, <1>4 DEF RepState
  <1>6. Formed(r2)
    BY <1>1, <1>5 DEF Formed, Ending
  <1>7. Frame(r, r2)
    BY <1>5 DEF Frame, Upto
  <1>8. /\ Fresh(r2)
        /\ \A s : /\ Was(r2, s) = Was(r, s) /\ Was(r, s) \subseteq r.objs
                  /\ Are(r2, s) = Are(r, s)
        /\ \A room \in r2.plannedRooms : \E q \in Was(r2, "planned") : heap[q].room = room
        /\ \A k \in 1 .. Len(r2.found) : r2.found[k] \in Was(r2, "planned")
        /\ r2.rooms = r.rooms =>
              \/ Listed(r2)
              \/ r2.call = "health" /\ (r2.stage # "read" \/ r2.step = 6) /\ r.step # 6
    BY <1>5, <1>7, FrameFacts
  <1>9. Listed(r2)
    BY <1>5, <1>8
  <1>10. WholeRooms(r2)
    BY <1>5 DEF WholeRooms
  <1>11. Covered(r2)
    <2> SUFFICES ASSUME NEW room \in r2.okRooms
                 PROVE  \E q \in r2.objs, n \in r2.start .. Upto(r2) :
                          heap[q].room = room /\ LiveAt(q, n) /\ StatusAt(q, n) = {"ok"}
      BY DEF Covered
    <2>1. CASE room \in r.okRooms
      BY <1>7, <2>1 DEF RepInv, Covered, Frame
    <2>2. CASE room \notin r.okRooms
      <3>1. room = heap[o].room /\ heap[o].status = "ok"
        BY <1>5, <2>2 DEF ok
      <3>2. PICK n \in r.start .. Upto(r) : LiveAt(o, n) /\ StatusAt(o, n) = {heap[o].status}
        BY <1>1, ReadNow
      <3> QED  BY <1>1, <1>7, <3>1, <3>2 DEF Frame
    <2> QED  BY <2>1, <2>2
  <1>12. ASSUME NEW k \in 1 .. 5, NEW s, s = HealthPasses[k], NEW S, S \subseteq 1 .. Len(heap)
         PROVE  /\ s \in Status /\ r.tally[s] \in Nat /\ (k # r.step => s # p)
                /\ r2.tally[s] = IF k = r.step /\ heap[o].status = s THEN r.tally[s] + 1
                                                                    ELSE r.tally[s]
                /\ Cardinality(Tallied(r, S, k)) \in Nat
                /\ Cardinality(Tallied(r2, S, k)) =
                      IF k = r.step /\ o \in S THEN Cardinality(Tallied(r, S, k)) + 1
                                             ELSE Cardinality(Tallied(r, S, k))
    <2>1. s \in Status /\ (k = r.step <=> s = p)
      BY <1>0, <1>2, <1>12 DEF HealthPasses, Status
    <2>2. r.tally \in [Status -> Nat]
      BY <1>1 DEF RepState
    <2>3. r2.tally[s] = IF k = r.step /\ heap[o].status = s THEN r.tally[s] + 1 ELSE r.tally[s]
      BY <1>5, <2>1, <2>2 DEF ta
    <2>4. Tallied(r, S, k) \subseteq 1 .. Len(heap)
      BY <1>12 DEF Tallied
    <2>5. Cardinality(Tallied(r, S, k)) \in Nat
      BY <1>1, <2>4, ObjectsAreFinite
    <2>6. CASE k = r.step
      <3>1. Tallied(r, S, k) = S \ r.left /\ Tallied(r2, S, k) = S \ (r.left \ {o})
        BY <1>2, <1>5, <2>6 DEF Tallied
      <3>2. Cardinality(S \ (r.left \ {o})) = IF o \in S THEN Cardinality(S \ r.left) + 1
                                                       ELSE Cardinality(S \ r.left)
        <4>1. IsFiniteSet(S)
          BY <1>1, <1>12, ObjectsAreFinite
        <4> QED  BY <1>1, <4>1, CountOne
      <3> QED  BY <2>1, <2>2, <2>3, <2>5, <2>6, <3>1, <3>2
    <2>7. CASE k # r.step
      <3>1. Tallied(r2, S, k) = Tallied(r, S, k)
        BY <1>5, <2>7 DEF Tallied
      <3> QED  BY <2>1, <2>2, <2>3, <2>5, <2>7, <3>1
    <2> QED  BY <2>6, <2>7
  <1>13. Honest(r2)
    <2>1. ASSUME NEW k \in 1 .. 5, NEW s, s = HealthPasses[k]
          PROVE  r2.tally[s] <= Cardinality(Tallied(r2, Was(r2, s), k))
      <3>1. r.tally[s] <= Cardinality(Tallied(r, Was(r, s), k))
        BY <2>1 DEF RepInv, Honest
      <3>2. Was(r2, s) = Was(r, s) /\ Was(r, s) \subseteq 1 .. Len(heap)
        BY <1>1, <1>8
      <3>3. heap[o].status = s => o \in Was(r, s)
        BY <1>1, ReadNow
      <3> DEFINE c == Cardinality(Tallied(r, Was(r, s), k))
      <3>4. /\ r.tally[s] \in Nat /\ c \in Nat
            /\ r2.tally[s] = IF k = r.step /\ heap[o].status = s THEN r.tally[s] + 1
                                                                ELSE r.tally[s]
            /\ Cardinality(Tallied(r2, Was(r, s), k)) =
                  IF k = r.step /\ o \in Was(r, s) THEN c + 1 ELSE c
        BY <1>12, <2>1, <3>2
      <3>5. r.tally[s] <= c
        BY <3>1
      <3> HIDE DEF c
      <3> QED  BY <3>2, <3>3, <3>4, <3>5
    <2> QED  BY <1>8, <2>1 DEF Honest
  <1>14. Exact(r2)
    <2> SUFFICES ASSUME r2.start = Upto(r2) PROVE Exact(r2)
      BY DEF Exact
    <2>1. /\ r.start = Upto(r) /\ r.objs = LiveObjs(r.start)
          /\ \A s : Are(r2, s) = Are(r, s) /\ Are(r, s) \subseteq r.objs
          /\ \A s : o \in Are(r, s) <=> heap[o].status = s
      <3>1. r.start = Upto(r)
        BY <1>7 DEF Frame
      <3>2. /\ r.objs = LiveObjs(r.start) /\ \A s : Are(r, s) \subseteq r.objs
            /\ \A s, q : q \in Are(r, s) <=> q \in r.objs /\ heap[q].status = s
        BY <3>1, ReadNow
      <3> QED  BY <1>1, <1>8, <3>1, <3>2
    <2>2. ASSUME NEW k \in 1 .. 5, NEW s, s = HealthPasses[k]
          PROVE  r2.tally[s] = Cardinality(Tallied(r2, Are(r2, s), k))
      <3>1. r.tally[s] = Cardinality(Tallied(r, Are(r, s), k))
        BY <2>1, <2>2 DEF RepInv, Exact
      <3>2. Are(r2, s) = Are(r, s) /\ Are(r, s) \subseteq 1 .. Len(heap)
        BY <1>1, <2>1
      <3>3. /\ r2.tally[s] = IF k = r.step /\ heap[o].status = s THEN r.tally[s] + 1
                                                                ELSE r.tally[s]
            /\ Cardinality(Tallied(r2, Are(r, s), k)) =
                  IF k = r.step /\ o \in Are(r, s)
                  THEN Cardinality(Tallied(r, Are(r, s), k)) + 1
                  ELSE Cardinality(Tallied(r, Are(r, s), k))
        BY <1>12, <2>2, <3>2
      <3> QED  BY <2>1, <3>1, <3>2, <3>3
    <2>3. r2.okRooms = RoomsOf(Tallied(r2, Are(r2, "ok"), 6))
      <3>1. r.okRooms = RoomsOf(Tallied(r, Are(r, "ok"), 6))
        BY <2>1 DEF RepInv, Exact
      <3>2. p = "rooms" <=> r.step = 6
        BY <1>0, <1>2 DEF HealthPasses
      <3>3. CASE r.step = 6
        <4>1. /\ Tallied(r, Are(r, "ok"), 6) = Are(r, "ok") \ r.left
              /\ Tallied(r2, Are(r, "ok"), 6) = Are(r, "ok") \ (r.left \ {o})
          BY <1>5, <3>3 DEF Tallied
        <4>2. Are(r, "ok") \ (r.left \ {o}) =
                 (Are(r, "ok") \ r.left) \cup (IF heap[o].status = "ok" THEN {o} ELSE {})
          BY <1>1, <2>1
        <4>3. r2.okRooms = r.okRooms \cup (IF heap[o].status = "ok" THEN {heap[o].room} ELSE {})
          BY <1>5, <3>2, <3>3 DEF ok
        <4> QED  BY <2>1, <3>1, <4>1, <4>2, <4>3 DEF RoomsOf
      <3>4. CASE r.step # 6
        <4>1. Tallied(r2, Are(r, "ok"), 6) = Tallied(r, Are(r, "ok"), 6)
          BY <1>5, <3>4 DEF Tallied
        <4> QED  BY <1>5, <2>1, <3>1, <3>2, <3>4, <4>1 DEF ok
      <3> QED  BY <3>3, <3>4
    <2> QED  BY <1>5, <2>1, <2>2, <2>3 DEF Exact
  <1> QED  BY <1>6, <1>8, <1>9, <1>10, <1>11, <1>13, <1>14 DEF RepInv

\* From one pass to the next, and to the end, nothing is counted twice.
LEMMA TallyKept ==
    ASSUME StoreInv, NEW r, RepInv(r), NEW r2, Frame(r, r2), r.call = "health",
           r2.tally = r.tally, r2.okRooms = r.okRooms, r2.plannedRooms = r.plannedRooms,
           r2.found = r.found,
           \A S : S \subseteq r.objs => \A k \in 1 .. 6 : Tallied(r2, S, k) = Tallied(r, S, k)
    PROVE  Honest(r2) /\ Exact(r2)
  <1>1. /\ r2.call = "health" /\ r2.objs = r.objs /\ r2.start = r.start
        /\ r.stage # "none" /\ (r2.start = Upto(r2) => r.start = Upto(r))
    BY DEF Frame
  <1>2. /\ \A s : /\ Was(r2, s) = Was(r, s) /\ Was(r, s) \subseteq r.objs
                  /\ Are(r2, s) = Are(r, s)
        /\ r2.start = Upto(r2) => \A s : Are(r, s) \subseteq r.objs
        /\ \A room \in r2.plannedRooms : \E q \in Was(r2, "planned") : heap[q].room = room
        /\ \A k \in 1 .. Len(r2.found) : r2.found[k] \in Was(r2, "planned")
    BY FrameFacts
  <1>3. Honest(r2)
    <2>1. ASSUME NEW k \in 1 .. 5, NEW s, s = HealthPasses[k]
          PROVE  r2.tally[s] <= Cardinality(Tallied(r2, Was(r2, s), k))
      <3>1. r.tally[s] <= Cardinality(Tallied(r, Was(r, s), k))
        BY <2>1 DEF RepInv, Honest
      <3>2. Tallied(r2, Was(r2, s), k) = Tallied(r, Was(r, s), k)
        BY <1>2
      <3> QED  BY <3>1, <3>2
    <2> QED  BY <1>2, <2>1 DEF Honest
  <1>4. Exact(r2)
    <2> SUFFICES ASSUME r2.start = Upto(r2) PROVE Exact(r2)
      BY DEF Exact
    <2>1. /\ r.objs = LiveObjs(r.start)
          /\ \A k \in 1 .. 5 : r.tally[HealthPasses[k]]
                                 = Cardinality(Tallied(r, Are(r, HealthPasses[k]), k))
          /\ r.okRooms = RoomsOf(Tallied(r, Are(r, "ok"), 6))
      BY <1>1 DEF RepInv, Exact
    <2>2. \A s : \A k \in 1 .. 6 : Tallied(r2, Are(r2, s), k) = Tallied(r, Are(r, s), k)
      BY <1>2
    <2> QED  BY <1>1, <2>1, <2>2 DEF Exact
  <1> QED  BY <1>3, <1>4

LEMMA KnownRooms ==
    ASSUME StoreInv, NEW n \in 0 .. Len(ops), NEW room, KnownAt(room, n)
    PROVE  room \in roomIds
  <1>1. PICK i \in 1 .. n : heap[ops[i].obj].room = room
    BY DEF KnownAt
  <1>2. i \in 1 .. Len(ops)
    BY <1>1 DEF StoreInv, ChainInv, TypeOK
  <1>3. ops[i].obj \in 1 .. Len(heap)
    BY <1>2 DEF StoreInv, ChainInv, HistoryMatchesMap
  <1> QED  BY <1>1, <1>3 DEF StoreInv, RoomsAreKnown

AfterHealthPass(r) ==
    [r EXCEPT !.step = r.step + 1, !.left = r.objs,
              !.rooms = IF HealthPasses[r.step + 1] = "rooms" THEN roomIds ELSE r.rooms]

LEMMA HealthPassKeeps ==
    ASSUME StoreInv, NEW r, RepInv(r), r.call = "health", r.stage = "read", r.left = {},
           r.step < 6, NEW r2, r2 = AfterHealthPass(r)
    PROVE  RepInv(r2)
  <1>1. /\ r \in RepState /\ Formed(r) /\ r.step \in 1 .. 5 /\ r.step + 1 \in 1 .. 6
        /\ r.objs \in SUBSET Nat
    <2>1. r \in RepState /\ Formed(r)
      BY DEF RepInv, Formed
    <2>2. r.step \in 1 .. 6 /\ r.objs \in SUBSET Nat
      BY <2>1 DEF RepState
    <2> QED  BY <2>1, <2>2
  <1> DEFINE ro == IF HealthPasses[r.step + 1] = "rooms" THEN roomIds ELSE r.rooms
             st == r.step + 1
  <1>2. ro \in SUBSET Rooms /\ st \in 1 .. 6
    BY <1>1 DEF RepState, StoreInv, ChainInv, TypeOK
  <1>3. r2 = [r EXCEPT !.step = st, !.left = r.objs, !.rooms = ro]
    BY DEF AfterHealthPass
  <1>4. st = 6 => ro = roomIds
    BY <1>1 DEF HealthPasses
  <1>5. st = r.step + 1
    OBVIOUS
  <1> HIDE DEF ro, st
  <1>6. /\ r2 \in RepState
        /\ r2.call = r.call /\ r2.stage = r.stage /\ r2.step = st /\ r2.start = r.start
        /\ r2.stop = r.stop /\ r2.objs = r.objs /\ r2.rooms = ro /\ r2.left = r.objs
        /\ r2.plannedRooms = r.plannedRooms /\ r2.found = r.found
        /\ r2.tally = r.tally /\ r2.okRooms = r.okRooms
    BY <1>1, <1>2, <1>3 DEF RepState
  <1>7. Formed(r2)
    BY <1>1, <1>6 DEF Formed, Ending
  <1>8. Frame(r, r2)
    BY <1>6 DEF Frame, Upto
  <1>9. Fresh(r2) /\ Covered(r2)
    BY <1>6, <1>8, FrameFacts
  <1>10. Listed(r2)
    <2> SUFFICES ASSUME r2.step = 6, NEW room \in Rooms, KnownAt(room, r2.start)
                 PROVE  room \in r2.rooms
      BY <1>6 DEF Listed
    <2>1. r.start \in 0 .. Len(ops)
      BY <1>1, InHand DEF StoreInv
    <2> QED  BY <1>4, <1>6, <2>1, KnownRooms
  <1>11. WholeRooms(r2)
    BY <1>6 DEF WholeRooms
  <1>12. Honest(r2) /\ Exact(r2)
    <2>1. ASSUME NEW S, S \subseteq r.objs, NEW k \in 1 .. 6
          PROVE  Tallied(r2, S, k) = Tallied(r, S, k)
      <3>1. CASE k = st
        BY <1>1, <1>5, <1>6, <2>1, <3>1 DEF Tallied
      <3>2. CASE k = r.step
        BY <1>1, <1>5, <1>6, <2>1, <3>2 DEF Tallied
      <3>3. CASE k # st /\ k # r.step
        BY <1>1, <1>5, <1>6, <2>1, <3>3 DEF Tallied
      <3> QED  BY <3>1, <3>2, <3>3
    <2> QED  BY <1>6, <1>8, <2>1, TallyKept
  <1> QED  BY <1>7, <1>9, <1>10, <1>11, <1>12 DEF RepInv

\* The report with its result computed.
Closed(r, ta) == [r EXCEPT !.step = 1, !.tally = ta,
                           !.stage = Rest[r.call][1], !.stop = Len(ops)]

LEMMA ClosedFields ==
    ASSUME StoreInv, NEW r, RepInv(r), r.stage = "read", r.call # "snapshot" => r.left = {},
           r.call = "coverage" => r.scan = {}, NEW ta \in [Status -> Nat],
           NEW r2, r2 = Closed(r, ta)
    PROVE  /\ Formed(r2) /\ Frame(r, r2) /\ Fresh(r2)
           /\ r2.stage \in Ending /\ r2.step = 1 /\ r2.rooms = r.rooms /\ r2.left = r.left
           /\ r2.plannedRooms = r.plannedRooms /\ r2.found = r.found /\ r2.scan = r.scan
           /\ r2.tally = ta /\ r2.okRooms = r.okRooms /\ r2.counted = r.counted
  <1>1. /\ r \in RepState /\ Formed(r) /\ ChainInv
        /\ r.call \in {"health", "coverage", "drift", "snapshot"}
    <2>1. r \in RepState /\ Formed(r) /\ ChainInv
      BY DEF RepInv, Formed, StoreInv
    <2>2. r.call \in {"none", "health", "coverage", "drift", "snapshot"}
      BY <2>1 DEF RepState
    <2>3. r.call # "none"
      BY <2>1 DEF Formed
    <2> QED  BY <2>1, <2>2, <2>3
  <1>2. Len(ops) \in Nat
    BY <1>1, InHand
  <1> DEFINE st == Rest[r.call][1]
             n == Len(ops)
  <1>3. st \in Ending /\ st = Rest[r.call][1] /\ 1 \in DOMAIN Rest[r.call]
    BY <1>1 DEF Rest, Ending
  <1>4. r2 = [r EXCEPT !.step = 1, !.tally = ta, !.stage = st, !.stop = n] /\ n \in Nat
    BY <1>2 DEF Closed
  <1>5. n = Len(ops) /\ r.start <= n /\ r.start \in Nat
    BY <1>1, <1>2, InHand
  <1> HIDE DEF st, n
  <1>6. st \in {"none", "read", "record", "publish", "audit", "done"} /\ st # "none" /\ st # "read"
    BY <1>3 DEF Ending
  <1>7. /\ r2 \in RepState
        /\ r2.call = r.call /\ r2.stage = st /\ r2.step = 1 /\ r2.start = r.start
        /\ r2.stop = n /\ r2.objs = r.objs /\ r2.rooms = r.rooms /\ r2.left = r.left
        /\ r2.plannedRooms = r.plannedRooms /\ r2.found = r.found /\ r2.scan = r.scan
        /\ r2.tally = ta /\ r2.okRooms = r.okRooms /\ r2.counted = r.counted
    <2>1. 1 \in 1 .. 6
      OBVIOUS
    <2>2. r2 \in RepState
      BY <1>1, <1>4, <1>6, <2>1 DEF RepState
    <2> QED  BY <1>1, <1>4, <2>2 DEF RepState
  <1>8. Formed(r2)
    <2>1. ItsDets(r2) = ItsDets(r)
      BY <1>7 DEF ItsDets, ItsRoom
    <2> QED  BY <1>1, <1>2, <1>3, <1>5, <1>6, <1>7, <2>1 DEF Formed
  <1>9. Frame(r, r2)
    BY <1>5, <1>6, <1>7 DEF Frame, Upto
  <1> QED  BY <1>3, <1>6, <1>7, <1>8, <1>9 DEF Fresh

LEMMA HealthDoneKeeps ==
    ASSUME StoreInv, NEW r, RepInv(r), r.call = "health", r.stage = "read", r.left = {},
           r.step = 6, NEW r2, r2 = Closed(r, r.tally)
    PROVE  RepInv(r2)
  <1>1. r.tally \in [Status -> Nat]
    BY DEF RepInv, Formed, RepState
  <1>2. /\ Formed(r2) /\ Frame(r, r2) /\ Fresh(r2)
        /\ r2.stage \in Ending /\ r2.step = 1 /\ r2.rooms = r.rooms /\ r2.left = r.left
        /\ r2.plannedRooms = r.plannedRooms /\ r2.found = r.found
        /\ r2.tally = r.tally /\ r2.okRooms = r.okRooms
    BY <1>1, ClosedFields
  <1>3. Covered(r2) /\ WholeRooms(r2)
    BY <1>2, FrameFacts
  <1>4. Listed(r2)
    BY <1>2 DEF RepInv, Listed, Frame
  <1>5. Honest(r2) /\ Exact(r2)
    <2>1. r2.stage # "read"
      BY <1>2 DEF Ending
    <2>2. ASSUME NEW S, S \subseteq r.objs, NEW k \in 1 .. 6
          PROVE  Tallied(r2, S, k) = Tallied(r, S, k)
      BY <2>1 DEF Tallied
    <2> QED  BY <1>2, <2>2, TallyKept
  <1> QED  BY <1>2, <1>3, <1>4, <1>5 DEF RepInv

-----------------------------------------------------------------------------
(* The steps of validate_coverage.                                         *)

AfterCoverageRead(r) ==
    LET o == First(r.scan)
        hit == heap[o].status = (IF r.step = 2 THEN "ok" ELSE "planned")
    IN [r EXCEPT
          !.scan = IF hit THEN {} ELSE r.scan \ {o},
          !.okRooms = IF hit /\ r.step = 2 THEN r.okRooms \cup {ItsRoom(r)} ELSE r.okRooms,
          !.plannedRooms = IF hit /\ r.step = 3 /\ ItsRoom(r) \notin r.okRooms
                           THEN r.plannedRooms \cup {ItsRoom(r)} ELSE r.plannedRooms]

LEMMA CoverageReadKeeps ==
    ASSUME StoreInv, NEW r, RepInv(r), r.call = "coverage", r.stage = "read", r.scan # {},
           NEW r2, r2 = AfterCoverageRead(r)
    PROVE  RepInv(r2)
  <1>0. PICK o, room : o = First(r.scan) /\ room = ItsRoom(r)
    OBVIOUS
  <1>1. /\ r \in RepState /\ Len(heap) \in Nat /\ Formed(r)
        /\ r.left \subseteq r.objs /\ r.objs \subseteq 1 .. Len(heap) /\ r.step \in {2, 3}
        /\ o \in r.scan /\ r.scan \subseteq ItsDets(r) /\ o \in ItsDets(r) /\ o \in r.left
        /\ heap[o].room = room /\ o \in r.objs /\ room \in Rooms
    <2>1. ChainInv /\ Formed(r)
      BY DEF RepInv, StoreInv
    <2>2. /\ r \in RepState /\ Len(heap) \in Nat
          /\ r.left \subseteq r.objs /\ r.objs \subseteq 1 .. Len(heap)
          /\ r.left # {} => ItsRoom(r) \in Rooms
      BY <2>1, InHand
    <2>3. r.scan \subseteq ItsDets(r) /\ r.step \in {2, 3}
      BY <2>1 DEF Formed
    <2>4. o \in r.scan
      <3>1. r.scan \subseteq Nat
        BY <2>2 DEF RepState
      <3> QED  BY <1>0, <3>1, FirstIsIn
    <2>5. o \in r.left /\ heap[o].room = room
      BY <1>0, <2>3, <2>4 DEF ItsDets
    <2> QED  BY <1>0, <2>1, <2>2, <2>3, <2>4, <2>5
  <1> DEFINE ishit == heap[o].status = (IF r.step = 2 THEN "ok" ELSE "planned")
             sc == IF ishit THEN {} ELSE r.scan \ {o}
             ok == IF ishit /\ r.step = 2 THEN r.okRooms \cup {room} ELSE r.okRooms
             pl == IF ishit /\ r.step = 3 /\ room \notin r.okRooms
                   THEN r.plannedRooms \cup {room} ELSE r.plannedRooms
  <1>2. PICK hit \in BOOLEAN : hit <=> ishit
    OBVIOUS
  <1>3. /\ sc = (IF hit THEN {} ELSE r.scan \ {o})
        /\ ok = (IF hit /\ r.step = 2 THEN r.okRooms \cup {room} ELSE r.okRooms)
        /\ pl = (IF hit /\ r.step = 3 /\ room \notin r.okRooms
                 THEN r.plannedRooms \cup {room} ELSE r.plannedRooms)
    BY <1>2
  <1>4. /\ r.step = 2 => (hit <=> heap[o].status = "ok")
        /\ r.step = 3 => (hit <=> heap[o].status = "planned")
    BY <1>1, <1>2
  <1>5. r2 = [r EXCEPT !.scan = sc, !.okRooms = ok, !.plannedRooms = pl]
    BY <1>0 DEF AfterCoverageRead
  <1> HIDE DEF ishit, sc, ok, pl
  <1>6. sc \in SUBSET Nat /\ ok \in SUBSET Rooms /\ pl \in SUBSET Rooms
    BY <1>1, <1>3 DEF RepState
  <1>7. /\ r2 \in RepState
        /\ r2.call = r.call /\ r2.stage = r.stage /\ r2.step = r.step /\ r2.start = r.start
        /\ r2.stop = r.stop /\ r2.objs = r.objs /\ r2.rooms = r.rooms /\ r2.left = r.left
        /\ r2.found = r.found /\ r2.tally = r.tally
        /\ r2.scan = sc /\ r2.okRooms = ok /\ r2.plannedRooms = pl
    BY <1>1, <1>5, <1>6 DEF RepState
  <1>8. ItsDets(r2) = ItsDets(r)
    BY <1>7 DEF ItsDets, ItsRoom
  <1>9. Formed(r2)
    BY <1>1, <1>3, <1>7, <1>8 DEF Formed, Ending
  <1>10. Frame(r, r2)
    BY <1>7 DEF Frame, Upto
  <1>11. /\ Fresh(r2)
         /\ \A s : /\ Was(r2, s) = Was(r, s) /\ Was(r, s) \subseteq r.objs
                   /\ Are(r2, s) = Are(r, s)
         /\ \A k \in 1 .. Len(r2.found) : r2.found[k] \in Was(r2, "planned")
         /\ Listed(r2) /\ WholeRooms(r2)
    BY <1>7, <1>10, FrameFacts
  <1>12. Covered(r2)
    <2> SUFFICES ASSUME NEW q \in r2.okRooms
                 PROVE  \E p \in r2.objs, n \in r2.start .. Upto(r2) :
                          heap[p].room = q /\ LiveAt(p, n) /\ StatusAt(p, n) = {"ok"}
      BY DEF Covered
    <2>1. CASE q \in r.okRooms
      BY <1>10, <2>1 DEF RepInv, Covered, Frame
    <2>2. CASE q \notin r.okRooms
      <3>1. q = room /\ heap[o].status = "ok"
        BY <1>3, <1>4, <1>7, <2>2
      <3>2. o \in r.objs
        BY <1>1
      <3>3. PICK n \in r.start .. Upto(r) : LiveAt(o, n) /\ StatusAt(o, n) = {heap[o].status}
        BY <3>2, ReadNow
      <3> QED  BY <1>1, <1>10, <3>1, <3>3 DEF Frame
    <2> QED  BY <2>1, <2>2
  <1>13. Honest(r2)
    <2> SUFFICES ASSUME NEW q \in r2.plannedRooms
                 PROVE  \E p \in Was(r2, "planned") : heap[p].room = q
      BY <1>7, <1>11 DEF Honest
    <2>1. CASE q \in r.plannedRooms
      BY <1>11, <2>1 DEF RepInv, Honest
    <2>2. CASE q \notin r.plannedRooms
      <3>1. q = room /\ heap[o].status = "planned"
        BY <1>3, <1>4, <1>7, <2>2
      <3>2. o \in Was(r, "planned")
        BY <1>1, <3>1, ReadNow
      <3> QED  BY <1>1, <1>11, <3>1, <3>2
    <2> QED  BY <2>1, <2>2
  <1>14. Exact(r2)
    <2> SUFFICES ASSUME r2.start = Upto(r2)
                 PROVE  /\ r2.objs = LiveObjs(r2.start)
                        /\ r2.okRooms = RoomsOf(Are(r2, "ok") \cap OkSeen(r2))
                        /\ r2.plannedRooms =
                              RoomsOf(Are(r2, "planned") \cap PlannedSeen(r2)) \ r2.okRooms
      BY <1>7 DEF Exact
    <2>1. /\ r.start = Upto(r) /\ r.objs = LiveObjs(r.start) /\ r2.start = r.start
          /\ r.okRooms = RoomsOf(Are(r, "ok") \cap OkSeen(r))
          /\ r.plannedRooms = RoomsOf(Are(r, "planned") \cap PlannedSeen(r)) \ r.okRooms
      BY <1>10 DEF Frame, RepInv, Exact
    <2>2. \A s : Are(r, s) \subseteq r.objs /\ (o \in Are(r, s) <=> heap[o].status = s)
      <3>1. \A s, q : q \in Are(r, s) <=> q \in r.objs /\ heap[q].status = s
        BY <2>1, ReadNow
      <3> QED  BY <1>1, <3>1
    <2>3. CASE r.step = 2
      <3>1. PlannedSeen(r2) = PlannedSeen(r) /\ PlannedSeen(r) = r.objs \ r.left
        BY <1>7, <2>3 DEF PlannedSeen
      <3>2. /\ OkSeen(r) = (r.objs \ r.left) \cup (ItsDets(r) \ r.scan)
            /\ OkSeen(r2) = (r.objs \ r.left) \cup (ItsDets(r) \ sc)
        BY <1>7, <1>8, <2>3 DEF OkSeen
      <3>3. \A q \in ItsDets(r) : heap[q].room = room
        BY <1>0 DEF ItsDets
      <3>4. \A q \in r.objs \ r.left : heap[q].room # room
        BY <1>1 DEF RepInv, WholeRooms
      <3>5. CASE hit
        <4>1. /\ r2.okRooms = r.okRooms \cup {room} /\ r2.plannedRooms = r.plannedRooms
              /\ sc = {} /\ o \in Are(r, "ok")
          BY <1>3, <1>4, <1>7, <2>2, <2>3, <3>5
        <4>2. RoomsOf(Are(r, "ok") \cap OkSeen(r2)) = r.okRooms \cup {room}
          <5>1. \A q \in Are(r, "ok") \cap OkSeen(r2) :
                   q \in Are(r, "ok") \cap OkSeen(r) \/ heap[q].room = room
            BY <3>2, <3>3, <4>1
          <5>2. Are(r, "ok") \cap OkSeen(r) \subseteq Are(r, "ok") \cap OkSeen(r2)
            BY <3>2, <4>1
          <5>3. o \in Are(r, "ok") \cap OkSeen(r2)
            BY <1>1, <3>2, <4>1
          <5> QED  BY <1>1, <2>1, <5>1, <5>2, <5>3 DEF RoomsOf
        <4>3. \A q \in RoomsOf(Are(r, "planned") \cap PlannedSeen(r)) : q # room
          BY <3>1, <3>4 DEF RoomsOf
        <4>4. r.plannedRooms = RoomsOf(Are(r, "planned") \cap PlannedSeen(r)) \ r2.okRooms
          BY <2>1, <4>1, <4>3
        <4> QED  BY <1>7, <1>11, <2>1, <3>1, <4>1, <4>2, <4>4
      <3>6. CASE ~hit
        <4>1. /\ r2.okRooms = r.okRooms /\ r2.plannedRooms = r.plannedRooms
              /\ sc = r.scan \ {o} /\ o \notin Are(r, "ok")
          BY <1>3, <1>4, <1>7, <2>2, <2>3, <3>6
        <4>2. Are(r, "ok") \cap OkSeen(r2) = Are(r, "ok") \cap OkSeen(r)
          BY <3>2, <4>1
        <4> QED  BY <1>7, <1>11, <2>1, <3>1, <4>1, <4>2
      <3> QED  BY <3>5, <3>6
    <2>4. CASE r.step = 3
      <3>1. OkSeen(r2) = OkSeen(r) /\ r2.okRooms = r.okRooms
        BY <1>3, <1>7, <1>8, <2>4 DEF OkSeen
      <3>2. /\ PlannedSeen(r) = (r.objs \ r.left) \cup (ItsDets(r) \ r.scan)
            /\ PlannedSeen(r2) = (r.objs \ r.left) \cup (ItsDets(r) \ sc)
        BY <1>7, <1>8, <2>4 DEF PlannedSeen
      <3>3. \A q \in ItsDets(r) : heap[q].room = room
        BY <1>0 DEF ItsDets
      <3>4. r2.plannedRooms = RoomsOf(Are(r, "planned") \cap PlannedSeen(r2)) \ r.okRooms
        <4>1. CASE hit
          <5>1. /\ sc = {} /\ o \in Are(r, "planned")
                /\ r2.plannedRooms = IF room \notin r.okRooms THEN r.plannedRooms \cup {room}
                                                             ELSE r.plannedRooms
            BY <1>3, <1>4, <1>7, <2>2, <2>4, <4>1
          <5>2. \A q \in Are(r, "planned") \cap PlannedSeen(r2) :
                   q \in Are(r, "planned") \cap PlannedSeen(r) \/ heap[q].room = room
            BY <3>2, <3>3, <5>1
          <5>3. Are(r, "planned") \cap PlannedSeen(r)
                   \subseteq Are(r, "planned") \cap PlannedSeen(r2)
            BY <3>2, <5>1
          <5>4. o \in Are(r, "planned") \cap PlannedSeen(r2)
            BY <1>1, <3>2, <5>1
          <5>5. RoomsOf(Are(r, "planned") \cap PlannedSeen(r2)) =
                   RoomsOf(Are(r, "planned") \cap PlannedSeen(r)) \cup {room}
            BY <1>1, <5>2, <5>3, <5>4 DEF RoomsOf
          <5> QED  BY <2>1, <5>1, <5>5
        <4>2. CASE ~hit
          <5>1. /\ r2.plannedRooms = r.plannedRooms
                /\ sc = r.scan \ {o} /\ o \notin Are(r, "planned")
            BY <1>3, <1>4, <1>7, <2>2, <2>4, <4>2
          <5>2. Are(r, "planned") \cap PlannedSeen(r2) = Are(r, "planned") \cap PlannedSeen(r)
            BY <3>2, <5>1
          <5> QED  BY <2>1, <5>1, <5>2
        <4> QED  BY <4>1, <4>2
      <3> QED  BY <1>7, <1>11, <2>1, <3>1, <3>4
    <2> QED  BY <1>1, <2>3, <2>4
  <1> QED  BY <1>9, <1>11, <1>12, <1>13, <1>14 DEF RepInv

\* A step that moves no room between what was seen and what was not.
LEMMA ScanKept ==
    ASSUME StoreInv, NEW r, RepInv(r), NEW r2, Frame(r, r2), r.call = "coverage",
           r2.okRooms = r.okRooms, r2.plannedRooms = r.plannedRooms, r2.found = r.found,
           OkSeen(r2) = OkSeen(r), PlannedSeen(r2) = PlannedSeen(r)
    PROVE  Covered(r2) /\ Honest(r2) /\ Exact(r2)
  <1>1. /\ \A s : Was(r2, s) = Was(r, s) /\ Are(r2, s) = Are(r, s)
        /\ Covered(r2)
        /\ \A room \in r2.plannedRooms : \E q \in Was(r2, "planned") : heap[q].room = room
        /\ \A k \in 1 .. Len(r2.found) : r2.found[k] \in Was(r2, "planned")
    BY FrameFacts
  <1>2. r2.call = "coverage" /\ r2.objs = r.objs /\ r2.start = r.start
    BY DEF Frame
  <1>3. Honest(r2)
    BY <1>1, <1>2 DEF Honest
  <1>4. Exact(r2)
    <2> SUFFICES ASSUME r2.start = Upto(r2)
                 PROVE  /\ r2.objs = LiveObjs(r2.start)
                        /\ r2.okRooms = RoomsOf(Are(r2, "ok") \cap OkSeen(r2))
                        /\ r2.plannedRooms =
                              RoomsOf(Are(r2, "planned") \cap PlannedSeen(r2)) \ r2.okRooms
      BY <1>2 DEF Exact
    <2>1. /\ r.objs = LiveObjs(r.start)
          /\ r.okRooms = RoomsOf(Are(r, "ok") \cap OkSeen(r))
          /\ r.plannedRooms = RoomsOf(Are(r, "planned") \cap PlannedSeen(r)) \ r.okRooms
      BY DEF Frame, RepInv, Exact
    <2> QED  BY <1>1, <1>2, <2>1
  <1> QED  BY <1>1, <1>3, <1>4

AfterCoverageScan(r) ==
    [r EXCEPT !.step = IF r.step = 3 THEN 1 ELSE r.step + 1,
              !.scan = IF r.step = 3 THEN {} ELSE ItsDets(r),
              !.left = IF r.step = 3 THEN r.left \ ItsDets(r) ELSE r.left]

LEMMA CoverageScanKeeps ==
    ASSUME StoreInv, NEW r, RepInv(r), r.call = "coverage", r.stage = "read", r.scan = {},
           r.left # {}, NEW r2, r2 = AfterCoverageScan(r)
    PROVE  RepInv(r2)
  <1>1. /\ r \in RepState /\ Formed(r) /\ r.left \subseteq r.objs
        /\ r.objs \subseteq 1 .. Len(heap) /\ r.step \in {1, 2, 3}
        /\ ItsDets(r) \subseteq r.left
    <2>1. ChainInv /\ Formed(r)
      BY DEF RepInv, StoreInv
    <2>2. /\ r \in RepState /\ r.left \subseteq r.objs /\ r.objs \subseteq 1 .. Len(heap)
      BY <2>1, InHand
    <2>3. r.step \in {1, 2, 3}
      BY <2>1 DEF Formed
    <2> QED  BY <2>1, <2>2, <2>3 DEF ItsDets
  <1> DEFINE st == IF r.step = 3 THEN 1 ELSE r.step + 1
             sc == IF r.step = 3 THEN {} ELSE ItsDets(r)
             lf == IF r.step = 3 THEN r.left \ ItsDets(r) ELSE r.left
  <1>2. st \in 1 .. 6 /\ st \in {1, 2, 3} /\ (st = 1 <=> r.step = 3) /\ (st # 1 => st = r.step + 1)
    BY <1>1
  <1>3. sc \in SUBSET Nat /\ lf \in SUBSET Nat
    BY <1>1 DEF RepState
  <1>4. r2 = [r EXCEPT !.step = st, !.scan = sc, !.left = lf]
    BY DEF AfterCoverageScan
  <1>5. /\ st = 1 => sc = {} /\ lf = r.left \ ItsDets(r)
        /\ st # 1 => sc = ItsDets(r) /\ lf = r.left
    BY <1>2
  <1> HIDE DEF st, sc, lf
  <1>6. /\ r2 \in RepState
        /\ r2.call = r.call /\ r2.stage = r.stage /\ r2.step = st /\ r2.start = r.start
        /\ r2.stop = r.stop /\ r2.objs = r.objs /\ r2.rooms = r.rooms /\ r2.left = lf
        /\ r2.found = r.found /\ r2.tally = r.tally
        /\ r2.scan = sc /\ r2.okRooms = r.okRooms /\ r2.plannedRooms = r.plannedRooms
    BY <1>1, <1>2, <1>3, <1>4 DEF RepState
  <1>7. st # 1 => ItsDets(r2) = ItsDets(r)
    BY <1>5, <1>6 DEF ItsDets, ItsRoom
  <1>8. Formed(r2)
    <2>1. r2.scan \subseteq ItsDets(r2) /\ r2.left \subseteq r.objs
      BY <1>1, <1>5, <1>6, <1>7
    <2>2. (r2.left = {} => st = 1) /\ (r2.scan # {} => st # 1)
      BY <1>5, <1>6
    <2> QED  BY <1>1, <1>2, <1>6, <2>1, <2>2 DEF Formed, Ending
  <1>9. Frame(r, r2)
    BY <1>6 DEF Frame, Upto
  <1>10. Fresh(r2) /\ Listed(r2)
    BY <1>6, <1>9, FrameFacts
  <1>11. WholeRooms(r2)
    <2> SUFFICES ASSUME NEW o \in r2.left, NEW p \in r2.objs, heap[p].room = heap[o].room
                 PROVE  p \in r2.left
      BY DEF WholeRooms
    <2>1. o \in r.left /\ p \in r.left
      BY <1>1, <1>5, <1>6 DEF RepInv, WholeRooms
    <2>2. (o \in ItsDets(r)) <=> (p \in ItsDets(r))
      BY <2>1 DEF ItsDets
    <2> QED  BY <1>5, <1>6, <2>1, <2>2
  <1>12. Covered(r2) /\ Honest(r2) /\ Exact(r2)
    <2>1. OkSeen(r2) = OkSeen(r) /\ PlannedSeen(r2) = PlannedSeen(r)
      <3>1. CASE r.step = 1
        BY <1>1, <1>2, <1>5, <1>6, <1>7, <3>1 DEF OkSeen, PlannedSeen
      <3>2. CASE r.step = 2
        BY <1>1, <1>2, <1>5, <1>6, <1>7, <3>2 DEF OkSeen, PlannedSeen
      <3>3. CASE r.step = 3
        <4>1. /\ OkSeen(r) = (r.objs \ r.left) \cup ItsDets(r)
              /\ PlannedSeen(r) = (r.objs \ r.left) \cup ItsDets(r)
          BY <3>3 DEF OkSeen, PlannedSeen
        <4>2. /\ OkSeen(r2) = r.objs \ (r.left \ ItsDets(r))
              /\ PlannedSeen(r2) = r.objs \ (r.left \ ItsDets(r))
          BY <1>2, <1>5, <1>6, <3>3 DEF OkSeen, PlannedSeen
        <4> QED  BY <1>1, <4>1, <4>2
      <3> QED  BY <1>1, <3>1, <3>2, <3>3
    <2> QED  BY <1>6, <1>9, <2>1, ScanKept
  <1> QED  BY <1>8, <1>10, <1>11, <1>12 DEF RepInv

LEMMA CoverageDoneKeeps ==
    ASSUME StoreInv, NEW r, RepInv(r), r.call = "coverage", r.stage = "read", r.left = {},
           NEW r2, r2 = Closed(r, r.tally)
    PROVE  r.step = 1 /\ RepInv(r2)
  <1>1. r.tally \in [Status -> Nat] /\ r.step = 1 /\ r.scan = {}
    <2>1. r \in RepState /\ Formed(r)
      BY DEF RepInv, Formed
    <2>2. r.step = 1 /\ r.scan = {}
      BY <2>1 DEF Formed
    <2> QED  BY <2>1, <2>2 DEF RepState
  <1>2. /\ Formed(r2) /\ Frame(r, r2) /\ Fresh(r2)
        /\ r2.stage \in Ending /\ r2.step = 1 /\ r2.rooms = r.rooms /\ r2.left = r.left
        /\ r2.plannedRooms = r.plannedRooms /\ r2.found = r.found /\ r2.scan = r.scan
        /\ r2.okRooms = r.okRooms
    BY <1>1, ClosedFields
  <1>3. WholeRooms(r2)
    BY <1>2, FrameFacts
  <1>4. Listed(r2)
    BY <1>2 DEF RepInv, Listed, Frame
  <1>5. Covered(r2) /\ Honest(r2) /\ Exact(r2)
    <2>1. OkSeen(r2) = OkSeen(r) /\ PlannedSeen(r2) = PlannedSeen(r)
      BY <1>1, <1>2 DEF OkSeen, PlannedSeen, Frame
    <2> QED  BY <1>2, <2>1, ScanKept
  <1> QED  BY <1>1, <1>2, <1>3, <1>4, <1>5 DEF RepInv

-----------------------------------------------------------------------------
(* The steps of detect_drift.                                              *)

AfterDriftRead(r) ==
    LET o == First(r.left) IN
    [r EXCEPT !.left = r.left \ {o},
              !.found = IF heap[o].status = "planned" THEN Append(r.found, o) ELSE r.found]

LEMMA DriftReadKeeps ==
    ASSUME StoreInv, NEW r, RepInv(r), r.call = "drift", r.stage = "read", r.left # {},
           NEW r2, r2 = AfterDriftRead(r)
    PROVE  RepInv(r2)
  <1>0. PICK o : o = First(r.left)
    OBVIOUS
  <1>1. /\ r \in RepState /\ Len(heap) \in Nat /\ Formed(r)
        /\ r.left \subseteq r.objs /\ r.objs \subseteq 1 .. Len(heap)
        /\ o \in r.left /\ o \in r.objs /\ o \in Nat
    <2>1. ChainInv /\ Formed(r)
      BY DEF RepInv, StoreInv
    <2>2. /\ r \in RepState /\ Len(heap) \in Nat
          /\ r.left \subseteq r.objs /\ r.objs \subseteq 1 .. Len(heap)
          /\ o \in r.left
      BY <1>0, <2>1, InHand
    <2> QED  BY <2>1, <2>2
  <1>2. r.found \in Seq(Nat) /\ r.left \in SUBSET Nat
    BY <1>1 DEF RepState
  <1> DEFINE fo == IF heap[o].status = "planned" THEN Append(r.found, o) ELSE r.found
  <1>3. fo \in Seq(Nat) /\ r.left \ {o} \in SUBSET Nat
    BY <1>1, <1>2
  <1>4. r2 = [r EXCEPT !.left = r.left \ {o}, !.found = fo]
    BY <1>0 DEF AfterDriftRead
  <1>5. /\ Len(r.found) \in Nat
        /\ Len(fo) = IF heap[o].status = "planned" THEN Len(r.found) + 1 ELSE Len(r.found)
        /\ \A k \in 1 .. Len(fo) : fo[k] = IF k \in 1 .. Len(r.found) THEN r.found[k] ELSE o
        /\ heap[o].status # "planned" => fo = r.found
    <2>1. CASE heap[o].status = "planned"
      <3>1. fo = Append(r.found, o)
        BY <2>1
      <3> QED  BY <1>1, <1>2, <2>1, <3>1, AppendProperties
    <2>2. CASE heap[o].status # "planned"
      <3>1. fo = r.found
        BY <2>2
      <3> QED  BY <1>2, <2>2, <3>1, LenProperties
    <2> QED  BY <2>1, <2>2
  <1> HIDE DEF fo
  <1>6. /\ r2 \in RepState
        /\ r2.call = r.call /\ r2.stage = r.stage /\ r2.step = r.step /\ r2.start = r.start
        /\ r2.stop = r.stop /\ r2.objs = r.objs /\ r2.rooms = r.rooms
        /\ r2.plannedRooms = r.plannedRooms /\ r2.okRooms = r.okRooms
        /\ r2.left = r.left \ {o} /\ r2.found = fo
    BY <1>1, <1>3, <1>4 DEF RepState
  <1>7. Formed(r2)
    BY <1>1, <1>6 DEF Formed, Ending
  <1>8. Frame(r, r2)
    BY <1>6 DEF Frame, Upto
  <1>9. /\ Fresh(r2) /\ Covered(r2)
        /\ \A s : /\ Was(r2, s) = Was(r, s) /\ Was(r, s) \subseteq r.objs
                  /\ Are(r2, s) = Are(r, s)
        /\ \A room \in r2.plannedRooms : \E q \in Was(r2, "planned") : heap[q].room = room
    BY <1>6, <1>8, FrameFacts
  <1>10. Listed(r2) /\ WholeRooms(r2)
    BY <1>6 DEF Listed, WholeRooms
  <1>11. Honest(r2)
    <2> SUFFICES ASSUME NEW k \in 1 .. Len(fo) PROVE fo[k] \in Was(r, "planned")
      BY <1>6, <1>9 DEF Honest
    <2>1. CASE k \in 1 .. Len(r.found)
      BY <1>5, <2>1 DEF RepInv, Honest
    <2>2. CASE k \notin 1 .. Len(r.found)
      <3>1. heap[o].status = "planned" /\ fo[k] = o
        BY <1>5, <2>2
      <3>2. o \in r.objs
        BY <1>1
      <3> QED  BY <3>1, <3>2, ReadNow
    <2> QED  BY <2>1, <2>2
  <1>12. Exact(r2)
    <2> SUFFICES ASSUME r2.start = Upto(r2)
                 PROVE  /\ r2.objs = LiveObjs(r2.start)
                        /\ Len(fo) = Cardinality(Are(r2, "planned") \ (r.left \ {o}))
      BY <1>6 DEF Exact
    <2>1. /\ r.start = Upto(r) /\ r.objs = LiveObjs(r.start)
          /\ Len(r.found) = Cardinality(Are(r, "planned") \ r.left)
      BY <1>8 DEF Frame, RepInv, Exact
    <2>2. /\ Are(r, "planned") \subseteq r.objs
          /\ o \in Are(r, "planned") <=> heap[o].status = "planned"
      <3>1. /\ \A s : Are(r, s) \subseteq r.objs
            /\ \A s, q : q \in Are(r, s) <=> q \in r.objs /\ heap[q].status = s
        BY <2>1, ReadNow
      <3> QED  BY <1>1, <3>1
    <2>3. IsFiniteSet(Are(r, "planned"))
      <3>1. Are(r, "planned") \subseteq 1 .. Len(heap)
        BY <1>1, <2>2
      <3> QED  BY <1>1, <3>1, ObjectsAreFinite
    <2>4. Cardinality(Are(r, "planned") \ (r.left \ {o})) =
             IF o \in Are(r, "planned") THEN Cardinality(Are(r, "planned") \ r.left) + 1
                                        ELSE Cardinality(Are(r, "planned") \ r.left)
      BY <1>1, <2>3, CountOne
    <2> QED  BY <1>5, <1>6, <1>9, <2>1, <2>2, <2>4
  <1> QED  BY <1>7, <1>9, <1>10, <1>11, <1>12 DEF RepInv

\* The end of detect_drift, with a drift found or without one.
Over(r) == [r EXCEPT !.stage = "done", !.stop = Len(ops)]

LEMMA DriftEndKeeps ==
    ASSUME StoreInv, NEW r, RepInv(r), r.call = "drift", r.left = {}, NEW r2,
           Frame(r, r2), Formed(r2), r2.left = r.left, r2.found = r.found,
           r2.okRooms = r.okRooms, r2.plannedRooms = r.plannedRooms
    PROVE  RepInv(r2)
  <1>0. WholeRooms(r2)
    BY DEF WholeRooms
  <1>1. /\ Fresh(r2) /\ Covered(r2)
        /\ \A s : Was(r2, s) = Was(r, s) /\ Are(r2, s) = Are(r, s)
        /\ \A room \in r2.plannedRooms : \E q \in Was(r2, "planned") : heap[q].room = room
        /\ \A k \in 1 .. Len(r2.found) : r2.found[k] \in Was(r2, "planned")
    BY FrameFacts
  <1>2. r2.call = "drift" /\ r2.objs = r.objs /\ r2.start = r.start
    BY DEF Frame
  <1>3. Listed(r2) /\ Honest(r2)
    BY <1>1, <1>2 DEF Listed, Honest
  <1>4. Exact(r2)
    <2> SUFFICES ASSUME r2.start = Upto(r2)
                 PROVE  /\ r2.objs = LiveObjs(r2.start)
                        /\ Len(r2.found) = Cardinality(Are(r2, "planned") \ r2.left)
      BY <1>2 DEF Exact
    <2>1. /\ r.objs = LiveObjs(r.start)
          /\ Len(r.found) = Cardinality(Are(r, "planned") \ r.left)
      BY DEF Frame, RepInv, Exact
    <2> QED  BY <1>1, <1>2, <2>1
  <1> QED  BY <1>0, <1>1, <1>3, <1>4 DEF RepInv

LEMMA DriftDoneKeeps ==
    ASSUME StoreInv, NEW r, RepInv(r), r.call = "drift", r.stage = "read", r.left = {}
    PROVE  /\ r.step = 1
           /\ \A r2 : r2 = Over(r) \/ r2 = Closed(r, r.tally) => RepInv(r2)
  <1>1. /\ r.tally \in [Status -> Nat] /\ r.step = 1 /\ r \in RepState /\ Formed(r)
        /\ r.start \in 0 .. Len(ops) /\ Len(ops) \in Nat
    <2>1. r \in RepState /\ Formed(r) /\ ChainInv
      BY DEF RepInv, Formed, StoreInv
    <2>2. r.step = 1
      BY <2>1 DEF Formed
    <2>3. r.start \in 0 .. Len(ops) /\ Len(ops) \in Nat
      BY <2>1, InHand
    <2> QED  BY <2>1, <2>2, <2>3 DEF RepState
  <1>2. ASSUME NEW r2, r2 = Closed(r, r.tally) PROVE RepInv(r2)
    <2>1. /\ Formed(r2) /\ Frame(r, r2) /\ r2.left = r.left
          /\ r2.plannedRooms = r.plannedRooms /\ r2.found = r.found /\ r2.okRooms = r.okRooms
      BY <1>1, <1>2, ClosedFields
    <2> QED  BY <2>1, DriftEndKeeps
  <1>3. ASSUME NEW r2, r2 = Over(r) PROVE RepInv(r2)
    <2> DEFINE n == Len(ops)
    <2>1. r2 = [r EXCEPT !.stage = "done", !.stop = n] /\ n \in Nat /\ n = Len(ops)
      BY <1>1, <1>3 DEF Over
    <2> HIDE DEF n
    <2>2. /\ r2 \in RepState
          /\ r2.call = r.call /\ r2.stage = "done" /\ r2.step = r.step /\ r2.start = r.start
          /\ r2.stop = n /\ r2.objs = r.objs /\ r2.left = r.left
          /\ r2.plannedRooms = r.plannedRooms /\ r2.found = r.found
          /\ r2.okRooms = r.okRooms
      BY <1>1, <2>1 DEF RepState
    <2>3. Formed(r2)
      BY <1>1, <2>1, <2>2 DEF Formed, Ending
    <2>4. Frame(r, r2)
      BY <2>1, <2>2 DEF Frame, Upto
    <2> QED  BY <2>2, <2>3, <2>4, DriftEndKeeps
  <1> QED  BY <1>1, <1>2, <1>3

-----------------------------------------------------------------------------
(* The steps of capture_snapshot.                                          *)

AfterSnapshotCount(r) == [r EXCEPT !.step = 2, !.counted = Cardinality(InMap)]

\* What a snapshot's reader sees; it has no rooms and no list.
LEMMA SnapshotKept ==
    ASSUME StoreInv, NEW r, RepInv(r), r.call = "snapshot", NEW r2, Frame(r, r2), Formed(r2),
           r2.left = r.left, r2.found = r.found,
           r2.okRooms = r.okRooms, r2.plannedRooms = r.plannedRooms,
           r2.start = Upto(r2) =>
               /\ r2.stage # "read" \/ r2.step = 2 => r2.counted = Cardinality(r.objs)
               /\ r2.stage # "read" => r2.tally["ok"] = Cardinality(Are(r, "ok"))
    PROVE  RepInv(r2)
  <1>1. /\ Fresh(r2) /\ Covered(r2) /\ WholeRooms(r2)
        /\ \A s : Was(r2, s) = Was(r, s) /\ Are(r2, s) = Are(r, s)
        /\ \A room \in r2.plannedRooms : \E q \in Was(r2, "planned") : heap[q].room = room
        /\ \A k \in 1 .. Len(r2.found) : r2.found[k] \in Was(r2, "planned")
    BY FrameFacts
  <1>2. r2.call = "snapshot" /\ r2.objs = r.objs /\ r2.start = r.start
    BY DEF Frame
  <1>3. Listed(r2) /\ Honest(r2)
    BY <1>1, <1>2 DEF Listed, Honest
  <1>4. Exact(r2)
    <2> SUFFICES ASSUME r2.start = Upto(r2)
                 PROVE  /\ r2.objs = LiveObjs(r2.start)
                        /\ r2.stage # "read" \/ r2.step = 2 => r2.counted = Cardinality(r2.objs)
                        /\ r2.stage # "read" => r2.tally["ok"] = Cardinality(Are(r2, "ok"))
      BY <1>2 DEF Exact
    <2>1. r.objs = LiveObjs(r.start)
      BY DEF Frame, RepInv, Exact
    <2> QED  BY <1>1, <1>2, <2>1
  <1> QED  BY <1>1, <1>3, <1>4 DEF RepInv

\* The objects in the map, which the last reads of a snapshot count.
LEMMA MapNow ==
    ASSUME StoreInv, NEW r, RepInv(r), r.stage = "read"
    PROVE  /\ Cardinality(InMap) \in Nat
           /\ \A s : Cardinality(Having(InMap, s)) \in Nat
           /\ r.start = Upto(r) => /\ r.objs = InMap
                                   /\ \A s : Having(InMap, s) = Are(r, s)
  <1>1. Len(heap) \in Nat
    BY DEF StoreInv, ChainInv, TypeOK
  <1>2. InMap \subseteq 1 .. Len(heap) /\ \A s : Having(InMap, s) \subseteq 1 .. Len(heap)
    BY DEF InMap, Having
  <1>3. Cardinality(InMap) \in Nat /\ \A s : Cardinality(Having(InMap, s)) \in Nat
    BY <1>1, <1>2, ObjectsAreFinite
  <1>4. ASSUME r.start = Upto(r)
        PROVE  r.objs = InMap /\ \A s : Having(InMap, s) = Are(r, s)
    <2>1. /\ r.objs = InMap /\ \A s : Are(r, s) \subseteq r.objs
          /\ \A s, o : o \in Are(r, s) <=> o \in r.objs /\ heap[o].status = s
      BY <1>4, ReadNow
    <2> QED  BY <2>1 DEF Having
  <1> QED  BY <1>3, <1>4

LEMMA SnapshotCountKeeps ==
    ASSUME StoreInv, NEW r, RepInv(r), r.call = "snapshot", r.stage = "read", r.step = 1,
           NEW r2, r2 = AfterSnapshotCount(r)
    PROVE  RepInv(r2)
  <1>1. r \in RepState /\ Formed(r)
    BY DEF RepInv, Formed
  <1> DEFINE n == Cardinality(InMap)
  <1>2. n \in Nat /\ (r.start = Upto(r) => n = Cardinality(r.objs))
    BY MapNow
  <1>3. r2 = [r EXCEPT !.step = 2, !.counted = n]
    BY DEF AfterSnapshotCount
  <1> HIDE DEF n
  <1>4. /\ r2 \in RepState
        /\ r2.call = r.call /\ r2.stage = r.stage /\ r2.step = 2 /\ r2.start = r.start
        /\ r2.stop = r.stop /\ r2.objs = r.objs /\ r2.left = r.left
        /\ r2.plannedRooms = r.plannedRooms /\ r2.found = r.found
        /\ r2.okRooms = r.okRooms /\ r2.counted = n
    <2>1. 2 \in 1 .. 6
      OBVIOUS
    <2>2. r2 \in RepState
      BY <1>1, <1>2, <1>3, <2>1 DEF RepState
    <2> QED  BY <1>1, <1>3, <2>2 DEF RepState
  <1>5. Formed(r2)
    BY <1>1, <1>4 DEF Formed, Ending
  <1>6. Frame(r, r2)
    BY <1>4 DEF Frame, Upto
  <1>7. r2.start = Upto(r2) => r.start = Upto(r)
    BY <1>6 DEF Frame
  <1> QED  BY <1>2, <1>4, <1>5, <1>6, <1>7, SnapshotKept

LEMMA SnapshotDoneKeeps ==
    ASSUME StoreInv, NEW r, RepInv(r), r.call = "snapshot", r.stage = "read", r.step = 2,
           NEW ta, ta = [r.tally EXCEPT !["ok"] = Cardinality(Having(InMap, "ok"))],
           NEW r2, r2 = Closed(r, ta)
    PROVE  RepInv(r2)
  <1>1. r.tally \in [Status -> Nat] /\ "ok" \in Status
    BY DEF RepInv, Formed, RepState, Status
  <1> DEFINE n == Cardinality(Having(InMap, "ok"))
  <1>2. n \in Nat /\ (r.start = Upto(r) => n = Cardinality(Are(r, "ok")))
    BY MapNow
  <1>3. ta = [r.tally EXCEPT !["ok"] = n]
    OBVIOUS
  <1> HIDE DEF n
  <1>4. ta \in [Status -> Nat] /\ ta["ok"] = n
    BY <1>1, <1>2, <1>3
  <1>5. /\ Formed(r2) /\ Frame(r, r2) /\ r2.left = r.left
        /\ r2.plannedRooms = r.plannedRooms /\ r2.found = r.found /\ r2.okRooms = r.okRooms
        /\ r2.tally = ta /\ r2.counted = r.counted
    BY <1>4, ClosedFields
  <1>6. r2.start = Upto(r2) => r.start = Upto(r)
    BY <1>5 DEF Frame
  <1>7. r.start = Upto(r) => r.counted = Cardinality(r.objs)
    BY DEF RepInv, Exact
  <1> QED  BY <1>2, <1>4, <1>5, <1>6, <1>7, SnapshotKept

-----------------------------------------------------------------------------
(* The end of a report and its beginning.                                  *)

AfterStage(r) == [r EXCEPT !.step = r.step + 1, !.stage = Rest[r.call][r.step + 1]]

LEMMA NextStageKeeps ==
    ASSUME StoreInv, NEW r, RepInv(r), r.stage \in Ending, NEW r2, r2 = AfterStage(r)
    PROVE  RepInv(r2)
  <1>1. /\ r \in RepState /\ Formed(r) /\ r.step \in 1 .. 6
        /\ r.call \in {"health", "coverage", "drift", "snapshot"}
        /\ r.step \in DOMAIN Rest[r.call] /\ Rest[r.call][r.step] = r.stage
        /\ r.stage # "read" /\ r.stage # "none"
    <2>1. r \in RepState /\ Formed(r)
      BY DEF RepInv, Formed
    <2>2. /\ r.call \in {"none", "health", "coverage", "drift", "snapshot"}
          /\ r.step \in 1 .. 6
      BY <2>1 DEF RepState
    <2>3. /\ r.call # "none" /\ r.step \in DOMAIN Rest[r.call] /\ Rest[r.call][r.step] = r.stage
          /\ r.stage # "read" /\ r.stage # "none"
      BY <2>1 DEF Formed, Ending
    <2> QED  BY <2>1, <2>2, <2>3
  <1> DEFINE st == r.step + 1
             sg == Rest[r.call][r.step + 1]
  <1>2. /\ st \in 1 .. 6 /\ sg \in {"record", "publish", "audit", "done"}
        /\ sg \in Ending => st \in DOMAIN Rest[r.call] /\ Rest[r.call][st] = sg
    <2>1. CASE r.call = "health"
      BY <1>1, <2>1 DEF Rest, Ending
    <2>2. CASE r.call = "coverage"
      BY <1>1, <2>2 DEF Rest, Ending
    <2>3. CASE r.call = "drift"
      BY <1>1, <2>3 DEF Rest, Ending
    <2>4. CASE r.call = "snapshot"
      BY <1>1, <2>4 DEF Rest, Ending
    <2> QED  BY <1>1, <2>1, <2>2, <2>3, <2>4
  <1>3. r2 = [r EXCEPT !.step = st, !.stage = sg]
    BY DEF AfterStage
  <1> HIDE DEF st, sg
  <1>4. /\ r2 \in RepState
        /\ r2.call = r.call /\ r2.stage = sg /\ r2.step = st /\ r2.start = r.start
        /\ r2.stop = r.stop /\ r2.objs = r.objs /\ r2.left = r.left /\ r2.rooms = r.rooms
        /\ r2.plannedRooms = r.plannedRooms /\ r2.found = r.found /\ r2.scan = r.scan
        /\ r2.okRooms = r.okRooms /\ r2.counted = r.counted /\ r2.tally = r.tally
    <2>1. sg \in {"none", "read", "record", "publish", "audit", "done"}
      BY <1>2
    <2>2. r2 \in RepState
      BY <1>1, <1>2, <1>3, <2>1 DEF RepState
    <2> QED  BY <1>1, <1>3, <2>2 DEF RepState
  <1>5. /\ sg # "none" /\ sg # "read" /\ Upto(r2) = Upto(r)
        /\ \A s : Was(r2, s) = Was(r, s) /\ Are(r2, s) = Are(r, s)
    <2>1. sg # "none" /\ sg # "read" /\ Upto(r2) = Upto(r)
      BY <1>1, <1>2, <1>4 DEF Upto
    <2> QED  BY <1>4, <2>1 DEF Was, Are
  <1>6. \A S, k : Tallied(r2, S, k) = Tallied(r, S, k)
    BY <1>1, <1>4, <1>5 DEF Tallied
  <1>7. r.call = "coverage" => OkSeen(r2) = OkSeen(r) /\ PlannedSeen(r2) = PlannedSeen(r)
    <2> SUFFICES ASSUME r.call = "coverage"
                 PROVE  OkSeen(r2) = OkSeen(r) /\ PlannedSeen(r2) = PlannedSeen(r)
      OBVIOUS
    <2>1. r.left = {}
      BY <1>1 DEF Formed
    <2>2. ItsDets(r) = {} /\ ItsDets(r2) = {}
      BY <1>4, <2>1 DEF ItsDets
    <2> QED  BY <1>4, <2>2 DEF OkSeen, PlannedSeen
  <1>8. Formed(r2)
    <2>1. ItsDets(r2) = ItsDets(r)
      BY <1>4 DEF ItsDets, ItsRoom
    <2> QED  BY <1>1, <1>2, <1>4, <1>5, <2>1 DEF Formed, Ending
  <1>9. Fresh(r2) /\ WholeRooms(r2)
    BY <1>4, <1>5 DEF RepInv, Fresh, WholeRooms
  <1>10. Covered(r2)
    BY <1>4, <1>5 DEF RepInv, Covered
  <1>11. Listed(r2)
    BY <1>1, <1>4 DEF RepInv, Listed
  <1>12. Honest(r2)
    BY <1>4, <1>5, <1>6 DEF RepInv, Honest
  <1>13. Exact(r2)
    <2> SUFFICES ASSUME r.start = Upto(r) PROVE Exact(r2)
      BY <1>4, <1>5 DEF Exact
    <2>1. r.objs = LiveObjs(r.start)
      BY <1>1 DEF RepInv, Exact
    <2>2. CASE r.call = "health"
      <3>1. /\ \A k \in 1 .. 5 : r.tally[HealthPasses[k]]
                                   = Cardinality(Tallied(r, Are(r, HealthPasses[k]), k))
            /\ r.okRooms = RoomsOf(Tallied(r, Are(r, "ok"), 6))
        BY <1>1, <2>2 DEF RepInv, Exact
      <3> QED  BY <1>4, <1>5, <1>6, <2>1, <2>2, <3>1 DEF Exact
    <2>3. CASE r.call = "coverage"
      <3>1. /\ r.okRooms = RoomsOf(Are(r, "ok") \cap OkSeen(r))
            /\ r.plannedRooms = RoomsOf(Are(r, "planned") \cap PlannedSeen(r)) \ r.okRooms
        BY <1>1, <2>3 DEF RepInv, Exact
      <3> QED  BY <1>4, <1>5, <1>7, <2>1, <2>3, <3>1 DEF Exact
    <2>4. CASE r.call = "drift"
      <3>1. Len(r.found) = Cardinality(Are(r, "planned") \ r.left)
        BY <1>1, <2>4 DEF RepInv, Exact
      <3> QED  BY <1>4, <1>5, <2>1, <2>4, <3>1 DEF Exact
    <2>5. CASE r.call = "snapshot"
      <3>1. r.counted = Cardinality(r.objs) /\ r.tally["ok"] = Cardinality(Are(r, "ok"))
        BY <1>1, <2>5 DEF RepInv, Exact
      <3> QED  BY <1>4, <1>5, <2>1, <2>5, <3>1 DEF Exact
    <2> QED  BY <1>1, <2>2, <2>3, <2>4, <2>5
  <1> QED  BY <1>8, <1>9, <1>10, <1>11, <1>12, <1>13 DEF RepInv

Begun(r, call) ==
    [r EXCEPT !.call = call, !.stage = "read", !.start = Len(ops), !.objs = InMap,
              !.left = InMap, !.rooms = IF call = "coverage" THEN roomIds ELSE {},
              !.unresolved = Len(drifts)]

LEMMA BeginKeeps ==
    ASSUME StoreInv, Len(drifts) \in Nat, NEW r, RepInv(r), r.stage = "none",
           NEW call \in {"health", "coverage", "drift", "snapshot"},
           NEW r2, r2 = Begun(r, call)
    PROVE  RepInv(r2)
  <1>1. /\ r \in RepState /\ r = NoReport /\ ChainInv
        /\ r.okRooms = {} /\ r.plannedRooms = {} /\ r.found = <<>> /\ r.scan = {}
        /\ r.step = 1 /\ r.stop = 0 /\ r.tally = [s \in Status |-> 0]
    <2>1. r \in RepState /\ r = NoReport /\ ChainInv
      BY DEF RepInv, Formed, StoreInv
    <2> QED  BY <2>1 DEF NoReport
  <1>2. Len(ops) \in Nat /\ Len(heap) \in Nat /\ roomIds \in SUBSET Rooms
    BY <1>1 DEF ChainInv, TypeOK
  <1> DEFINE n == Len(ops)
             M == InMap
             ro == IF call = "coverage" THEN roomIds ELSE {}
             u == Len(drifts)
  <1>3. n \in Nat /\ M \in SUBSET Nat /\ ro \in SUBSET Rooms /\ u \in Nat
    BY <1>2 DEF InMap
  <1>4. r2 = [r EXCEPT !.call = call, !.stage = "read", !.start = n, !.objs = M, !.left = M,
                       !.rooms = ro, !.unresolved = u]
    BY DEF Begun
  <1>5. n = Len(ops) /\ M = InMap /\ (call = "coverage" => ro = roomIds)
    OBVIOUS
  <1> HIDE DEF n, M, ro, u
  <1>6. /\ r2 \in RepState
        /\ r2.call = call /\ r2.stage = "read" /\ r2.step = 1 /\ r2.start = n
        /\ r2.stop = 0 /\ r2.objs = M /\ r2.left = M /\ r2.rooms = ro
        /\ r2.plannedRooms = {} /\ r2.found = <<>> /\ r2.scan = {}
        /\ r2.okRooms = {} /\ r2.tally = [s \in Status |-> 0]
    <2>1. call \in {"none", "health", "coverage", "drift", "snapshot"}
      OBVIOUS
    <2>2. r2 = [call |-> call, stage |-> "read", step |-> 1, start |-> n, stop |-> 0,
                objs |-> M, rooms |-> ro, left |-> M, scan |-> {},
                tally |-> [s \in Status |-> 0], okRooms |-> {}, plannedRooms |-> {},
                found |-> <<>>, unresolved |-> u, counted |-> 0]
      BY <1>1, <1>4 DEF NoReport
    <2>3. 1 \in 1 .. 6 /\ <<>> \in Seq(Nat) /\ [s \in Status |-> 0] \in [Status -> Nat]
      OBVIOUS
    <2>4. r2 \in RepState
      BY <1>3, <2>1, <2>2, <2>3 DEF RepState
    <2> QED  BY <2>2, <2>4
  <1>7. M \subseteq 1 .. Len(heap)
    BY <1>5 DEF InMap
  <1>8. Formed(r2)
    <2>1. r2.objs \subseteq 1 .. Len(heap) /\ r2.left \subseteq r2.objs
          /\ r2.start <= Len(ops) /\ r2.stop <= Len(ops)
      BY <1>2, <1>5, <1>6, <1>7
    <2> QED  BY <1>6, <2>1 DEF Formed, Ending
  <1>9. Upto(r2) = n
    BY <1>5, <1>6 DEF Upto
  <1>10. \A o \in M : LiveAt(o, n) /\ StatusAt(o, n) = {heap[o].status}
    <2>1. \A o \in M : LiveAt(o, Len(ops))
      BY <1>5, <1>7, LiveNow
    <2>2. \A o \in M : StatusAt(o, Len(ops)) = {heap[o].status}
      BY <1>1, <1>7, StatusNow
    <2> QED  BY <1>5, <2>1, <2>2
  <1>11. Fresh(r2)
    <2>1. n \in n .. Len(ops)
      BY <1>3, <1>5
    <2> QED  BY <1>6, <1>10, <2>1 DEF Fresh
  <1>12. Covered(r2) /\ WholeRooms(r2)
    BY <1>6 DEF Covered, WholeRooms
  <1>13. Listed(r2)
    <2> SUFFICES ASSUME call = "coverage", NEW room \in Rooms, KnownAt(room, n)
                 PROVE  room \in ro
      BY <1>6 DEF Listed
    <2>1. n \in 0 .. Len(ops)
      BY <1>3, <1>5
    <2> QED  BY <1>5, <2>1, KnownRooms
  <1>14. \A S : S \subseteq M => \A k \in 1 .. 6 : Tallied(r2, S, k) = {}
    BY <1>6 DEF Tallied
  <1>15. Cardinality({}) = 0
    BY FS_EmptySet
  <1>16. \A k \in 1 .. 5 : r2.tally[HealthPasses[k]] = 0
    BY <1>6 DEF HealthPasses, Status
  <1>17. Honest(r2)
    <2>1. \A s : Was(r2, s) \subseteq M
      BY <1>6 DEF Was
    <2>2. \A k \in 1 .. 5 : Tallied(r2, Was(r2, HealthPasses[k]), k) = {}
      BY <1>14, <2>1
    <2>3. ASSUME NEW k \in 1 .. 5
          PROVE  r2.tally[HealthPasses[k]] <= Cardinality(Tallied(r2, Was(r2, HealthPasses[k]), k))
      <3>1. Cardinality(Tallied(r2, Was(r2, HealthPasses[k]), k)) = 0
        BY <1>15, <2>2
      <3>2. r2.tally[HealthPasses[k]] = 0
        BY <1>16
      <3> QED  BY <3>1, <3>2
    <2>4. Len(r2.found) = 0
      BY <1>6
    <2> QED  BY <1>6, <2>3, <2>4 DEF Honest
  <1>18. Exact(r2)
    <2>1. LiveObjs(n) = M
      BY <1>5, LiveNow DEF LiveObjs, InMap
    <2>2. \A s : Are(r2, s) \subseteq M
      BY <1>6, <2>1 DEF Are
    <2>3. \A k \in 1 .. 5 : Tallied(r2, Are(r2, HealthPasses[k]), k) = {}
      BY <1>14, <2>2
    <2>4. Tallied(r2, Are(r2, "ok"), 6) = {} /\ RoomsOf({}) = {}
      BY <1>14, <2>2 DEF RoomsOf
    <2>5. OkSeen(r2) = {} /\ PlannedSeen(r2) = {}
      BY <1>6 DEF OkSeen, PlannedSeen
    <2>6. Are(r2, "ok") \cap OkSeen(r2) = {} /\ Are(r2, "planned") \cap PlannedSeen(r2) = {}
          /\ Are(r2, "planned") \ r2.left = {}
      BY <1>6, <2>2, <2>5
    <2>7. Len(r2.found) = 0
      BY <1>6
    <2>8. ASSUME NEW k \in 1 .. 5
          PROVE  r2.tally[HealthPasses[k]] = Cardinality(Tallied(r2, Are(r2, HealthPasses[k]), k))
      <3>1. Cardinality(Tallied(r2, Are(r2, HealthPasses[k]), k)) = 0
        BY <1>15, <2>3
      <3> QED  BY <1>16, <3>1
    <2>9. /\ r2.okRooms = RoomsOf(Tallied(r2, Are(r2, "ok"), 6))
          /\ r2.okRooms = RoomsOf(Are(r2, "ok") \cap OkSeen(r2))
          /\ r2.plannedRooms = RoomsOf(Are(r2, "planned") \cap PlannedSeen(r2)) \ r2.okRooms
      BY <1>6, <2>4, <2>6
    <2>10. Len(r2.found) = Cardinality(Are(r2, "planned") \ r2.left)
      BY <1>15, <2>6, <2>7
    <2>11. r2.objs = LiveObjs(r2.start) /\ r2.stage = "read" /\ r2.step = 1
      BY <1>6, <2>1
    <2>12. \A k \in 1 .. 5 :
              r2.tally[HealthPasses[k]] = Cardinality(Tallied(r2, Are(r2, HealthPasses[k]), k))
      BY <2>8
    <2>13. ~(r2.stage # "read" \/ r2.step = 2)
      BY <2>11
    <2> QED  BY <2>9, <2>10, <2>11, <2>12, <2>13, Zenon DEF Exact
  <1> QED  BY <1>8, <1>11, <1>12, <1>13, <1>17, <1>18 DEF RepInv

-----------------------------------------------------------------------------
(* Every step of the twin and of every reporter.                           *)

ReportInv ==
    /\ StoreInv
    /\ rep \in [Reporters -> RepState] /\ drifts \in Seq(Nat)
    /\ \A t \in Reporters : RepInv(rep[t])

LEMMA ReportBegins == ReportInit => ReportInv
  <1> SUFFICES ASSUME ReportInit PROVE ReportInv
    OBVIOUS
  <1>1. ChainInv
    BY DEF ReportInit, TwinInit, ChainInv, TypeOK, MapMatchesHeap, HistoryMatchesMap,
           NoLostUpdate, NoObject
  <1>2. GoneIsRemoved /\ RoomsAreKnown
    BY DEF ReportInit, TwinInit, GoneIsRemoved, RoomsAreKnown
  <1>3. NoReport \in RepState
    <2>1. 1 \in 1 .. 6 /\ <<>> \in Seq(Nat) /\ [s \in Status |-> 0] \in [Status -> Nat]
      OBVIOUS
    <2> QED  BY <2>1 DEF NoReport, RepState
  <1>4. ASSUME NEW r, r = NoReport PROVE RepInv(r)
    <2>1. /\ r.call = "none" /\ r.stage = "none" /\ r.start = 0 /\ r.stop = 0
          /\ r.objs = {} /\ r.left = {} /\ r.okRooms = {} /\ r.plannedRooms = {}
          /\ r.found = <<>> /\ Len(ops) = 0
      BY <1>4 DEF NoReport, ReportInit, TwinInit
    <2>2. Formed(r)
      BY <1>3, <1>4, <2>1 DEF Formed, Ending
    <2>3. Fresh(r) /\ Covered(r) /\ Listed(r) /\ WholeRooms(r) /\ Exact(r)
      BY <2>1 DEF Fresh, Covered, Listed, WholeRooms, Exact
    <2>4. Honest(r)
      <3>1. Len(r.found) = 0
        BY <2>1
      <3> QED  BY <2>1, <3>1 DEF Honest
    <2> QED  BY <2>2, <2>3, <2>4 DEF RepInv
  <1>5. \A t \in Reporters : RepInv(rep[t])
    BY <1>4 DEF ReportInit
  <1> QED  BY <1>1, <1>2, <1>3, <1>5 DEF ReportInv, ReportInit, StoreInv

\* A step of a reporter leaves the twin itself alone.
LEMMA ReportIsQuiet ==
    ASSUME ReportInv, NEW t \in Reporters, (\E call \in Calls : Begin(t, call)) \/ Report(t)
    PROVE  /\ UNCHANGED store /\ TypeOK' /\ drifts' \in Seq(Nat)
           /\ t \notin Threads
  <1>0. TypeOK /\ drifts \in Seq(Nat) /\ t \notin Threads
    BY ReportersAssumption DEF ReportInv, StoreInv, ChainInv
  <1>1. ASSUME UNCHANGED twinVars PROVE UNCHANGED store /\ TypeOK'
    BY <1>0, <1>1 DEF twinVars, store, TypeOK
  <1>2. CASE \/ \E call \in Calls : Begin(t, call)
             \/ HealthRead(t) \/ HealthPass(t) \/ HealthDone(t)
             \/ CoverageRead(t) \/ CoverageScan(t) \/ CoverageDone(t)
             \/ DriftRead(t) \/ SnapshotCount(t) \/ SnapshotDone(t)
    <2>1. UNCHANGED <<twinVars, drifts>>
      BY <1>2 DEF Begin, HealthRead, HealthPass, HealthDone, CoverageRead, CoverageScan,
                  CoverageDone, DriftRead, SnapshotCount, SnapshotDone, ReadOnly
    <2> QED  BY <1>0, <1>1, <2>1
  <1>3. CASE DriftDone(t)
    <2>1. rep[t].found \in Seq(Nat)
      BY DEF ReportInv, RepState
    <2>2. UNCHANGED twinVars /\ drifts' = drifts \o rep[t].found
      BY <1>3 DEF DriftDone
    <2>3. drifts' \in Seq(Nat)
      BY <1>0, <2>1, <2>2, ConcatProperties
    <2> QED  BY <1>0, <1>1, <2>2, <2>3
  <1>4. 0 \in 0 .. Len(ops) /\ ops' = ops => 0 .. Len(ops') = 0 .. Len(ops)
    BY <1>0 DEF TypeOK
  <1>5. Len(ops) \in Nat /\ 0 \in 0 .. Len(ops)
    BY <1>0 DEF TypeOK
  <1>6. CASE ReportRecord(t)
    <2>1. events' \in Seq(0 .. Len(ops))
      BY <1>0, <1>5, <1>6, PushType DEF ReportRecord, TypeOK
    <2> QED  BY <1>0, <1>6, <2>1 DEF ReportRecord, TypeOK, store
  <1>7. CASE ReportPublish(t)
    <2>1. bus' \in Seq(0 .. Len(ops))
      BY <1>0, <1>5, <1>7 DEF ReportPublish, TypeOK
    <2> QED  BY <1>0, <1>7, <2>1 DEF ReportPublish, TypeOK, store
  <1>8. CASE ReportAudit(t)
    <2>1. audit' \in Seq(0 .. Len(ops))
      <3>1. audit' = audit \/ audit' = Append(audit, 0)
        BY <1>8 DEF ReportAudit
      <3>2. audit \in Seq(0 .. Len(ops)) /\ Append(audit, 0) \in Seq(0 .. Len(ops))
        BY <1>0, <1>5 DEF TypeOK
      <3> QED  BY <3>1, <3>2, Zenon
    <2> QED  BY <1>0, <1>8, <2>1 DEF ReportAudit, TypeOK, store
  <1> QED  BY <1>2, <1>3, <1>6, <1>7, <1>8 DEF Report

\* Each step of a reporter is one of those above, on its own report.
LEMMA ReportStepKeeps ==
    ASSUME ReportInv, NEW t \in Reporters, (\E call \in Calls : Begin(t, call)) \/ Report(t)
    PROVE  \E r2 : RepInv(r2) /\ rep' = [rep EXCEPT ![t] = r2]
  <1>0. PICK r : r = rep[t]
    OBVIOUS
  <1>1. /\ StoreInv /\ RepInv(r) /\ r \in RepState /\ Formed(r)
        /\ rep \in [Reporters -> RepState] /\ Len(drifts) \in Nat
    BY <1>0 DEF ReportInv, RepInv
  <1> DEFINE Becomes(x) == rep' = [rep EXCEPT ![t] = x]
  <1>2. ASSUME NEW call \in Calls, Begin(t, call) PROVE \E r2 : RepInv(r2) /\ Becomes(r2)
    <2>1. Becomes(Begun(r, call)) /\ r.stage = "none"
      BY <1>0, <1>1, <1>2 DEF Begin, Begun
    <2>2. RepInv(Begun(r, call))
      BY <1>1, <2>1, CallsAssumption, BeginKeeps
    <2> QED  BY <2>1, <2>2
  <1>3. CASE HealthRead(t)
    <2>0. r.call = "health" /\ r.stage = "read" /\ r.left # {}
      BY <1>0, <1>3 DEF HealthRead, Reading
    <2>1. Becomes(AfterHealthRead(r))
      <3> DEFINE o == First(r.left)
                 p == HealthPasses[r.step]
                 lf == r.left \ {o}
                 ta == [s \in Status |-> IF p = s /\ heap[o].status = s
                                         THEN r.tally[s] + 1 ELSE r.tally[s]]
                 ok == IF p = "rooms" /\ heap[o].status = "ok"
                       THEN r.okRooms \cup {heap[o].room} ELSE r.okRooms
      <3>1. rep' = [rep EXCEPT ![t].left = lf, ![t].tally = ta, ![t].okRooms = ok]
        BY <1>0, <1>1, <1>3 DEF HealthRead
      <3>2. AfterHealthRead(r) = [r EXCEPT !.left = lf, !.tally = ta, !.okRooms = ok]
        BY DEF AfterHealthRead
      <3> HIDE DEF lf, ta, ok
      <3> QED  BY <1>0, <1>1, <3>1, <3>2 DEF RepState
    <2>2. RepInv(AfterHealthRead(r))
      BY <1>1, <2>0, HealthReadKeeps
    <2> QED  BY <2>1, <2>2
  <1>4. CASE HealthPass(t)
    <2>1. Becomes(AfterHealthPass(r)) /\ r.call = "health" /\ r.stage = "read" /\ r.left = {}
          /\ r.step < 6
      BY <1>0, <1>1, <1>4 DEF HealthPass, AfterHealthPass, Reading, RepState, HealthPasses
    <2>2. RepInv(AfterHealthPass(r))
      BY <1>1, <2>1, HealthPassKeeps
    <2> QED  BY <2>1, <2>2
  <1>5. CASE HealthDone(t)
    <2>1. r.call = "health" /\ r.stage = "read" /\ r.left = {} /\ r.step = 6
      BY <1>0, <1>1, <1>5 DEF HealthDone, Reading, RepState, HealthPasses
    <2>2. Becomes(Closed(r, r.tally))
      BY <1>0, <1>1, <1>5 DEF HealthDone, Finish, Closed, RepState
    <2>3. RepInv(Closed(r, r.tally))
      BY <1>1, <2>1, HealthDoneKeeps
    <2> QED  BY <2>2, <2>3
  <1>6. CASE CoverageRead(t)
    <2>1. Becomes(AfterCoverageRead(r)) /\ r.call = "coverage" /\ r.stage = "read" /\ r.scan # {}
      BY <1>0, <1>1, <1>6 DEF CoverageRead, AfterCoverageRead, Reading, RepState, Room, ItsRoom
    <2>2. RepInv(AfterCoverageRead(r))
      BY <1>1, <2>1, CoverageReadKeeps
    <2> QED  BY <2>1, <2>2
  <1>7. CASE CoverageScan(t)
    <2>1. r.call = "coverage" /\ r.stage = "read" /\ r.scan = {} /\ r.left # {}
      BY <1>0, <1>7 DEF CoverageScan, Reading
    <2>2. Becomes(AfterCoverageScan(r))
      <3>1. RoomDets(t) = ItsDets(r)
        BY <1>0 DEF RoomDets, Room, ItsDets, ItsRoom
      <3> QED  BY <1>0, <1>1, <1>7, <3>1 DEF CoverageScan, AfterCoverageScan, RepState
    <2>3. RepInv(AfterCoverageScan(r))
      BY <1>1, <2>1, CoverageScanKeeps
    <2> QED  BY <2>2, <2>3
  <1>8. CASE CoverageDone(t)
    <2>1. r.call = "coverage" /\ r.stage = "read" /\ r.left = {}
      BY <1>0, <1>8 DEF CoverageDone, Reading
    <2>2. r.step = 1 /\ RepInv(Closed(r, r.tally))
      BY <1>1, <2>1, CoverageDoneKeeps
    <2>3. Becomes(Closed(r, r.tally))
      BY <1>0, <1>1, <1>8, <2>2 DEF CoverageDone, Finish, Closed, RepState
    <2> QED  BY <2>2, <2>3
  <1>9. CASE DriftRead(t)
    <2>1. Becomes(AfterDriftRead(r)) /\ r.call = "drift" /\ r.stage = "read" /\ r.left # {}
      BY <1>0, <1>1, <1>9 DEF DriftRead, AfterDriftRead, Reading, RepState
    <2>2. RepInv(AfterDriftRead(r))
      BY <1>1, <2>1, DriftReadKeeps
    <2> QED  BY <2>1, <2>2
  <1>10. CASE DriftDone(t)
    <2>1. r.call = "drift" /\ r.stage = "read" /\ r.left = {}
      BY <1>0, <1>10 DEF DriftDone, Reading
    <2>2. r.step = 1 /\ RepInv(Closed(r, r.tally)) /\ RepInv(Over(r))
      BY <1>1, <2>1, DriftDoneKeeps
    <2>3. Becomes(Closed(r, r.tally)) \/ Becomes(Over(r))
      <3>1. CASE r.found = <<>>
        <4>1. Becomes(Over(r))
          BY <1>0, <1>1, <1>10, <3>1 DEF DriftDone, Over, RepState
        <4> QED  BY <4>1
      <3>2. CASE r.found # <<>>
        <4>1. Finish(t, r)
          BY <1>0, <1>10, <3>2 DEF DriftDone
        <4>2. Becomes(Closed(r, r.tally))
          BY <1>1, <2>2, <4>1 DEF Finish, Closed, RepState
        <4> QED  BY <4>2
      <3> QED  BY <3>1, <3>2
    <2> QED  BY <2>2, <2>3
  <1>11. CASE SnapshotCount(t)
    <2>1. Becomes(AfterSnapshotCount(r)) /\ r.call = "snapshot" /\ r.stage = "read" /\ r.step = 1
      BY <1>0, <1>1, <1>11 DEF SnapshotCount, AfterSnapshotCount, Reading, RepState
    <2>2. RepInv(AfterSnapshotCount(r))
      BY <1>1, <2>1, SnapshotCountKeeps
    <2> QED  BY <2>1, <2>2
  <1>12. CASE SnapshotDone(t)
    <2>1. r.call = "snapshot" /\ r.stage = "read" /\ r.step = 2
      BY <1>0, <1>12 DEF SnapshotDone, Reading
    <2> DEFINE ta == [r.tally EXCEPT !["ok"] = Cardinality(Having(InMap, "ok"))]
    <2>2. Becomes(Closed(r, ta))
      BY <1>0, <1>1, <1>12 DEF SnapshotDone, Finish, Closed, RepState
    <2>3. RepInv(Closed(r, ta))
      BY <1>1, <2>1, SnapshotDoneKeeps
    <2> QED  BY <2>2, <2>3
  <1>13. CASE ReportRecord(t) \/ ReportPublish(t) \/ ReportAudit(t)
    <2>1. Becomes(AfterStage(r)) /\ r.stage \in Ending
      BY <1>0, <1>1, <1>13 DEF ReportRecord, ReportPublish, ReportAudit, NextStage, AfterStage,
                               RepState, Ending
    <2>2. RepInv(AfterStage(r))
      BY <1>1, <2>1, NextStageKeeps
    <2> QED  BY <2>1, <2>2
  <1> QED  BY <1>2, <1>3, <1>4, <1>5, <1>6, <1>7, <1>8, <1>9, <1>10, <1>11, <1>12, <1>13
           DEF Report

LEMMA ReportNextKeeps ==
    ASSUME ReportInv, [ReportNext]_reportVars
    PROVE  ReportInv'
  <1>0. /\ StoreInv /\ ChainInv /\ TypeOK /\ rep \in [Reporters -> RepState]
        /\ \A t \in Reporters : RepInv(rep[t])
    BY DEF ReportInv, StoreInv, ChainInv
  <1>1. ASSUME UNCHANGED store, TypeOK', NEW f \in [Reporters -> RepState], rep' = f,
               \A t \in Reporters : RepInv(f[t]), drifts' \in Seq(Nat)
        PROVE  ReportInv'
    <2>1. StoreInv'
      BY <1>0, <1>1, QuietKeepsStoreInv
    <2>2. ASSUME NEW t \in Reporters PROVE RepInv(rep[t])'
      <3>1. PICK r : r = f[t]
        OBVIOUS
      <3>2. RepInv(r)'
        BY <1>1, <3>1, QuietKeepsReport
      <3>3. rep'[t] = r
        BY <1>1, <3>1
      <3> QED  BY <3>2, <3>3
    <2> QED  BY <1>1, <2>1, <2>2 DEF ReportInv
  <1>2. ASSUME NEW t \in Reporters, (\E call \in Calls : Begin(t, call)) \/ Report(t)
        PROVE  ReportInv'
    <2>1. UNCHANGED store /\ TypeOK' /\ drifts' \in Seq(Nat)
      BY <1>2, ReportIsQuiet
    <2>2. PICK r2 : RepInv(r2) /\ rep' = [rep EXCEPT ![t] = r2]
      BY <1>2, ReportStepKeeps
    <2>3. r2 \in RepState
      BY <2>2 DEF RepInv, Formed
    <2>4. PICK f : f = [rep EXCEPT ![t] = r2]
      OBVIOUS
    <2>5. f \in [Reporters -> RepState] /\ rep' = f /\ \A u \in Reporters : RepInv(f[u])
      BY <1>0, <2>2, <2>3, <2>4
    <2> QED  BY <1>1, <2>1, <2>5
  <1>3. ASSUME TwinNext, UNCHANGED <<rep, drifts>> PROVE ReportInv'
    <2>1. CASE \E t \in Threads : ClientCall(t)
      <3>1. PICK t \in Threads : ClientCall(t)
        BY <2>1
      <3>2. TypeOK'
        BY <1>0, <3>1, CallType
      <3>3. ChainInv'
        BY <1>0, <3>1, <3>2, CallKeepsChain
      <3>4. PICK op \in Op, d \in Detectors : Change(op, d)
        BY <1>0, <3>1, CallChanges
      <3>5. StoreInv'
        BY <1>0, <3>3, <3>4, ChangeKeepsStoreInv
      <3>6. ASSUME NEW t1 \in Reporters PROVE RepInv(rep[t1])'
        <4>1. PICK r : r = rep[t1]
          OBVIOUS
        <4>2. RepInv(r)'
          BY <1>0, <3>4, <4>1, ChangeKeepsReport
        <4>3. rep'[t1] = r
          BY <1>3, <4>1
        <4> QED  BY <4>2, <4>3
      <3> QED  BY <1>3, <3>5, <3>6 DEF ReportInv
    <2>2. CASE \E t \in Threads : Emit(t)
      <3>1. UNCHANGED store /\ TypeOK'
        BY <1>0, <2>2, EmitType, EmitKeepsStore
      <3> QED  BY <1>0, <1>1, <1>3, <3>1 DEF ReportInv
    <2> QED  BY <1>3, <2>1, <2>2 DEF TwinNext
  <1>4. CASE UNCHANGED reportVars
    <2>1. UNCHANGED store /\ rep' = rep /\ drifts' = drifts
      BY <1>4 DEF reportVars, twinVars, store
    <2>2. TypeOK'
      BY <1>0, <1>4 DEF reportVars, twinVars, TypeOK
    <2> QED  BY <1>0, <1>1, <2>1, <2>2 DEF ReportInv
  <1> QED  BY <1>2, <1>3, <1>4 DEF ReportNext

LEMMA ReportInvariant == ReportSpec => []ReportInv
  BY ReportBegins, ReportNextKeeps, PTL DEF ReportSpec

\* The passes of health_report count every status once.
LEMMA EveryStatusHasItsPass ==
    \A s \in Status : \E k \in 1 .. 5 : HealthPasses[k] = s
  BY DEF Status, HealthPasses

LEMMA ComputedFacts ==
    ASSUME ReportInv, NEW t \in Reporters, Computed(t), NEW r, r = rep[t]
    PROVE  /\ RepInv(r) /\ Formed(r) /\ r.stage # "read" /\ r.stage # "none"
           /\ Upto(r) = r.stop /\ r.start \in 0 .. Len(ops) /\ Len(ops) \in Nat
           /\ r.objs \subseteq 1 .. Len(heap) /\ (r.call # "snapshot" => r.left = {})
  <1>1. RepInv(r) /\ Formed(r) /\ ChainInv
    BY DEF ReportInv, RepInv, StoreInv
  <1>2. r.stage \in Ending \cup {"done"}
    BY DEF Computed, Ending
  <1>3. r.stage # "read" /\ r.stage # "none"
    BY <1>2 DEF Ending
  <1>4. r.call # "snapshot" => r.left = {}
    BY <1>1, <1>2 DEF Formed
  <1>5. Upto(r) = r.stop
    BY <1>3 DEF Upto
  <1>6. r.start \in 0 .. Len(ops) /\ Len(ops) \in Nat /\ r.objs \subseteq 1 .. Len(heap)
    BY <1>1, InHand
  <1> QED  BY <1>1, <1>3, <1>4, <1>5, <1>6

\* validate_coverage and health_report never hide a gap: a room that was in the
\* twin when the call began and had no OK detector at any instant of the call is
\* listed, whatever the other threads did to the objects being read.
THEOREM GapsAreReported == ReportSpec => []NoSilentGap
  <1>1. ReportInv => NoSilentGap
    <2> SUFFICES ASSUME ReportInv, NEW t \in Reporters, RoomReport(t), NEW room \in Rooms,
                        KnownAt(room, rep[t].start),
                        \A n \in During(t) : ~CoveredAt(room, n)
                 PROVE  room \in Gaps(rep[t])
      BY DEF NoSilentGap
    <2>1. PICK r : r = rep[t]
      OBVIOUS
    <2>2. /\ RepInv(r) /\ r.stage # "read" /\ Upto(r) = r.stop
          /\ r.objs \subseteq 1 .. Len(heap)
      BY <2>1, ComputedFacts DEF RoomReport
    <2>3. r.call \in {"health", "coverage"}
      BY <2>1 DEF RoomReport
    <2>4. room \in r.rooms
      BY <2>1, <2>2, <2>3 DEF RepInv, Listed
    <2>5. room \notin r.okRooms
      <3> SUFFICES ASSUME room \in r.okRooms PROVE FALSE
        OBVIOUS
      <3>1. PICK o \in r.objs, n \in r.start .. Upto(r) :
               heap[o].room = room /\ LiveAt(o, n) /\ StatusAt(o, n) = {"ok"}
        BY <2>2 DEF RepInv, Covered
      <3>2. n \in During(t) /\ o \in 1 .. Len(heap)
        BY <2>1, <2>2, <3>1 DEF During
      <3> QED  BY <3>1, <3>2 DEF CoveredAt
    <2> QED  BY <2>1, <2>4, <2>5 DEF Gaps
  <1> QED  BY <1>1, ReportInvariant, PTL

\* No report invents a status: what it counts or lists was the status of a copied
\* object at some instant of the call.
THEOREM ReportsAreTrue == ReportSpec => []ReportsWhatWas
  <1>1. ReportInv => ReportsWhatWas
    <2> SUFFICES ASSUME ReportInv PROVE ReportsWhatWas
      OBVIOUS
    <2> SUFFICES ASSUME NEW t \in Reporters, Computed(t), NEW r, r = rep[t]
                 PROVE  /\ r.okRooms \subseteq {heap[o].room : o \in Was(r, "ok")}
                        /\ r.plannedRooms \subseteq {heap[o].room : o \in Was(r, "planned")}
                        /\ {r.found[k] : k \in 1 .. Len(r.found)} \subseteq Was(r, "planned")
                        /\ r.call = "health" =>
                              \A s \in Status : r.tally[s] <= Cardinality(Was(r, s))
      <3>1. ASSUME NEW u \in Reporters, Computed(u), NEW s
            PROVE  Was(rep[u], s) =
                      {o \in rep[u].objs : \E n \in During(u) : StatusAt(o, n) = {s}}
        <4>1. Upto(rep[u]) = rep[u].stop
          BY <3>1, ComputedFacts
        <4> QED  BY <4>1 DEF Was, During
      <3> QED  BY <3>1, Zenon DEF ReportsWhatWas
    <2>1. RepInv(r) /\ r.stage # "read"
      BY ComputedFacts
    <2>2. ASSUME NEW room \in r.okRooms PROVE \E o \in Was(r, "ok") : heap[o].room = room
      <3>1. PICK o \in r.objs, n \in r.start .. Upto(r) :
               heap[o].room = room /\ LiveAt(o, n) /\ StatusAt(o, n) = {"ok"}
        BY <2>1 DEF RepInv, Covered
      <3> QED  BY <3>1 DEF Was
    <2>3. /\ \A room \in r.plannedRooms : \E o \in Was(r, "planned") : heap[o].room = room
          /\ \A k \in 1 .. Len(r.found) : r.found[k] \in Was(r, "planned")
      BY <2>1 DEF RepInv, Honest
    <2>4. ASSUME r.call = "health", NEW s \in Status
          PROVE  r.tally[s] <= Cardinality(Was(r, s))
      <3>1. PICK k \in 1 .. 5 : HealthPasses[k] = s
        BY EveryStatusHasItsPass
      <3>2. r.tally[s] <= Cardinality(Tallied(r, Was(r, s), k))
        BY <2>1, <2>4, <3>1 DEF RepInv, Honest
      <3> QED  BY <2>1, <3>2 DEF Tallied
    <2> QED  BY <2>2, <2>3, <2>4
  <1> QED  BY <1>1, ReportInvariant, PTL

\* A report during which the twin did not change is exact.
THEOREM UndisturbedReportsAreExact == ReportSpec => []UndisturbedIsExact
  <1>1. ReportInv => UndisturbedIsExact
    <2> SUFFICES ASSUME ReportInv, NEW t \in Reporters, Computed(t), NEW r, r = rep[t],
                        r.start = r.stop
                 PROVE  /\ r.call = "health" =>
                              \A s \in Status : r.tally[s] = Cardinality(Are(r, s))
                        /\ r.call \in {"health", "coverage"} => r.okRooms = RoomsOf(Are(r, "ok"))
                        /\ r.call = "coverage" =>
                              r.plannedRooms = RoomsOf(Are(r, "planned")) \ RoomsOf(Are(r, "ok"))
                        /\ r.call = "drift" => Len(r.found) = Cardinality(Are(r, "planned"))
                        /\ r.call = "snapshot" =>
                              /\ r.counted = Cardinality(LiveObjs(r.start))
                              /\ r.tally["ok"] = Cardinality(Are(r, "ok"))
      BY DEF UndisturbedIsExact, RoomReport, Are, LiveObjs, RoomsOf
    <2>1. /\ RepInv(r) /\ r.stage # "read" /\ r.stage # "none" /\ r.start = Upto(r)
          /\ r.objs \subseteq 1 .. Len(heap) /\ (r.call # "snapshot" => r.left = {})
      BY ComputedFacts
    <2>2. r.objs = LiveObjs(r.start) /\ \A s : Are(r, s) \subseteq r.objs
      BY <2>1 DEF RepInv, Exact, Are
    <2>3. ASSUME r.call = "health", NEW s \in Status PROVE r.tally[s] = Cardinality(Are(r, s))
      <3>1. PICK k \in 1 .. 5 : HealthPasses[k] = s
        BY EveryStatusHasItsPass
      <3>2. r.tally[s] = Cardinality(Tallied(r, Are(r, s), k))
        BY <2>1, <2>3, <3>1 DEF RepInv, Exact
      <3> QED  BY <2>1, <3>2 DEF Tallied
    <2>4. ASSUME r.call = "health" PROVE r.okRooms = RoomsOf(Are(r, "ok"))
      <3>1. r.okRooms = RoomsOf(Tallied(r, Are(r, "ok"), 6))
        BY <2>1, <2>4 DEF RepInv, Exact
      <3> QED  BY <2>1, <3>1 DEF Tallied
    <2>5. ASSUME r.call = "coverage"
          PROVE  /\ r.okRooms = RoomsOf(Are(r, "ok"))
                 /\ r.plannedRooms = RoomsOf(Are(r, "planned")) \ RoomsOf(Are(r, "ok"))
      <3>1. /\ r.okRooms = RoomsOf(Are(r, "ok") \cap OkSeen(r))
            /\ r.plannedRooms = RoomsOf(Are(r, "planned") \cap PlannedSeen(r)) \ r.okRooms
        BY <2>1, <2>5 DEF RepInv, Exact
      <3>2. OkSeen(r) = r.objs /\ PlannedSeen(r) = r.objs
        <4>1. ItsDets(r) = {} /\ r.left = {}
          BY <2>1, <2>5 DEF ItsDets
        <4> QED  BY <4>1 DEF OkSeen, PlannedSeen
      <3>3. Are(r, "ok") \cap r.objs = Are(r, "ok")
            /\ Are(r, "planned") \cap r.objs = Are(r, "planned")
        BY <2>2
      <3> QED  BY <3>1, <3>2, <3>3
    <2>6. ASSUME r.call = "drift" PROVE Len(r.found) = Cardinality(Are(r, "planned"))
      <3>1. Len(r.found) = Cardinality(Are(r, "planned") \ r.left)
        BY <2>1, <2>6 DEF RepInv, Exact
      <3>2. Are(r, "planned") \ r.left = Are(r, "planned")
        BY <2>1, <2>6
      <3> QED  BY <3>1, <3>2
    <2>7. ASSUME r.call = "snapshot"
          PROVE  /\ r.counted = Cardinality(LiveObjs(r.start))
                 /\ r.tally["ok"] = Cardinality(Are(r, "ok"))
      BY <2>1, <2>2, <2>7 DEF RepInv, Exact
    <2> QED  BY <2>3, <2>4, <2>5, <2>6, <2>7
  <1> QED  BY <1>1, ReportInvariant, PTL
=============================================================================

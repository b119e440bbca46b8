-------------------------- MODULE DeltaCacheProofs --------------------------
(***************************************************************************)
(* Theorems about DeltaCache for every set of nodes, contents, threads and *)
(* versions, every size of the LRU and every bound on the calls.           *)
(***************************************************************************)
EXTENDS DeltaCache, TLAPS

\* What a call holds at each of its stages.
Staged(c) ==
    /\ c.at \in {"link", "compute", "put", "answer", "listed", "fetch", "take",
                 "collect", "unlink"} => c.node \in Nodes
    /\ c.at \in {"link", "compute", "put", "answer", "room", "listed", "fetch", "take"}
         => c.asked \in [Nodes -> Contents]
    /\ c.at = "drop" /\ c.then = "room" => c.asked \in [Nodes -> Contents]
    /\ c.at = "drop" /\ c.then = "unlink" => c.node \in Nodes
    /\ c.at = "collect" => c.then = "idle"
    /\ c.at \in {"put", "answer"} => c.result \in Results

StagedCall == {c \in CallType : Staged(c)}
TInv == Typed /\ call \in [Threads -> StagedCall]

LEMMA IdleStaged == Idle \in StagedCall
  BY DEF Idle, StagedCall, CallType, Staged

\* A call that has invalidated what it had to goes on in a staged state.
LEMMA DroppedStaged ==
    ASSUME NEW c \in StagedCall, c.at = "drop", NEW D \in SUBSET Nodes
    PROVE  Dropped([c EXCEPT !.todo = D]) \in StagedCall
  <1> DEFINE e == [c EXCEPT !.todo = D]
  <1>1. e \in StagedCall /\ e.at = "drop" /\ e.then = c.then
    BY DEF StagedCall, CallType, Staged
  <1>2. CASE e.todo # {}
    BY <1>1, <1>2 DEF Dropped
  <1>3. CASE e.todo = {} /\ e.then = "idle"
    BY <1>3, IdleStaged DEF Dropped
  <1>4. CASE e.todo = {} /\ e.then = "unlink"
    BY <1>1, <1>4 DEF Dropped, StagedCall, CallType, Staged
  <1>5. CASE e.todo = {} /\ e.then = "room"
    BY <1>1, <1>5 DEF Dropped, StagedCall, CallType, Staged
  <1> QED  BY <1>1, <1>2, <1>3, <1>4, <1>5 DEF StagedCall, CallType

LEMMA KeyStaged ==
    ASSUME NEW c \in StagedCall, c.at \in {"link", "put", "fetch", "compute"}
    PROVE  /\ <<c.node, c.asked[c.node]>> \in Keys
           /\ c.node \in Nodes /\ c.asked[c.node] \in Contents
           /\ c.asked[c.node] # Legacy
  BY HashAssumption DEF StagedCall, Staged, Keys

-----------------------------------------------------------------------------
(* The operations of the LRU.                                              *)

LRUTyped == /\ DOMAIN cache \subseteq Keys /\ \A k \in DOMAIN cache : cache[k] \in Results
            /\ older \subseteq (DOMAIN cache) \X (DOMAIN cache)

LEMMA KeepType ==
    ASSUME LRUTyped, NEW ks \in SUBSET DOMAIN cache, Keep(ks)
    PROVE  LRUTyped' /\ DOMAIN cache' = ks /\ \A k \in ks : cache'[k] = cache[k]
  BY DEF LRUTyped, Keep

LEMMA HitType ==
    ASSUME LRUTyped, NEW k, Hit(k)
    PROVE  LRUTyped' /\ cache' = cache /\ k \in DOMAIN cache
  BY DEF LRUTyped, Hit, Keys

LEMMA MissType ==
    ASSUME LRUTyped, NEW k, Miss(k)
    PROVE  /\ LRUTyped' /\ DOMAIN cache' \subseteq DOMAIN cache
           /\ \A j \in DOMAIN cache' : cache'[j] = cache[j]
  <1>1. CASE UNCHANGED lru
    BY <1>1 DEF LRUTyped, lru
  <1>2. CASE Keep(DOMAIN cache \ {k})
    BY <1>2, KeepType
  <1> QED  BY <1>1, <1>2 DEF Miss

LEMMA PutType ==
    ASSUME LRUTyped, NEW k \in Keys, NEW r \in Results, Put(k, r)
    PROVE  /\ LRUTyped'
           /\ k \in DOMAIN cache' /\ cache'[k] = r
           /\ \A j \in DOMAIN cache' \ {k} : j \in DOMAIN cache /\ cache'[j] = cache[j]
  <1> DEFINE ks == DOMAIN cache \ (Evicted(k) \union {k})
  <1>1. /\ cache' = [j \in ks \union {k} |-> IF j = k THEN r ELSE cache[j]]
        /\ older' = (older \intersect (ks \X ks)) \union (ks \X {k})
    BY DEF Put
  <1>2. DOMAIN cache' = ks \union {k} /\ ks \subseteq DOMAIN cache
    BY <1>1
  <1>3. older' \subseteq (DOMAIN cache') \X (DOMAIN cache')
    BY <1>1, <1>2
  <1> HIDE DEF ks
  <1> QED  BY <1>1, <1>2, <1>3 DEF LRUTyped

-----------------------------------------------------------------------------
(* Type correctness.                                                       *)

LEMMA TypeInit == Init => TInv
  <1> SUFFICES ASSUME Init PROVE TInv
    OBVIOUS
  <1>1. call \in [Threads -> StagedCall] /\ call \in [Threads -> CallType]
    BY IdleStaged DEF Init, StagedCall
  <1> QED  BY <1>1, BoundsAssumption DEF Init, TInv, Typed

LEMMA SetCall ==
    ASSUME call \in [Threads -> StagedCall], NEW t \in Threads, NEW c \in StagedCall,
           call' = [call EXCEPT ![t] = c]
    PROVE  call' \in [Threads -> StagedCall] /\ call' \in [Threads -> CallType]
  BY DEF StagedCall

\* A step of one thread that leaves the rest typed.
LEMMA CallSteps ==
    ASSUME TInv, NEW t \in Threads,
           \/ \E n \in Nodes : CallGetOrCompute(t, n) \/ CallInvalidate(t, n) \/ CallRemoveNode(t, n)
           \/ \E rs \in SUBSET Rooms, changed \in SUBSET Rooms :
                CallProcessIncremental(t, rs, changed)
    PROVE  TInv'
  <1>1. ASSUME NEW c \in StagedCall, Begin(t, c) PROVE TInv'
    <2>1. call' \in [Threads -> StagedCall] /\ call' \in [Threads -> CallType]
      BY <1>1, SetCall DEF Begin, TInv
    <2>2. calls' \in 0 .. MaxCalls
      BY <1>1, BoundsAssumption DEF Begin, TInv, Typed
    <2> QED  BY <1>1, <2>1, <2>2 DEF Begin, TInv, Typed, lru, history
  <1>2. ASSUME NEW n \in Nodes PROVE
          /\ [Idle EXCEPT !.at = "link", !.node = n, !.asked = world, !.todo = Reads[n]] \in StagedCall
          /\ [Idle EXCEPT !.at = "collect", !.node = n] \in StagedCall
          /\ [Idle EXCEPT !.at = "drop", !.node = n, !.todo = {n}, !.then = "unlink"] \in StagedCall
    BY NodesAssumption DEF Idle, StagedCall, CallType, Staged, TInv, Typed
  <1>3. ASSUME NEW rs \in SUBSET Rooms, NEW changed \in SUBSET Rooms PROVE
          Dropped([Idle EXCEPT !.at = "drop", !.asked = world, !.todo = changed,
                               !.rooms = rs, !.then = "room"]) \in StagedCall
    <2> DEFINE c == [Idle EXCEPT !.at = "drop", !.asked = world, !.rooms = rs, !.then = "room"]
    <2>1. c \in StagedCall /\ c.at = "drop"
      BY DEF Idle, StagedCall, CallType, Staged, TInv, Typed
    <2>2. Dropped([c EXCEPT !.todo = changed]) \in StagedCall
      BY <2>1, NodesAssumption, DroppedStaged
    <2>3. [c EXCEPT !.todo = changed]
            = [Idle EXCEPT !.at = "drop", !.asked = world, !.todo = changed,
                           !.rooms = rs, !.then = "room"]
      BY DEF Idle
    <2> QED  BY <2>2, <2>3
  <1> QED  BY <1>1, <1>2, <1>3 DEF CallGetOrCompute, CallInvalidate, CallRemoveNode, CallProcessIncremental

LEMMA ThreadSteps ==
    ASSUME TInv, NEW t \in Threads,
           \/ Link(t) \/ LookUp(t) \/ Compute(t) \/ ComputeFails(t) \/ Store(t) \/ Answer(t)
           \/ Collect(t) \/ Drop(t) \/ Unlink(t) \/ InvalidateAll(t)
           \/ CheckCache(t) \/ CheckLoaded(t) \/ Fetch(t)
           \/ Take(t) \/ TakeFails(t) \/ Persist(t)
    PROVE  TInv'
  <1> DEFINE c == call[t]
  <1>0. c \in StagedCall /\ LRUTyped
    BY DEF TInv, Typed, LRUTyped
  <1>a. ASSUME NEW e \in StagedCall, call' = [call EXCEPT ![t] = e]
        PROVE  call' \in [Threads -> StagedCall] /\ call' \in [Threads -> CallType]
    BY <1>a, SetCall DEF TInv
  <1>b. ASSUME Return(t) PROVE call' \in [Threads -> StagedCall] /\ call' \in [Threads -> CallType]
    BY <1>a, <1>b, IdleStaged DEF Return
  <1>1. CASE Link(t)
    <2>1. PICK d \in c.todo : graph' = graph \union {<<c.node, d>>}
                               /\ call' = [call EXCEPT ![t] = [c EXCEPT !.todo = @ \ {d}]]
      BY <1>1 DEF Link
    <2>2. [c EXCEPT !.todo = @ \ {d}] \in StagedCall
      BY <1>0, <1>1 DEF StagedCall, CallType, Staged, Link, At
    <2>3. graph' \subseteq Nodes \X Nodes
      BY <1>0, <1>1, <2>1 DEF StagedCall, CallType, Staged, Link, At, TInv, Typed
    <2> QED  BY <1>1, <1>a, <2>1, <2>2, <2>3 DEF Link, TInv, Typed, lru, bounds, history
  <1>2. CASE LookUp(t)
    <2>1. CASE Hit(KeyOf(t)) /\ call' = [call EXCEPT ![t] = [c EXCEPT !.at = "answer", !.result = cache[KeyOf(t)]]]
      <3>1. [c EXCEPT !.at = "answer", !.result = cache[KeyOf(t)]] \in StagedCall
        BY <1>0, <1>2, <2>1 DEF StagedCall, CallType, Staged, LookUp, At, LRUTyped, Hit
      <3> QED  BY <1>0, <1>2, <1>a, <2>1, <3>1, HitType DEF LookUp, TInv, Typed, LRUTyped, bounds, history
    <2>2. CASE Miss(KeyOf(t)) /\ Goto(t, "compute")
      <3>1. [c EXCEPT !.at = "compute"] \in StagedCall
        BY <1>0, <1>2 DEF StagedCall, CallType, Staged, LookUp, At
      <3> QED  BY <1>0, <1>2, <1>a, <2>2, <3>1, MissType DEF LookUp, Goto, TInv, Typed, LRUTyped, bounds, history
    <2> QED  BY <1>2, <2>1, <2>2 DEF LookUp
  <1>3. CASE Compute(t)
    <2> DEFINE r == [own |-> c.asked[c.node], seen |-> [d \in Reads[c.node] |-> world[d]],
                     alg |-> version, old |-> FALSE]
    <2>1. c.node \in Nodes /\ c.asked[c.node] \in Contents
      BY <1>0, <1>3, KeyStaged DEF Compute, At
    <2>2. [d \in Reads[c.node] |-> world[d]] \in Seen
      BY <2>1, NodesAssumption DEF TInv, Typed, Seen
    <2>3. r \in Results
      BY <2>1, <2>2 DEF Results, TInv, Typed
    <2> HIDE DEF r
    <2>4. [c EXCEPT !.at = "put", !.result = r] \in StagedCall
      BY <1>0, <1>3, <2>3 DEF StagedCall, CallType, Staged, Compute, At
    <2>5. call' = [call EXCEPT ![t] = [c EXCEPT !.at = "put", !.result = r]]
      BY <1>3 DEF Compute, r
    <2> QED  BY <1>3, <1>a, <2>4, <2>5 DEF Compute, TInv, Typed, lru, bounds, history
  <1>4. CASE ComputeFails(t)
    BY <1>4, <1>b DEF ComputeFails, TInv, Typed, lru, bounds, history
  <1>5. CASE Store(t)
    <2>1. [c EXCEPT !.at = "answer"] \in StagedCall /\ c.result \in Results /\ KeyOf(t) \in Keys
      BY <1>0, <1>5, KeyStaged DEF StagedCall, CallType, Staged, Store, At, KeyOf
    <2> QED  BY <1>0, <1>5, <1>a, <2>1, PutType DEF Store, Goto, TInv, Typed, LRUTyped, bounds, history
  <1>6. CASE Answer(t)
    <2>1. [c EXCEPT !.at = "room", !.node = None, !.result = None] \in StagedCall
      BY <1>0, <1>6 DEF StagedCall, CallType, Staged, Answer, At
    <2>2. call' \in [Threads -> StagedCall] /\ call' \in [Threads -> CallType]
      BY <1>6, <1>a, <1>b, <2>1 DEF Answer
    <2> QED  BY <1>6, <2>2 DEF Answer, TInv, Typed, lru, bounds, history
  <1>7. CASE Collect(t)
    <2> DEFINE D == {c.node} \union Dependents(c.node)
    <2>1. D \subseteq Nodes
      BY <1>0, <1>7 DEF StagedCall, Staged, Collect, At, Dependents
    <2>2. call' = [call EXCEPT ![t] = [c EXCEPT !.at = "drop", !.todo = D]]
      BY <1>7 DEF Collect
    <2> HIDE DEF D
    <2>3. [c EXCEPT !.at = "drop", !.todo = D] \in StagedCall
      BY <1>0, <1>7, <2>1 DEF StagedCall, CallType, Staged, Collect, At
    <2> QED  BY <1>7, <1>a, <2>2, <2>3 DEF Collect, TInv, Typed, lru, bounds
  <1>8. CASE Drop(t)
    <2>1. PICK m \in c.todo : /\ Keep({k \in DOMAIN cache : k[1] # m})
                               /\ call' = [call EXCEPT ![t] = Dropped([c EXCEPT !.todo = c.todo \ {m}])]
                               /\ raced' = IF OnItsWay(m) THEN raced \union {m} ELSE raced \ {m}
      BY <1>8 DEF Drop
    <2>2. c.todo \subseteq Nodes /\ c.at = "drop"
      BY <1>0, <1>8 DEF StagedCall, CallType, Drop, At
    <2>3. Dropped([c EXCEPT !.todo = c.todo \ {m}]) \in StagedCall
      BY <1>0, <2>2, DroppedStaged
    <2>4. raced' \subseteq Nodes
      BY <2>1, <2>2 DEF TInv, Typed
    <2>5. LRUTyped'
      BY <1>0, <2>1, KeepType
    <2> QED  BY <1>8, <1>a, <2>1, <2>3, <2>4, <2>5 DEF Drop, TInv, Typed, LRUTyped, bounds
  <1>9. CASE Unlink(t)
    <2>1. cut' \subseteq Nodes
      BY <1>0, <1>9 DEF Unlink, StagedCall, Staged, At, Dependents, TInv, Typed
    <2>2. call' \in [Threads -> StagedCall] /\ call' \in [Threads -> CallType]
      BY <1>9, <1>b DEF Unlink
    <2>3. graph' \subseteq Nodes \X Nodes
      BY <1>9 DEF Unlink, TInv, Typed
    <2> QED  BY <1>9, <2>1, <2>2, <2>3 DEF Unlink, TInv, Typed, lru, bounds
  <1>10. CASE InvalidateAll(t)
    <2>1. calls' \in 0 .. MaxCalls /\ raced' \subseteq Nodes
      BY <1>10, BoundsAssumption DEF InvalidateAll, TInv, Typed
    <2>2. LRUTyped'
      BY <1>0, <1>10, KeepType DEF InvalidateAll
    <2> QED  BY <1>10, <2>1, <2>2 DEF InvalidateAll, TInv, Typed, LRUTyped
  <1>11. CASE CheckCache(t)
    <2>1. PICK r \in c.rooms : LET k == <<r, c.asked[r]>> IN
            \/ Hit(k) /\ call' = [call EXCEPT ![t] = [c EXCEPT !.at = "fetch", !.node = r, !.rooms = @ \ {r}]]
            \/ Miss(k) /\ call' = [call EXCEPT ![t] = [c EXCEPT !.at = "listed", !.node = r, !.rooms = @ \ {r}]]
      BY <1>11 DEF CheckCache
    <2>2. ASSUME NEW s \in {"fetch", "listed"}
          PROVE  [c EXCEPT !.at = s, !.node = r, !.rooms = @ \ {r}] \in StagedCall
      BY <1>0, <1>11, NodesAssumption DEF StagedCall, CallType, Staged, CheckCache, At
    <2>3. call' \in [Threads -> StagedCall] /\ call' \in [Threads -> CallType]
      BY <1>a, <2>1, <2>2
    <2>4. LRUTyped'
      BY <1>0, <2>1, HitType, MissType
    <2> QED  BY <1>11, <2>3, <2>4 DEF CheckCache, TInv, Typed, LRUTyped, bounds, history
  <1>12. CASE CheckLoaded(t)
    <2>1. ASSUME NEW s \in {"fetch", "compute"} PROVE [c EXCEPT !.at = s] \in StagedCall
      BY <1>0, <1>12 DEF StagedCall, CallType, Staged, CheckLoaded, At
    <2> QED  BY <1>12, <1>a, <2>1 DEF CheckLoaded, Goto, TInv, Typed, lru, bounds, history
  <1>13. CASE Fetch(t)
    <2>1. CASE Hit(KeyOf(t)) /\ call' = [call EXCEPT ![t] = [c EXCEPT !.at = "answer", !.result = cache[KeyOf(t)]]]
      <3>1. [c EXCEPT !.at = "answer", !.result = cache[KeyOf(t)]] \in StagedCall
        BY <1>0, <1>13, <2>1 DEF StagedCall, CallType, Staged, Fetch, At, LRUTyped, Hit
      <3> QED  BY <1>0, <1>13, <1>a, <2>1, <3>1, HitType DEF Fetch, TInv, Typed, LRUTyped, bounds, history
    <2>2. CASE Miss(KeyOf(t)) /\ Goto(t, IF IsLoaded(t) THEN "take" ELSE "compute")
      <3>1. ASSUME NEW s \in {"take", "compute"} PROVE [c EXCEPT !.at = s] \in StagedCall
        BY <1>0, <1>13 DEF StagedCall, CallType, Staged, Fetch, At
      <3>2. call' \in [Threads -> StagedCall] /\ call' \in [Threads -> CallType]
        BY <1>a, <2>2, <3>1 DEF Goto
      <3>3. LRUTyped'
        BY <1>0, <2>2, MissType
      <3> QED  BY <1>13, <3>2, <3>3 DEF Fetch, TInv, Typed, LRUTyped, bounds, history
    <2> QED  BY <1>13, <2>1, <2>2 DEF Fetch
  <1>14. CASE Take(t)
    <2>1. Borrowed(c.node) \in Results
      BY <1>14 DEF Take, IsLoaded, Borrowed, TInv, Typed, Results
    <2>2. [c EXCEPT !.at = "put", !.result = Borrowed(c.node)] \in StagedCall
      BY <1>0, <1>14, <2>1 DEF StagedCall, CallType, Staged, Take, At
    <2> QED  BY <1>14, <1>a, <2>2 DEF Take, TInv, Typed, lru, bounds, history
  <1>15. CASE TakeFails(t)
    BY <1>15, <1>b DEF TakeFails, TInv, Typed, lru, bounds, history
  <1>16. CASE Persist(t)
    <2> DEFINE mine == CachedNodes(DOMAIN cache)
    <2>1. PICK key \in [mine -> DOMAIN cache] :
            db' = [n \in RowsOf(version) \union mine |->
                     IF n \in mine THEN [res |-> cache[key[n]], alg |-> version] ELSE db[n]]
      BY <1>16 DEF Persist
    <2>2. mine \subseteq Nodes /\ RowsOf(version) \subseteq DOMAIN db
      BY DEF TInv, Typed, CachedNodes, Keys, RowsOf
    <2>3. \A n \in mine : [res |-> cache[key[n]], alg |-> version] \in Rows
      BY DEF TInv, Typed, Rows
    <2>4. DOMAIN db' \subseteq Nodes /\ \A n \in DOMAIN db' : db'[n] \in Rows
      <3> HIDE DEF mine
      <3> QED  BY <2>1, <2>2, <2>3 DEF TInv, Typed
    <2>5. calls' \in 0 .. MaxCalls
      BY <1>16, BoundsAssumption DEF Persist, TInv, Typed
    <2> QED  BY <1>16, <2>4, <2>5 DEF Persist, TInv, Typed, lru, history
  <1> QED  BY <1>1, <1>2, <1>3, <1>4, <1>5, <1>6, <1>7, <1>8, <1>9, <1>10, <1>11, <1>12,
              <1>13, <1>14, <1>15, <1>16

LEMMA OtherSteps ==
    ASSUME TInv, Restart \/ (\E n \in Nodes, c \in Contents : Edit(n, c)) \/ UNCHANGED vars
    PROVE  TInv'
  <1>1. CASE Restart
    <2>1. PICK ks \in SUBSET ((DOMAIN loaded') \X {Legacy}) :
            /\ cache' = [k \in ks |-> loaded'[k[1]]]
            /\ older' \in SUBSET (ks \X ks)
      BY <1>1 DEF Restart
    <2>2. DOMAIN loaded' \subseteq Nodes /\ \A n \in DOMAIN loaded' : loaded'[n] \in Results
      BY <1>1 DEF Restart, RowsOf, TInv, Typed, Rows
    <2>3. ks \subseteq Keys
      BY <2>2 DEF Keys
    <2>4. LRUTyped'
      BY <2>1, <2>2, <2>3 DEF LRUTyped
    <2>5. call' \in [Threads -> StagedCall] /\ call' \in [Threads -> CallType]
      BY <1>1, IdleStaged DEF Restart, StagedCall
    <2>6. sessions' \in 0 .. MaxSessions
      BY <1>1, BoundsAssumption DEF Restart, TInv, Typed
    <2>7. version' \in Versions /\ graph' = {} /\ raced' = {} /\ cut' = {}
          /\ UNCHANGED <<world, db, edits, calls, dirty>>
      BY <1>1 DEF Restart
    <2> QED  BY <2>2, <2>4, <2>5, <2>6, <2>7 DEF TInv, Typed, LRUTyped
  <1>2. ASSUME NEW n \in Nodes, NEW c \in Contents, Edit(n, c) PROVE TInv'
    BY <1>2, BoundsAssumption DEF Edit, TInv, Typed, lru
  <1>3. CASE UNCHANGED vars
    BY <1>3 DEF vars, lru, bounds, history, TInv, Typed
  <1> QED  BY <1>1, <1>2, <1>3

LEMMA TypeStep == TInv /\ [Next]_vars => TInv'
  BY CallSteps, ThreadSteps, OtherSteps DEF Next

LEMMA TypeInvariant == Spec => []TInv
  BY TypeInit, TypeStep, PTL DEF Spec

\* Every reachable state of the cache is well typed: keys, results and rows are what
\* they should be, and every call holds what its stage needs (delta_cache.py:307).
THEOREM CacheTyped == Spec => []Typed
  <1>1. TInv => Typed
    BY DEF TInv
  <1> QED  BY <1>1, TypeInvariant, PTL

-----------------------------------------------------------------------------
(* Whose content and whose algorithm.                                      *)

OwnResult(r, asked, v) == r.alg = v /\ (r.old \/ r.own = asked)
OwnCache == \A k \in DOMAIN cache :
    /\ cache[k].alg = version
    /\ k[2] # Legacy => OwnResult(cache[k], k[2], version)
OwnCalls == \A t \in Threads : call[t].at \in {"put", "answer"} =>
                OwnResult(call[t].result, call[t].asked[call[t].node], version)
OwnTables == /\ \A n \in DOMAIN loaded : loaded[n].alg = version
             /\ \A n \in DOMAIN db : db[n].res.alg = db[n].alg
OwnInv == OwnCache /\ OwnCalls /\ OwnTables

LEMMA OwnInit == Init => OwnInv
  BY DEF Init, OwnInv, OwnCache, OwnCalls, OwnTables, Idle

LEMMA OwnAt ==
    ASSUME OwnInv, NEW k \in DOMAIN cache
    PROVE  cache[k].alg = version /\ (k[2] # Legacy => OwnResult(cache[k], k[2], version))
  BY DEF OwnInv, OwnCache

\* A hit answers the result of the content asked about.
LEMMA OwnHit ==
    ASSUME TInv, OwnInv, NEW t \in Threads, call[t].at \in {"link", "fetch"}, Hit(KeyOf(t))
    PROVE  OwnResult(cache[KeyOf(t)], call[t].asked[call[t].node], version)
  <1>1. call[t] \in StagedCall
    BY DEF TInv
  <1>2. KeyOf(t)[2] = call[t].asked[call[t].node] /\ KeyOf(t)[2] # Legacy
    BY <1>1, KeyStaged DEF KeyOf
  <1>3. KeyOf(t) \in DOMAIN cache
    BY DEF Hit
  <1>4. OwnResult(cache[KeyOf(t)], KeyOf(t)[2], version)
    BY <1>2, <1>3, OwnAt
  <1> QED  BY <1>2, <1>4

\* A step that sets one call to a state outside put and answer, or to an own result.
LEMMA OwnSet ==
    ASSUME TInv, OwnInv, NEW t \in Threads, NEW e, call' = [call EXCEPT ![t] = e], version' = version,
           e.at \in {"put", "answer"} => OwnResult(e.result, e.asked[e.node], version)
    PROVE  OwnCalls'
  <1> SUFFICES ASSUME NEW u \in Threads, call'[u].at \in {"put", "answer"}
               PROVE  OwnResult(call'[u].result, call'[u].asked[call'[u].node], version')
    BY DEF OwnCalls
  <1>1. CASE u = t
    BY <1>1 DEF OwnResult, TInv
  <1>2. CASE u # t
    BY <1>2 DEF OwnResult, OwnInv, OwnCalls, TInv
  <1> QED  BY <1>1, <1>2

LEMMA OwnKeep ==
    ASSUME OwnCache, version' = version, DOMAIN cache' \subseteq DOMAIN cache,
           \A k \in DOMAIN cache' : cache'[k] = cache[k]
    PROVE  OwnCache'
  BY DEF OwnCache, OwnResult

\* After the invalidations the call is outside put and answer.
LEMMA DroppedAt ==
    ASSUME NEW c \in CallType, c.at = "drop"
    PROVE  Dropped(c).at \notin {"put", "answer"}
  BY DEF Dropped, CallType, Idle

LEMMA OwnSteps ==
    ASSUME TInv, OwnInv, NEW t \in Threads,
           \/ Link(t) \/ LookUp(t) \/ Compute(t) \/ ComputeFails(t) \/ Store(t) \/ Answer(t)
           \/ Collect(t) \/ Drop(t) \/ Unlink(t) \/ InvalidateAll(t)
           \/ CheckCache(t) \/ CheckLoaded(t) \/ Fetch(t)
           \/ Take(t) \/ TakeFails(t) \/ Persist(t)
    PROVE  OwnInv'
  <1> DEFINE c == call[t]
  <1>0. c \in StagedCall /\ c \in CallType /\ LRUTyped
    BY DEF TInv, Typed, LRUTyped
  <1>a. ASSUME NEW e, call' = [call EXCEPT ![t] = e], version' = version,
               e.at \in {"put", "answer"} => OwnResult(e.result, e.asked[e.node], version)
        PROVE  OwnCalls'
    BY <1>a, OwnSet
  <1>b. ASSUME Return(t), version' = version PROVE OwnCalls'
    BY <1>a, <1>b DEF Return, Idle
  <1>c. ASSUME UNCHANGED lru, version' = version PROVE OwnCache'
    BY <1>c DEF OwnInv, OwnCache, OwnResult, lru
  <1>d. ASSUME UNCHANGED <<loaded, db, version>> PROVE OwnTables'
    BY <1>d DEF OwnInv, OwnTables
  <1>1. CASE Link(t)
    <2>1. PICK d : call' = [call EXCEPT ![t] = [c EXCEPT !.todo = @ \ {d}]]
      BY <1>1 DEF Link
    <2>2. [c EXCEPT !.todo = @ \ {d}].at = "link"
      BY <1>0, <1>1 DEF Link, At, CallType
    <2> QED  BY <1>1, <1>a, <1>c, <1>d, <2>1, <2>2 DEF Link, OwnInv
  <1>2. CASE LookUp(t)
    <2>1. CASE Hit(KeyOf(t)) /\ call' = [call EXCEPT ![t] = [c EXCEPT !.at = "answer", !.result = cache[KeyOf(t)]]]
      <3>1. OwnResult(cache[KeyOf(t)], c.asked[c.node], version)
        BY <1>2, <2>1, OwnHit DEF LookUp, At
      <3>2. OwnCalls'
        BY <1>0, <1>2, <1>a, <2>1, <3>1 DEF LookUp, CallType
      <3> QED  BY <1>0, <1>2, <1>d, <2>1, <3>2, HitType, OwnKeep DEF LookUp, OwnInv
    <2>2. CASE Miss(KeyOf(t)) /\ Goto(t, "compute")
      <3>1. OwnCalls'
        BY <1>0, <1>2, <1>a, <2>2 DEF LookUp, Goto, CallType
      <3> QED  BY <1>0, <1>2, <1>d, <2>2, <3>1, MissType, OwnKeep DEF LookUp, OwnInv
    <2> QED  BY <1>2, <2>1, <2>2 DEF LookUp
  <1>3. CASE Compute(t)
    <2> DEFINE e == [c EXCEPT !.at = "put", !.result =
                       [own |-> c.asked[c.node], seen |-> [d \in Reads[c.node] |-> world[d]],
                        alg |-> version, old |-> FALSE]]
    <2>1. call' = [call EXCEPT ![t] = e]
      BY <1>3 DEF Compute
    <2>2. OwnResult(e.result, e.asked[e.node], version)
      BY <1>0 DEF CallType, OwnResult
    <2> HIDE DEF e
    <2> QED  BY <1>3, <1>a, <1>c, <1>d, <2>1, <2>2 DEF Compute, OwnInv
  <1>4. CASE ComputeFails(t)
    BY <1>4, <1>b, <1>c, <1>d DEF ComputeFails, OwnInv
  <1>5. CASE Store(t)
    <2>1. KeyOf(t) \in Keys /\ c.result \in Results
      BY <1>0, <1>5, KeyStaged DEF Store, At, KeyOf, StagedCall, Staged
    <2>2. OwnResult(c.result, c.asked[c.node], version) /\ KeyOf(t)[2] = c.asked[c.node]
      BY <1>5 DEF Store, At, OwnInv, OwnCalls, KeyOf
    <2>3. OwnCache'
      <3>1. Put(KeyOf(t), c.result) /\ version' = version
        BY <1>5 DEF Store
      <3>2. /\ cache'[KeyOf(t)] = c.result
            /\ \A j \in DOMAIN cache' \ {KeyOf(t)} : j \in DOMAIN cache /\ cache'[j] = cache[j]
        BY <1>0, <2>1, <3>1, PutType
      <3> QED  BY <2>2, <3>1, <3>2 DEF OwnInv, OwnCache, OwnResult
    <2>4. OwnCalls'
      BY <1>0, <1>5, <1>a, <2>2 DEF Store, Goto, CallType
    <2> QED  BY <1>5, <1>d, <2>3, <2>4 DEF Store, OwnInv
  <1>6. CASE Answer(t)
    <2>1. [c EXCEPT !.at = "room", !.node = None, !.result = None].at = "room"
      BY <1>0 DEF CallType
    <2>2. OwnCalls'
      BY <1>6, <1>a, <1>b, <2>1 DEF Answer
    <2> QED  BY <1>6, <1>c, <1>d, <2>2 DEF Answer, OwnInv
  <1>7. CASE Collect(t)
    <2> DEFINE D == {c.node} \union Dependents(c.node)
    <2>a. call' = [call EXCEPT ![t] = [c EXCEPT !.at = "drop", !.todo = D]]
      BY <1>7 DEF Collect
    <2> HIDE DEF D
    <2>b. [c EXCEPT !.at = "drop", !.todo = D].at = "drop"
      BY <1>0 DEF CallType
    <2>1. OwnCalls'
      BY <1>7, <1>a, <2>a, <2>b DEF Collect
    <2> QED  BY <1>7, <1>c, <1>d, <2>1 DEF Collect, OwnInv
  <1>8. CASE Drop(t)
    <2>1. PICK m \in c.todo : /\ Keep({k \in DOMAIN cache : k[1] # m})
                               /\ call' = [call EXCEPT ![t] = Dropped([c EXCEPT !.todo = c.todo \ {m}])]
      BY <1>8 DEF Drop
    <2>2. [c EXCEPT !.todo = c.todo \ {m}] \in CallType /\ [c EXCEPT !.todo = c.todo \ {m}].at = "drop"
      BY <1>0, <1>8 DEF Drop, At, CallType
    <2>3. OwnCalls'
      BY <1>8, <1>a, <2>1, <2>2, DroppedAt DEF Drop
    <2>4. OwnCache'
      BY <1>0, <1>8, <2>1, KeepType, OwnKeep DEF Drop, OwnInv
    <2> QED  BY <1>8, <1>d, <2>3, <2>4 DEF Drop, OwnInv
  <1>9. CASE Unlink(t)
    BY <1>9, <1>b, <1>c, <1>d DEF Unlink, OwnInv
  <1>10. CASE InvalidateAll(t)
    <2>1. OwnCache'
      BY <1>0, <1>10, KeepType, OwnKeep DEF InvalidateAll, OwnInv
    <2> QED  BY <1>10, <1>d, <2>1 DEF InvalidateAll, OwnInv, OwnCalls, OwnResult
  <1>11. CASE CheckCache(t)
    <2>1. PICK r \in c.rooms : LET k == <<r, c.asked[r]>> IN
            \/ Hit(k) /\ call' = [call EXCEPT ![t] = [c EXCEPT !.at = "fetch", !.node = r, !.rooms = @ \ {r}]]
            \/ Miss(k) /\ call' = [call EXCEPT ![t] = [c EXCEPT !.at = "listed", !.node = r, !.rooms = @ \ {r}]]
      BY <1>11 DEF CheckCache
    <2>2. OwnCalls'
      BY <1>0, <1>11, <1>a, <2>1 DEF CheckCache, CallType
    <2>3. OwnCache'
      BY <1>0, <1>11, <2>1, HitType, MissType, OwnKeep DEF CheckCache, OwnInv
    <2> QED  BY <1>11, <1>d, <2>2, <2>3 DEF CheckCache, OwnInv
  <1>12. CASE CheckLoaded(t)
    <2> DEFINE s == IF IsLoaded(t) THEN "fetch" ELSE "compute"
    <2>a. call' = [call EXCEPT ![t] = [c EXCEPT !.at = s]] /\ s \in {"fetch", "compute"}
      BY <1>12 DEF CheckLoaded, Goto
    <2> HIDE DEF s
    <2>b. [c EXCEPT !.at = s].at = s
      BY <1>0 DEF CallType
    <2>1. OwnCalls'
      BY <1>12, <1>a, <2>a, <2>b DEF CheckLoaded
    <2> QED  BY <1>12, <1>c, <1>d, <2>1 DEF CheckLoaded, OwnInv
  <1>13. CASE Fetch(t)
    <2>1. CASE Hit(KeyOf(t)) /\ call' = [call EXCEPT ![t] = [c EXCEPT !.at = "answer", !.result = cache[KeyOf(t)]]]
      <3>1. OwnResult(cache[KeyOf(t)], c.asked[c.node], version)
        BY <1>13, <2>1, OwnHit DEF Fetch, At
      <3>2. OwnCalls'
        BY <1>0, <1>13, <1>a, <2>1, <3>1 DEF Fetch, CallType
      <3> QED  BY <1>0, <1>13, <1>d, <2>1, <3>2, HitType, OwnKeep DEF Fetch, OwnInv
    <2>2. CASE Miss(KeyOf(t)) /\ Goto(t, IF IsLoaded(t) THEN "take" ELSE "compute")
      <3>1. OwnCalls'
        BY <1>0, <1>13, <1>a, <2>2 DEF Fetch, Goto, CallType
      <3> QED  BY <1>0, <1>13, <1>d, <2>2, <3>1, MissType, OwnKeep DEF Fetch, OwnInv
    <2> QED  BY <1>13, <2>1, <2>2 DEF Fetch
  <1>14. CASE Take(t)
    <2>1. c.node \in DOMAIN loaded /\ loaded[c.node] \in Results /\ loaded[c.node].alg = version
      BY <1>14 DEF Take, IsLoaded, TInv, Typed, OwnInv, OwnTables
    <2>2. Borrowed(c.node).alg = version /\ Borrowed(c.node).old = TRUE
      BY <2>1 DEF Borrowed, Results
    <2> DEFINE b == Borrowed(c.node)
    <2>a. call' = [call EXCEPT ![t] = [c EXCEPT !.at = "put", !.result = b]]
      BY <1>14 DEF Take
    <2>b. OwnResult(b, c.asked[c.node], version)
      BY <2>2 DEF OwnResult
    <2> HIDE DEF b
    <2>c. LET e == [c EXCEPT !.at = "put", !.result = b] IN
            e.result = b /\ e.asked = c.asked /\ e.node = c.node
      BY <1>0 DEF CallType
    <2>3. OwnCalls'
      BY <1>14, <1>a, <2>a, <2>b, <2>c DEF Take
    <2>4. OwnTables'
      BY <1>14 DEF Take, OwnInv, OwnTables
    <2> QED  BY <1>14, <1>c, <2>3, <2>4 DEF Take, OwnInv
  <1>15. CASE TakeFails(t)
    BY <1>15, <1>b, <1>c, <1>d DEF TakeFails, OwnInv
  <1>16. CASE Persist(t)
    <2> DEFINE mine == CachedNodes(DOMAIN cache)
    <2>1. PICK key \in [mine -> DOMAIN cache] :
            db' = [n \in RowsOf(version) \union mine |->
                     IF n \in mine THEN [res |-> cache[key[n]], alg |-> version] ELSE db[n]]
      BY <1>16 DEF Persist
    <2>2. RowsOf(version) \subseteq DOMAIN db
      BY DEF RowsOf
    <2>3. OwnTables'
      <3> HIDE DEF mine
      <3>1. ASSUME NEW n \in mine PROVE cache[key[n]].alg = version
        <4>1. key[n] \in DOMAIN cache
          OBVIOUS
        <4> QED  BY <4>1, OwnAt
      <3>2. \A n \in DOMAIN db' : db'[n].res.alg = db'[n].alg
        <4> TAKE n \in DOMAIN db'
        <4>1. CASE n \in mine
          BY <2>1, <3>1, <4>1
        <4>2. CASE n \notin mine
          BY <2>1, <2>2, <4>2 DEF OwnInv, OwnTables
        <4> QED  BY <4>1, <4>2
      <3> QED  BY <1>16, <3>2 DEF Persist, OwnInv, OwnTables
    <2> QED  BY <1>16, <1>c, <2>3 DEF Persist, OwnInv, OwnCalls, OwnResult
  <1> QED  BY <1>1, <1>2, <1>3, <1>4, <1>5, <1>6, <1>7, <1>8, <1>9, <1>10, <1>11, <1>12,
              <1>13, <1>14, <1>15, <1>16

LEMMA OwnStep == TInv /\ OwnInv /\ [Next]_vars => OwnInv'
  <1> SUFFICES ASSUME TInv, OwnInv, [Next]_vars PROVE OwnInv'
    OBVIOUS
  <1>1. ASSUME NEW t \in Threads, NEW e, e.at \notin {"put", "answer"}, Begin(t, e) PROVE OwnInv'
    BY <1>1, OwnSet DEF Begin, OwnInv, OwnCache, OwnTables, OwnResult, lru
  <1>2. ASSUME NEW t \in Threads, NEW n \in Nodes,
               CallGetOrCompute(t, n) \/ CallInvalidate(t, n) \/ CallRemoveNode(t, n)
        PROVE  OwnInv'
    BY <1>1, <1>2 DEF CallGetOrCompute, CallInvalidate, CallRemoveNode, Idle
  <1>3. ASSUME NEW t \in Threads, NEW rs \in SUBSET Rooms, NEW changed \in SUBSET Rooms,
               CallProcessIncremental(t, rs, changed)
        PROVE  OwnInv'
    <2> DEFINE e == [Idle EXCEPT !.at = "drop", !.asked = world, !.todo = changed,
                                 !.rooms = rs, !.then = "room"]
    <2>1. e \in CallType /\ e.at = "drop"
      BY NodesAssumption DEF Idle, CallType, TInv, Typed
    <2>2. Begin(t, Dropped(e))
      BY <1>3 DEF CallProcessIncremental
    <2> HIDE DEF e
    <2> QED  BY <1>1, <2>1, <2>2, DroppedAt
  <1>4. ASSUME NEW n \in Nodes, NEW c \in Contents, Edit(n, c) PROVE OwnInv'
    BY <1>4 DEF Edit, OwnInv, OwnCache, OwnCalls, OwnTables, OwnResult, lru
  <1>5. CASE Restart
    <2>1. PICK ks \in SUBSET ((DOMAIN loaded') \X {Legacy}) : cache' = [k \in ks |-> loaded'[k[1]]]
      BY <1>5 DEF Restart
    <2>2. \A n \in DOMAIN loaded' : loaded'[n].alg = version'
      BY <1>5 DEF Restart, RowsOf, OwnInv, OwnTables
    <2>3. OwnCache'
      BY <2>1, <2>2 DEF OwnCache
    <2>4. OwnTables' /\ OwnCalls'
      BY <1>5, <2>2 DEF Restart, OwnTables, OwnCalls, OwnInv, Idle
    <2> QED  BY <2>3, <2>4 DEF OwnInv
  <1>6. CASE UNCHANGED vars
    BY <1>6 DEF vars, lru, OwnInv, OwnCache, OwnCalls, OwnTables, OwnResult
  <1> QED  BY <1>2, <1>3, <1>4, <1>5, <1>6, OwnSteps DEF Next

\* Whatever the interleaving of calls, edits, persists and restarts, an answer was
\* computed by this session's algorithm, from the content asked about or in an
\* earlier session (delta_cache.py:364, 533, 818).
THEOREM AnswersAreOwn == Spec => []AnswerIsOwn
  <1>1. OwnInv => AnswerIsOwn
    BY DEF OwnInv, OwnCalls, AnswerIsOwn, OwnResult, At
  <1> QED  BY <1>1, OwnInit, OwnStep, TypeInvariant, PTL DEF Spec

-----------------------------------------------------------------------------
(* What an earlier session left answers for one content of a room.         *)

\* A step that keeps or drops cached entries and loaded results, and takes nothing.
LEMMA FewerBorrowers ==
    ASSUME BorrowedOnce,
           \A k \in DOMAIN cache' : k \in DOMAIN cache /\ cache'[k] = cache[k],
           DOMAIN loaded' \subseteq DOMAIN loaded,
           \A u \in Threads : call'[u].at = "put" /\ call'[u].result.old => call'[u] = call[u]
    PROVE  BorrowedOnce'
  <1>1. ASSUME NEW r \in Rooms PROVE Borrowers(r)' \subseteq Borrowers(r)
    BY DEF Borrowers, At
  <1> QED  BY <1>1 DEF BorrowedOnce

\* The same, of a step that sets one call to a state that holds nothing old.
LEMMA SetFewer ==
    ASSUME TInv, BorrowedOnce, NEW t \in Threads, NEW e, call' = [call EXCEPT ![t] = e],
           ~(e.at = "put" /\ e.result.old),
           \A k \in DOMAIN cache' : k \in DOMAIN cache /\ cache'[k] = cache[k],
           loaded' = loaded
    PROVE  BorrowedOnce'
  <1>1. ASSUME NEW u \in Threads, call'[u].at = "put" /\ call'[u].result.old
        PROVE  call'[u] = call[u]
    BY <1>1 DEF TInv
  <1> QED  BY <1>1, FewerBorrowers

\* A held result goes into the cache under one key.
LEMMA StoreBorrowed ==
    ASSUME TInv, BorrowedOnce, NEW t \in Threads, Store(t)
    PROVE  BorrowedOnce'
  <1> DEFINE c == call[t]
  <1>0. c \in StagedCall /\ LRUTyped /\ c.at = "put"
    BY DEF TInv, Typed, LRUTyped, Store, At
  <1>1. KeyOf(t) \in Keys /\ c.result \in Results /\ KeyOf(t)[1] = c.node /\ KeyOf(t)[2] # Legacy
    BY <1>0, KeyStaged DEF KeyOf, StagedCall, Staged
  <1>2. /\ KeyOf(t) \in DOMAIN cache' /\ cache'[KeyOf(t)] = c.result
        /\ \A j \in DOMAIN cache' \ {KeyOf(t)} : j \in DOMAIN cache /\ cache'[j] = cache[j]
    BY <1>0, <1>1, PutType DEF Store
  <1>3. loaded' = loaded /\ call' = [call EXCEPT ![t] = [c EXCEPT !.at = "answer"]]
    BY DEF Store, Goto
  <1>4. [c EXCEPT !.at = "answer"].at # "put"
    BY <1>0 DEF StagedCall, CallType
  <1>5. \A u \in Threads : call'[u].at = "put" => u # t /\ call'[u] = call[u]
    BY <1>3, <1>4 DEF TInv
  <1> DEFINE new == <<KeyOf(t), "cached">>
             held == <<t, "held">>
  <1>6. ASSUME NEW r \in Rooms, ~(c.node = r /\ c.result.old)
        PROVE  Borrowers(r)' \subseteq Borrowers(r)
    BY <1>1, <1>2, <1>3, <1>5, <1>6 DEF Borrowers, At
  <1>7. ASSUME NEW r \in Rooms, c.node = r, c.result.old
        PROVE  Borrowers(r)' \subseteq {new}
    <2>1. Borrowers(r)' \subseteq (Borrowers(r) \ {held}) \union {new}
      BY <1>2, <1>3, <1>5 DEF Borrowers, At
    <2>2. held \in Borrowers(r)
      BY <1>0, <1>7 DEF Borrowers, At
    <2>3. Borrowers(r) = {held}
      BY <2>2 DEF BorrowedOnce
    <2> QED  BY <2>1, <2>3
  <1>8. ASSUME NEW r \in Rooms PROVE (\A b, d \in Borrowers(r) : b = d)'
    <2>1. CASE c.node = r /\ c.result.old
      BY <1>7, <2>1
    <2>2. CASE ~(c.node = r /\ c.result.old)
      BY <1>6, <2>2 DEF BorrowedOnce
    <2> QED  BY <2>1, <2>2
  <1> QED  BY <1>8 DEF BorrowedOnce

\* A loaded result goes into the hands of one call.
LEMMA TakeBorrowed ==
    ASSUME TInv, BorrowedOnce, NEW t \in Threads, Take(t)
    PROVE  BorrowedOnce'
  <1> DEFINE c == call[t]
             held == <<t, "held">>
             was == <<c.node, "loaded">>
  <1>1. c.node \in DOMAIN loaded /\ DOMAIN loaded' = DOMAIN loaded \ {c.node}
    BY DEF Take, IsLoaded
  <1>2. cache' = cache
    BY DEF Take, lru
  <1>3. \A u \in Threads \ {t} : call'[u] = call[u]
    BY DEF Take, TInv
  <1>4. call'[t].node = c.node
    BY DEF Take, TInv, StagedCall, CallType
  <1>5. ASSUME NEW r \in Rooms, r # c.node
        PROVE  Borrowers(r)' \subseteq Borrowers(r)
    BY <1>1, <1>2, <1>3, <1>4, <1>5 DEF Borrowers, At
  <1>6. ASSUME NEW r \in Rooms, r = c.node
        PROVE  Borrowers(r)' \subseteq {held}
    <2>1. Borrowers(r)' \subseteq (Borrowers(r) \ {was}) \union {held}
      BY <1>1, <1>2, <1>3, <1>6 DEF Borrowers, At
    <2>2. was \in Borrowers(r)
      BY <1>1, <1>6 DEF Borrowers
    <2>3. Borrowers(r) = {was}
      BY <2>2 DEF BorrowedOnce
    <2> QED  BY <2>1, <2>3
  <1>7. ASSUME NEW r \in Rooms PROVE (\A b, d \in Borrowers(r) : b = d)'
    <2>1. CASE r = c.node
      BY <1>6, <2>1
    <2>2. CASE r # c.node
      BY <1>5, <2>2 DEF BorrowedOnce
    <2> QED  BY <2>1, <2>2
  <1> QED  BY <1>7 DEF BorrowedOnce

\* The LRU loses entries, if it changes at all.
LEMMA OnlyFewer ==
    ASSUME TInv, NEW t \in Threads,
           \/ Link(t) \/ LookUp(t) \/ Compute(t) \/ ComputeFails(t) \/ Answer(t)
           \/ Collect(t) \/ Drop(t) \/ Unlink(t) \/ InvalidateAll(t)
           \/ CheckCache(t) \/ CheckLoaded(t) \/ Fetch(t) \/ TakeFails(t) \/ Persist(t)
    PROVE  \A k \in DOMAIN cache' : k \in DOMAIN cache /\ cache'[k] = cache[k]
  <1>0. LRUTyped
    BY DEF TInv, Typed, LRUTyped
  <1>1. ASSUME NEW ks \in SUBSET DOMAIN cache, Keep(ks)
        PROVE  \A k \in DOMAIN cache' : k \in DOMAIN cache /\ cache'[k] = cache[k]
    BY <1>0, <1>1, KeepType
  <1>2. ASSUME NEW k, Hit(k) \/ Miss(k)
        PROVE  \A j \in DOMAIN cache' : j \in DOMAIN cache /\ cache'[j] = cache[j]
    BY <1>0, <1>2, HitType, MissType
  <1>3. CASE UNCHANGED lru
    BY <1>3 DEF lru
  <1>4. CASE LookUp(t) \/ Fetch(t)
    BY <1>2, <1>4 DEF LookUp, Fetch
  <1>5. CASE CheckCache(t)
    BY <1>2, <1>5 DEF CheckCache
  <1>6. CASE Drop(t)
    BY <1>1, <1>6 DEF Drop
  <1>7. CASE InvalidateAll(t)
    BY <1>1, <1>7 DEF InvalidateAll
  <1> QED  BY <1>3, <1>4, <1>5, <1>6, <1>7
           DEF Link, Compute, ComputeFails, Answer, Collect, Unlink, CheckLoaded, TakeFails, Persist

LEMMA BorrowSteps ==
    ASSUME TInv, BorrowedOnce, NEW t \in Threads,
           \/ Link(t) \/ LookUp(t) \/ Compute(t) \/ ComputeFails(t) \/ Answer(t)
           \/ Collect(t) \/ Drop(t) \/ Unlink(t) \/ InvalidateAll(t)
           \/ CheckCache(t) \/ CheckLoaded(t) \/ Fetch(t) \/ TakeFails(t) \/ Persist(t)
    PROVE  BorrowedOnce'
  <1> DEFINE c == call[t]
  <1>0. c \in CallType
    BY DEF TInv, StagedCall
  <1>1. \A k \in DOMAIN cache' : k \in DOMAIN cache /\ cache'[k] = cache[k]
    BY OnlyFewer
  <1>2. loaded' = loaded
    BY DEF Link, LookUp, Compute, ComputeFails, Answer, Collect, Drop, Unlink, InvalidateAll,
           CheckCache, CheckLoaded, Fetch, TakeFails, Persist
  <1>3. ASSUME NEW e, call' = [call EXCEPT ![t] = e], ~(e.at = "put" /\ e.result.old)
        PROVE  BorrowedOnce'
    BY <1>1, <1>2, <1>3, SetFewer
  <1>4. CASE InvalidateAll(t) \/ Persist(t)
    BY <1>1, <1>2, <1>4, FewerBorrowers DEF InvalidateAll, Persist
  <1>5. CASE Compute(t)
    <2> DEFINE r == [own |-> c.asked[c.node], seen |-> [d \in Reads[c.node] |-> world[d]],
                     alg |-> version, old |-> FALSE]
    <2>1. call' = [call EXCEPT ![t] = [c EXCEPT !.at = "put", !.result = r]]
      BY <1>5 DEF Compute
    <2>2. ~r.old
      OBVIOUS
    <2> HIDE DEF r
    <2>3. [c EXCEPT !.at = "put", !.result = r].result = r
      BY <1>0 DEF CallType
    <2> QED  BY <1>3, <2>1, <2>2, <2>3
  <1>6. CASE Return(t)
    BY <1>3, <1>6 DEF Return, Idle
  <1>7. ASSUME NEW s, s # "put", Goto(t, s) PROVE BorrowedOnce'
    <2>1. [c EXCEPT !.at = s].at = s
      BY <1>0 DEF CallType
    <2> QED  BY <1>3, <1>7, <2>1 DEF Goto
  <1>8. CASE Link(t)
    <2>1. PICK d : call' = [call EXCEPT ![t] = [c EXCEPT !.todo = @ \ {d}]]
      BY <1>8 DEF Link
    <2>2. [c EXCEPT !.todo = @ \ {d}].at = "link"
      BY <1>0, <1>8 DEF Link, At, CallType
    <2> QED  BY <1>3, <2>1, <2>2
  <1>9. CASE call' = [call EXCEPT ![t] = [c EXCEPT !.at = "answer", !.result = cache[KeyOf(t)]]]
    <2>1. [c EXCEPT !.at = "answer", !.result = cache[KeyOf(t)]].at = "answer"
      BY <1>0 DEF CallType
    <2> QED  BY <1>3, <1>9, <2>1
  <1>10. CASE LookUp(t) \/ Fetch(t)
    BY <1>7, <1>9, <1>10 DEF LookUp, Fetch
  <1>11. CASE Answer(t)
    <2>1. [c EXCEPT !.at = "room", !.node = None, !.result = None].at = "room"
      BY <1>0 DEF CallType
    <2> QED  BY <1>3, <1>6, <1>11, <2>1 DEF Answer
  <1>12. CASE Collect(t)
    <2> DEFINE D == {c.node} \union Dependents(c.node)
    <2>1. call' = [call EXCEPT ![t] = [c EXCEPT !.at = "drop", !.todo = D]]
      BY <1>12 DEF Collect
    <2> HIDE DEF D
    <2>2. [c EXCEPT !.at = "drop", !.todo = D].at = "drop"
      BY <1>0 DEF CallType
    <2> QED  BY <1>3, <2>1, <2>2
  <1>13. CASE Drop(t)
    <2>1. PICK m : call' = [call EXCEPT ![t] = Dropped([c EXCEPT !.todo = c.todo \ {m}])]
      BY <1>13 DEF Drop
    <2>2. [c EXCEPT !.todo = c.todo \ {m}] \in CallType /\ [c EXCEPT !.todo = c.todo \ {m}].at = "drop"
      BY <1>0, <1>13 DEF Drop, At, CallType
    <2> QED  BY <1>3, <2>1, <2>2, DroppedAt
  <1>14. CASE CheckCache(t)
    <2>1. PICK r : \/ call' = [call EXCEPT ![t] = [c EXCEPT !.at = "fetch", !.node = r, !.rooms = @ \ {r}]]
                   \/ call' = [call EXCEPT ![t] = [c EXCEPT !.at = "listed", !.node = r, !.rooms = @ \ {r}]]
      BY <1>14 DEF CheckCache
    <2>2. /\ [c EXCEPT !.at = "fetch", !.node = r, !.rooms = @ \ {r}].at = "fetch"
          /\ [c EXCEPT !.at = "listed", !.node = r, !.rooms = @ \ {r}].at = "listed"
      BY <1>0 DEF CallType
    <2> QED  BY <1>3, <2>1, <2>2
  <1> QED  BY <1>4, <1>5, <1>6, <1>7, <1>8, <1>10, <1>11, <1>12, <1>13, <1>14
           DEF ComputeFails, Unlink, CheckLoaded, TakeFails

LEMMA BorrowStep == TInv /\ BorrowedOnce /\ [Next]_vars => BorrowedOnce'
  <1> SUFFICES ASSUME TInv, BorrowedOnce, [Next]_vars PROVE BorrowedOnce'
    OBVIOUS
  <1>1. ASSUME NEW t \in Threads, NEW e, e.at # "put", Begin(t, e) PROVE BorrowedOnce'
    BY <1>1, SetFewer DEF Begin, lru
  <1>2. ASSUME NEW t \in Threads, NEW n \in Nodes,
               CallGetOrCompute(t, n) \/ CallInvalidate(t, n) \/ CallRemoveNode(t, n)
        PROVE  BorrowedOnce'
    BY <1>1, <1>2 DEF CallGetOrCompute, CallInvalidate, CallRemoveNode, Idle
  <1>3. ASSUME NEW t \in Threads, NEW rs \in SUBSET Rooms, NEW changed \in SUBSET Rooms,
               CallProcessIncremental(t, rs, changed)
        PROVE  BorrowedOnce'
    <2> DEFINE e == [Idle EXCEPT !.at = "drop", !.asked = world, !.todo = changed,
                                 !.rooms = rs, !.then = "room"]
    <2>1. e \in CallType /\ e.at = "drop"
      BY NodesAssumption DEF Idle, CallType, TInv, Typed
    <2>2. Begin(t, Dropped(e))
      BY <1>3 DEF CallProcessIncremental
    <2> HIDE DEF e
    <2> QED  BY <1>1, <2>1, <2>2, DroppedAt
  <1>4. ASSUME NEW n \in Nodes, NEW c \in Contents, Edit(n, c) PROVE BorrowedOnce'
    BY <1>4, FewerBorrowers DEF Edit, lru
  <1>5. CASE Restart
    <2>1. PICK ks \in SUBSET ((DOMAIN loaded') \X {Legacy}) : cache' = [k \in ks |-> loaded'[k[1]]]
      BY <1>5 DEF Restart
    <2>2. \A k \in DOMAIN cache' : k[2] = Legacy
      BY <2>1
    <2>3. \A u \in Threads : call'[u].at = "idle"
      BY <1>5 DEF Restart, Idle
    <2>4. \A r \in Rooms : Borrowers(r)' \subseteq {<<r, "loaded">>}
      BY <2>2, <2>3 DEF Borrowers, At
    <2> QED  BY <2>4 DEF BorrowedOnce
  <1>6. CASE UNCHANGED vars
    BY <1>6, FewerBorrowers DEF vars, lru
  <1> QED  BY <1>2, <1>3, <1>4, <1>5, <1>6, StoreBorrowed, TakeBorrowed, BorrowSteps DEF Next

\* The result an earlier session left of a room is loaded, held by one call or cached
\* under one content, never two of these (delta_cache.py:600): a room that changes
\* once it was taken is analysed.
THEOREM BorrowedAtMostOnce == Spec => []BorrowedOnce
  <1>1. Init => BorrowedOnce
    BY DEF Init, BorrowedOnce, Borrowers, At, Idle
  <1> QED  BY <1>1, BorrowStep, TypeInvariant, PTL DEF Spec

-----------------------------------------------------------------------------
(* What a stale entry is explained by.                                     *)

Explained == {e \in Nodes \X Nodes : \/ e[2] \in dirty
                                     \/ e[1] \in raced \union cut
                                     \/ \E t \in Threads : At(t, "drop") /\ e[1] \in call[t].todo}
Linked == {n \in Nodes : n \in cut \/ \A d \in Reads[n] : <<n, d>> \in graph}

\* A result r of n read what the world w has, but for the pairs of x; n is in l.
Good(n, r, w, x, l) == /\ DOMAIN r.seen = Reads[n] /\ n \in l
                       /\ \A d \in Reads[n] : r.seen[d] = w[d] \/ <<n, d>> \in x

GoodCall(c, w, x, l, g, k) ==
    /\ c.at = "put" => Good(c.node, c.result, w, x, l)
    /\ c.at = "compute" => c.node \in l
    /\ c.at = "link" => c.node \in k \/ \A d \in Reads[c.node] \ c.todo : <<c.node, d>> \in g
    /\ c.at \in {"listed", "fetch", "take"} => c.node \in Rooms

GoodCache == \A k \in DOMAIN cache :
    /\ DOMAIN cache[k].seen = Reads[k[1]]
    /\ k[2] # Legacy => Good(k[1], cache[k], world, Explained, Linked)
GoodCalls == \A t \in Threads : GoodCall(call[t], world, Explained, Linked, graph, cut)
GoodTables == /\ \A n \in DOMAIN loaded : DOMAIN loaded[n].seen = Reads[n]
              /\ \A n \in DOMAIN db : DOMAIN db[n].res.seen = Reads[n]
GoodInv == GoodCache /\ GoodCalls /\ GoodTables

LEMMA GoodMonotonic ==
    ASSUME NEW n, NEW r, NEW w, NEW x, NEW l, NEW y, NEW m, x \subseteq y, l \subseteq m,
           Good(n, r, w, x, l)
    PROVE  Good(n, r, w, y, m)
  BY DEF Good

LEMMA GoodCallMonotonic ==
    ASSUME NEW c, NEW w, NEW x, NEW l, NEW g, NEW k, NEW y, NEW m, NEW h, NEW j,
           x \subseteq y, l \subseteq m, g \subseteq h, k \subseteq j, GoodCall(c, w, x, l, g, k)
    PROVE  GoodCall(c, w, y, m, h, j)
  <1>1. c.at = "put" => Good(c.node, c.result, w, y, m)
    BY GoodMonotonic DEF GoodCall
  <1> QED  BY <1>1 DEF GoodCall

\* A room reads nothing: what is held of it is never stale.
LEMMA RoomGood ==
    ASSUME NEW r \in Rooms, NEW res, DOMAIN res.seen = Reads[r], NEW w, NEW x
    PROVE  r \in Linked /\ Good(r, res, w, x, Linked)
  BY NodesAssumption DEF Linked, Good

LEMMA LinkedGrows ==
    ASSUME graph \subseteq graph', cut \subseteq cut'
    PROVE  Linked \subseteq Linked'
  BY DEF Linked

\* Explanations stay, unless a step invalidates.
LEMMA ExplainedGrows ==
    ASSUME dirty \subseteq dirty', raced \subseteq raced', cut \subseteq cut',
           \A u \in Threads : At(u, "drop") => call'[u].at = "drop" /\ call'[u].todo = call[u].todo
    PROVE  Explained \subseteq Explained'
  BY DEF Explained, At

\* A step in which explanations and edges only grow keeps the cached entries it keeps.
LEMMA GoodCacheKept ==
    ASSUME GoodInv, world' = world, Explained \subseteq Explained', Linked \subseteq Linked',
           \A k \in DOMAIN cache' : k \in DOMAIN cache /\ cache'[k] = cache[k]
    PROVE  GoodCache'
  <1> SUFFICES ASSUME NEW k \in DOMAIN cache'
               PROVE  /\ DOMAIN cache'[k].seen = Reads[k[1]]
                      /\ k[2] # Legacy => Good(k[1], cache'[k], world', Explained', Linked')
    BY DEF GoodCache
  <1>1. DOMAIN cache[k].seen = Reads[k[1]]
        /\ (k[2] # Legacy => Good(k[1], cache[k], world, Explained, Linked))
    BY DEF GoodInv, GoodCache
  <1>2. Good(k[1], cache[k], world, Explained, Linked)
          => Good(k[1], cache[k], world, Explained', Linked')
    BY GoodMonotonic
  <1> QED  BY <1>1, <1>2

LEMMA GoodCallsKept ==
    ASSUME TInv, GoodInv, world' = world, Explained \subseteq Explained', Linked \subseteq Linked',
           graph \subseteq graph', cut \subseteq cut', NEW t \in Threads, NEW e,
           call' = [call EXCEPT ![t] = e], GoodCall(e, world', Explained', Linked', graph', cut')
    PROVE  GoodCalls'
  <1> SUFFICES ASSUME NEW u \in Threads
               PROVE  GoodCall(call'[u], world', Explained', Linked', graph', cut')
    BY DEF GoodCalls
  <1>1. CASE u = t
    BY <1>1 DEF TInv
  <1>2. CASE u # t
    <2>1. GoodCall(call[u], world, Explained, Linked, graph, cut)
      BY DEF GoodInv, GoodCalls
    <2>2. GoodCall(call[u], world, Explained', Linked', graph', cut')
      BY <2>1, GoodCallMonotonic
    <2>3. call'[u] = call[u]
      BY <1>2 DEF TInv
    <2> QED  BY <2>2, <2>3
  <1> QED  BY <1>1, <1>2

\* The steps of a call that is not invalidating: they disturb no explanation.
LEMMA CalmStep ==
    ASSUME TInv, GoodInv, NEW t \in Threads, call[t].at # "drop", NEW e,
           call' = [call EXCEPT ![t] = e],
           world' = world, graph \subseteq graph', UNCHANGED <<dirty, raced, cut>>
    PROVE  /\ Explained \subseteq Explained' /\ Linked \subseteq Linked'
           /\ GoodCall(e, world', Explained', Linked', graph', cut') => GoodCalls'
  <1>1. \A u \in Threads : At(u, "drop") => call'[u].at = "drop" /\ call'[u].todo = call[u].todo
    BY DEF At, TInv
  <1>2. Explained \subseteq Explained' /\ Linked \subseteq Linked'
    BY <1>1, ExplainedGrows, LinkedGrows
  <1> QED  BY <1>2, GoodCallsKept

LEMMA RoomsLinked == Rooms \subseteq Linked
  BY NodesAssumption DEF Linked

\* A step that takes explanations or edges back, as long as every held result keeps its.
LEMMA GoodCallsMoved ==
    ASSUME TInv, GoodInv, NEW t \in Threads, call \in [Threads -> StagedCall],
           \A u \in Threads \ {t} : call'[u] = call[u],
           GoodCall(call'[t], world', Explained', Linked', graph', cut'),
           Linked \subseteq Linked',
           \A u \in Threads \ {t} : call[u].at = "put" /\ Good(call[u].node, call[u].result, world, Explained, Linked)
             => Good(call[u].node, call[u].result, world', Explained', Linked'),
           \A n \in Nodes, d \in Nodes : <<n, d>> \in graph => n \in cut' \/ <<n, d>> \in graph',
           cut \subseteq cut'
    PROVE  GoodCalls'
  <1> SUFFICES ASSUME NEW u \in Threads, u # t
               PROVE  GoodCall(call'[u], world', Explained', Linked', graph', cut')
    BY DEF GoodCalls
  <1> DEFINE c == call[u]
  <1>1. GoodCall(c, world, Explained, Linked, graph, cut) /\ c \in StagedCall /\ call'[u] = c
    BY DEF GoodInv, GoodCalls
  <1>2. c.at = "put" => Good(c.node, c.result, world', Explained', Linked')
    BY <1>1 DEF GoodCall
  <1>3. c.at = "compute" => c.node \in Linked'
    BY <1>1 DEF GoodCall
  <1>4. ASSUME c.at = "link"
        PROVE  c.node \in cut' \/ \A d \in Reads[c.node] \ c.todo : <<c.node, d>> \in graph'
    <2>1. c.node \in Nodes /\ Reads[c.node] \subseteq Nodes
      BY <1>1, <1>4, NodesAssumption DEF StagedCall, Staged
    <2>2. c.node \in cut \/ \A d \in Reads[c.node] \ c.todo : <<c.node, d>> \in graph
      BY <1>1, <1>4 DEF GoodCall
    <2> QED  BY <2>1, <2>2
  <1>5. c.at \in {"listed", "fetch", "take"} => c.node \in Rooms
    BY <1>1 DEF GoodCall
  <1> QED  BY <1>1, <1>2, <1>3, <1>4, <1>5 DEF GoodCall

LEMMA GoodCollect ==
    ASSUME TInv, GoodInv, NEW t \in Threads, Collect(t)
    PROVE  GoodInv'
  <1> DEFINE n == call[t].node
             D == {n} \union Dependents(n)
  <1>0. call[t] \in StagedCall /\ n \in Nodes /\ call[t].at = "collect"
    BY DEF TInv, Collect, At, StagedCall, Staged
  <1>1. call' = [call EXCEPT ![t] = [call[t] EXCEPT !.at = "drop", !.todo = D]]
        /\ dirty' = dirty \ {n} /\ UNCHANGED <<world, cache, graph, loaded, db, raced, cut>>
    BY DEF Collect, lru
  <1>2. \A m \in Nodes : <<m, n>> \in graph => m \in D
    BY DEF Dependents
  <1> HIDE DEF D
  <1>3. call'[t].at = "drop" /\ call'[t].todo = D
    BY <1>0, <1>1 DEF TInv, StagedCall, CallType
  <1>4. Linked' = Linked
    BY <1>1 DEF Linked
  <1>5. ASSUME NEW m, NEW r, Good(m, r, world, Explained, Linked)
        PROVE  Good(m, r, world', Explained', Linked')
    <2>1. m \in Nodes
      BY <1>5 DEF Good, Linked
    <2>2. ASSUME NEW d \in Reads[m], <<m, d>> \in Explained PROVE <<m, d>> \in Explained'
      <3>1. d \in Nodes
        BY <2>1, NodesAssumption
      <3>2. CASE m \in raced \union cut
        BY <1>1, <2>1, <3>1, <3>2 DEF Explained
      <3>3. CASE \E u \in Threads : At(u, "drop") /\ m \in call[u].todo
        <4>1. PICK u \in Threads : At(u, "drop") /\ m \in call[u].todo
          BY <3>3
        <4>2. u # t /\ call'[u] = call[u]
          BY <1>0, <1>1, <4>1 DEF At, TInv
        <4> QED  BY <2>1, <3>1, <4>1, <4>2 DEF Explained, At
      <3>4. CASE d \in dirty /\ d # n
        BY <1>1, <2>1, <3>1, <3>4 DEF Explained
      <3>5. CASE d = n /\ m \notin cut
        <4>1. <<m, n>> \in graph
          BY <1>5, <3>5 DEF Good, Linked
        <4>2. m \in call'[t].todo
          BY <1>2, <1>3, <2>1, <4>1
        <4> QED  BY <1>3, <2>1, <3>1, <4>2 DEF Explained, At
      <3> QED  BY <2>2, <3>2, <3>3, <3>4, <3>5 DEF Explained
    <2> QED  BY <1>1, <1>4, <1>5, <2>2 DEF Good
  <1>6. GoodCache'
    <2> SUFFICES ASSUME NEW k \in DOMAIN cache'
                 PROVE  /\ DOMAIN cache'[k].seen = Reads[k[1]]
                        /\ k[2] # Legacy => Good(k[1], cache'[k], world', Explained', Linked')
      BY DEF GoodCache
    <2> QED  BY <1>1, <1>5 DEF GoodInv, GoodCache
  <1>7. GoodCalls'
    <2>1. \A u \in Threads \ {t} : call'[u] = call[u]
      BY <1>1 DEF TInv
    <2>2. GoodCall(call'[t], world', Explained', Linked', graph', cut')
      BY <1>3 DEF GoodCall
    <2> QED  BY <1>1, <1>4, <1>5, <2>1, <2>2, GoodCallsMoved DEF TInv
  <1> QED  BY <1>1, <1>6, <1>7 DEF GoodInv, GoodTables

LEMMA GoodDrop ==
    ASSUME TInv, GoodInv, NEW t \in Threads, Drop(t)
    PROVE  GoodInv'
  <1> DEFINE c == call[t]
  <1>0. c \in StagedCall /\ c \in CallType /\ c.at = "drop" /\ LRUTyped
    BY DEF TInv, Typed, LRUTyped, Drop, At, StagedCall
  <1>1. PICK m \in c.todo : /\ Keep({k \in DOMAIN cache : k[1] # m})
                             /\ call' = [call EXCEPT ![t] = Dropped([c EXCEPT !.todo = c.todo \ {m}])]
                             /\ raced' = IF OnItsWay(m) THEN raced \union {m} ELSE raced \ {m}
    BY DEF Drop
  <1>2. UNCHANGED <<world, graph, loaded, db, dirty, cut>> /\ m \in Nodes
    BY <1>0, <1>1 DEF Drop, CallType
  <1> DEFINE f == [c EXCEPT !.todo = c.todo \ {m}]
  <1>3. /\ f.todo = c.todo \ {m} /\ f.at = "drop" /\ f \in CallType
        /\ c.todo \ {m} # {} => Dropped(f) = f
        /\ Dropped(f).at \in {"idle", "drop", "unlink", "room"}
    BY <1>0 DEF CallType, Dropped, Idle
  <1> HIDE DEF f
  <1>4. /\ call'[t] = Dropped(f)
        /\ \A u \in Threads \ {t} : call'[u] = call[u]
    BY <1>1 DEF TInv, f
  <1>5. \A n \in c.todo \ {m} : call'[t].at = "drop" /\ n \in call'[t].todo
    BY <1>3, <1>4
  <1>6. Linked' = Linked
    BY <1>2 DEF Linked
  <1>7. \A n \in Nodes \ {m}, d \in Nodes : <<n, d>> \in Explained => <<n, d>> \in Explained'
    <2> TAKE n \in Nodes \ {m}, d \in Nodes
    <2>1. n \in raced => n \in raced'
      BY <1>1
    <2>2. ASSUME NEW u \in Threads, At(u, "drop"), n \in call[u].todo
          PROVE  call'[u].at = "drop" /\ n \in call'[u].todo
      BY <1>4, <1>5, <2>2 DEF At
    <2> QED  BY <1>2, <2>1, <2>2 DEF Explained, At
  <1>8. ASSUME NEW n, n # m, NEW r, Good(n, r, world, Explained, Linked)
        PROVE  Good(n, r, world', Explained', Linked')
    <2>1. n \in Nodes /\ Reads[n] \subseteq Nodes
      BY <1>8, NodesAssumption DEF Good, Linked
    <2> QED  BY <1>2, <1>6, <1>7, <1>8, <2>1 DEF Good
  <1>9. GoodCache'
    <2> SUFFICES ASSUME NEW k \in DOMAIN cache'
                 PROVE  /\ DOMAIN cache'[k].seen = Reads[k[1]]
                        /\ k[2] # Legacy => Good(k[1], cache'[k], world', Explained', Linked')
      BY DEF GoodCache
    <2>1. k \in DOMAIN cache /\ k[1] # m /\ cache'[k] = cache[k]
      BY <1>0, <1>1, KeepType
    <2> QED  BY <1>8, <2>1 DEF GoodInv, GoodCache
  <1>10. GoodCalls'
    <2>1. GoodCall(call'[t], world', Explained', Linked', graph', cut')
      BY <1>3, <1>4 DEF GoodCall
    <2>2. ASSUME NEW u \in Threads \ {t}, call[u].at = "put",
                 Good(call[u].node, call[u].result, world, Explained, Linked)
          PROVE  Good(call[u].node, call[u].result, world', Explained', Linked')
      <3>1. CASE call[u].node # m
        BY <1>8, <2>2, <3>1
      <3>2. CASE call[u].node = m
        <4>1. m \in raced'
          BY <1>1, <2>2, <3>2 DEF OnItsWay, At
        <4>2. \A d \in Reads[m] : <<m, d>> \in Explained'
          BY <1>2, <4>1, NodesAssumption DEF Explained
        <4> QED  BY <1>6, <2>2, <3>2, <4>2 DEF Good
      <3> QED  BY <3>1, <3>2
    <2> QED  BY <1>2, <1>4, <1>6, <2>1, <2>2, GoodCallsMoved DEF TInv
  <1> QED  BY <1>2, <1>9, <1>10 DEF GoodInv, GoodTables

LEMMA GoodUnlink ==
    ASSUME TInv, GoodInv, NEW t \in Threads, Unlink(t)
    PROVE  GoodInv'
  <1> DEFINE n == call[t].node
  <1>1. /\ graph' = {e \in graph : e[1] # n /\ e[2] # n}
        /\ cut' = cut \union {n} \union Dependents(n)
        /\ call' = [call EXCEPT ![t] = Idle] /\ call[t].at = "unlink"
        /\ UNCHANGED <<world, cache, loaded, db, dirty, raced>>
    BY DEF Unlink, Return, At, lru
  <1>2. \A m \in Nodes, d \in Nodes : <<m, d>> \in graph => m \in cut' \/ <<m, d>> \in graph'
    <2> TAKE m \in Nodes, d \in Nodes
    <2>1. <<m, n>> \in graph => m \in Dependents(n)
      BY DEF Dependents
    <2> QED  BY <1>1, <2>1
  <1>3. Linked \subseteq Linked'
    <2>1. \A m \in Nodes : Reads[m] \subseteq Nodes
      BY NodesAssumption
    <2> QED  BY <1>1, <1>2, <2>1 DEF Linked
  <1>4. Explained \subseteq Explained'
    <2>1. \A u \in Threads : At(u, "drop") => call'[u].at = "drop" /\ call'[u].todo = call[u].todo
      BY <1>1 DEF At, TInv
    <2> QED  BY <1>1, <2>1, ExplainedGrows
  <1>5. GoodCache'
    BY <1>1, <1>3, <1>4, GoodCacheKept
  <1>6. GoodCalls'
    <2>1. \A u \in Threads \ {t} : call'[u] = call[u]
      BY <1>1 DEF TInv
    <2>2. GoodCall(call'[t], world', Explained', Linked', graph', cut')
      BY <1>1 DEF GoodCall, Idle, TInv
    <2>3. \A u \in Threads \ {t} : Good(call[u].node, call[u].result, world, Explained, Linked)
             => Good(call[u].node, call[u].result, world', Explained', Linked')
      BY <1>1, <1>3, <1>4, GoodMonotonic
    <2> QED  BY <1>1, <1>2, <1>3, <2>1, <2>2, <2>3, GoodCallsMoved DEF TInv
  <1> QED  BY <1>1, <1>5, <1>6 DEF GoodInv, GoodTables

LEMMA GoodInvalidateAll ==
    ASSUME TInv, GoodInv, NEW t \in Threads, InvalidateAll(t)
    PROVE  GoodInv'
  <1>1. /\ raced' = {m \in Nodes : OnItsWay(m)}
        /\ UNCHANGED <<world, graph, loaded, db, call, dirty, cut>>
    BY DEF InvalidateAll
  <1>2. Linked' = Linked
    BY <1>1 DEF Linked
  <1>3. DOMAIN cache' = {}
    BY KeepType DEF InvalidateAll, TInv, Typed, LRUTyped
  <1>4. ASSUME NEW u \in Threads
        PROVE  GoodCall(call'[u], world', Explained', Linked', graph', cut')
    <2> DEFINE c == call[u]
    <2>1. GoodCall(c, world, Explained, Linked, graph, cut) /\ c \in StagedCall
      BY DEF GoodInv, GoodCalls, TInv
    <2>2. ASSUME c.at = "put" PROVE Good(c.node, c.result, world', Explained', Linked')
      <3>1. c.node \in Nodes /\ c.node \in raced'
        BY <1>1, <2>1, <2>2 DEF StagedCall, Staged, OnItsWay, At
      <3>2. \A d \in Reads[c.node] : <<c.node, d>> \in Explained'
        BY <3>1, NodesAssumption DEF Explained
      <3> QED  BY <1>1, <1>2, <2>1, <2>2, <3>2 DEF Good, GoodCall
    <2> QED  BY <1>1, <1>2, <2>1, <2>2 DEF GoodCall
  <1> QED  BY <1>1, <1>3, <1>4 DEF GoodInv, GoodCache, GoodCalls, GoodTables

LEMMA GoodEdit ==
    ASSUME TInv, GoodInv, NEW n \in Nodes, NEW v \in Contents, Edit(n, v)
    PROVE  GoodInv'
  <1>1. /\ world' = [world EXCEPT ![n] = v] /\ dirty' = dirty \union {n}
        /\ UNCHANGED <<cache, graph, loaded, db, call, raced, cut>>
    BY DEF Edit, lru
  <1>2. Linked' = Linked
    BY <1>1 DEF Linked
  <1>3. Explained \subseteq Explained' /\ \A m \in Nodes : <<m, n>> \in Explained'
    BY <1>1 DEF Explained, At
  <1>4. ASSUME NEW m, NEW r, Good(m, r, world, Explained, Linked)
        PROVE  Good(m, r, world', Explained', Linked')
    <2>1. m \in Nodes /\ Reads[m] \subseteq Nodes
      BY <1>4, NodesAssumption DEF Good, Linked
    <2>2. \A d \in Nodes : d # n => world'[d] = world[d]
      BY <1>1 DEF TInv, Typed
    <2> QED  BY <1>2, <1>3, <1>4, <2>1, <2>2 DEF Good
  <1>5. GoodCache'
    BY <1>1, <1>4 DEF GoodInv, GoodCache
  <1>6. GoodCalls'
    BY <1>1, <1>2, <1>4 DEF GoodInv, GoodCalls, GoodCall
  <1> QED  BY <1>1, <1>5, <1>6 DEF GoodInv, GoodTables

LEMMA GoodStore ==
    ASSUME TInv, GoodInv, NEW t \in Threads, Store(t)
    PROVE  GoodInv'
  <1> DEFINE c == call[t]
             e == [c EXCEPT !.at = "answer"]
  <1>0. c \in StagedCall /\ c \in CallType /\ c.at = "put" /\ LRUTyped
    BY DEF TInv, Typed, LRUTyped, Store, At, StagedCall
  <1>1. call' = [call EXCEPT ![t] = e] /\ UNCHANGED <<world, graph, loaded, db, dirty, raced, cut>>
    BY DEF Store, Goto, history
  <1>2. e.at = "answer"
    BY <1>0 DEF CallType
  <1> HIDE DEF e
  <1>3. Explained \subseteq Explained' /\ Linked \subseteq Linked' /\ GoodCalls'
    BY <1>0, <1>1, <1>2, CalmStep DEF GoodCall
  <1>4. KeyOf(t) \in Keys /\ c.result \in Results /\ KeyOf(t)[1] = c.node
    BY <1>0, KeyStaged DEF KeyOf, StagedCall, Staged
  <1>5. /\ cache'[KeyOf(t)] = c.result
        /\ \A j \in DOMAIN cache' \ {KeyOf(t)} : j \in DOMAIN cache /\ cache'[j] = cache[j]
    BY <1>0, <1>4, PutType DEF Store
  <1>6. Good(c.node, c.result, world, Explained', Linked')
    <2>1. Good(c.node, c.result, world, Explained, Linked)
      BY <1>0 DEF GoodInv, GoodCalls, GoodCall
    <2> QED  BY <1>3, <2>1, GoodMonotonic
  <1>7. GoodCache'
    <2> SUFFICES ASSUME NEW k \in DOMAIN cache'
                 PROVE  /\ DOMAIN cache'[k].seen = Reads[k[1]]
                        /\ k[2] # Legacy => Good(k[1], cache'[k], world', Explained', Linked')
      BY DEF GoodCache
    <2>1. CASE k = KeyOf(t)
      BY <1>1, <1>4, <1>5, <1>6, <2>1 DEF Good
    <2>2. CASE k # KeyOf(t)
      <3>1. k \in DOMAIN cache /\ cache'[k] = cache[k]
        BY <1>5, <2>2
      <3>2. Good(k[1], cache[k], world, Explained, Linked) => Good(k[1], cache[k], world, Explained', Linked')
        BY <1>3, GoodMonotonic
      <3> QED  BY <1>1, <3>1, <3>2 DEF GoodInv, GoodCache
    <2> QED  BY <2>1, <2>2
  <1> QED  BY <1>1, <1>3, <1>7 DEF GoodInv, GoodTables

\* The steps that neither invalidate nor store.
LEMMA GoodCalm ==
    ASSUME TInv, GoodInv, NEW t \in Threads,
           \/ Link(t) \/ LookUp(t) \/ Compute(t) \/ ComputeFails(t) \/ Answer(t)
           \/ CheckCache(t) \/ CheckLoaded(t) \/ Fetch(t) \/ TakeFails(t) \/ Take(t)
    PROVE  GoodInv'
  <1> DEFINE c == call[t]
  <1>0. c \in CallType /\ c \in StagedCall /\ GoodCall(c, world, Explained, Linked, graph, cut)
    BY DEF TInv, StagedCall, GoodInv, GoodCalls
  <1>1. /\ c.at # "drop" /\ graph \subseteq graph'
        /\ UNCHANGED <<world, db, dirty, raced, cut>>
    BY DEF Link, LookUp, Compute, ComputeFails, Answer, CheckCache, CheckLoaded, Fetch, TakeFails,
           Take, At, history
  <1>2. \A k \in DOMAIN cache' : k \in DOMAIN cache /\ cache'[k] = cache[k]
    BY OnlyFewer DEF Take, lru
  <1>3. GoodTables'
    BY <1>1 DEF Link, LookUp, Compute, ComputeFails, Answer, CheckCache, CheckLoaded, Fetch,
           TakeFails, Take, GoodInv, GoodTables
  <1>4. ASSUME NEW e, call' = [call EXCEPT ![t] = e],
               Linked \subseteq Linked' => GoodCall(e, world', Explained', Linked', graph', cut')
        PROVE  GoodInv'
    <2>1. Explained \subseteq Explained' /\ Linked \subseteq Linked' /\ GoodCalls'
      BY <1>1, <1>4, CalmStep
    <2> QED  BY <1>1, <1>2, <1>3, <2>1, GoodCacheKept DEF GoodInv
  <1>5. ASSUME NEW e, call' = [call EXCEPT ![t] = e], e.at \in {"idle", "answer", "room"}
        PROVE  GoodInv'
    BY <1>4, <1>5 DEF GoodCall
  <1>6. ASSUME NEW e, call' = [call EXCEPT ![t] = e], e.at \in {"listed", "fetch", "take"}, e.node \in Rooms
        PROVE  GoodInv'
    BY <1>4, <1>6 DEF GoodCall
  <1>7. ASSUME NEW e, call' = [call EXCEPT ![t] = e], e.at = "compute", e.node \in Linked
        PROVE  GoodInv'
    BY <1>4, <1>7 DEF GoodCall
  <1>8. ASSUME Return(t) PROVE GoodInv'
    BY <1>5, <1>8 DEF Return, Idle
  <1>9. CASE Link(t)
    <2>1. PICK d \in c.todo : /\ graph' = graph \union {<<c.node, d>>}
                               /\ call' = [call EXCEPT ![t] = [c EXCEPT !.todo = @ \ {d}]]
      BY <1>9 DEF Link
    <2> DEFINE e == [c EXCEPT !.todo = @ \ {d}]
    <2>2. e.at = "link" /\ e.node = c.node /\ e.todo = c.todo \ {d} /\ c.at = "link"
      BY <1>0, <1>9 DEF Link, At, CallType
    <2> HIDE DEF e
    <2>3. GoodCall(e, world', Explained', Linked', graph', cut')
      BY <1>0, <1>1, <2>1, <2>2 DEF GoodCall
    <2> QED  BY <1>4, <2>1, <2>3 DEF e
  <1>10. CASE call' = [call EXCEPT ![t] = [c EXCEPT !.at = "answer", !.result = cache[KeyOf(t)]]]
    <2>1. [c EXCEPT !.at = "answer", !.result = cache[KeyOf(t)]].at = "answer"
      BY <1>0 DEF CallType
    <2> QED  BY <1>5, <1>10, <2>1
  <1>11. ASSUME c.node \in Linked, Goto(t, "compute") PROVE GoodInv'
    <2>1. [c EXCEPT !.at = "compute"].at = "compute" /\ [c EXCEPT !.at = "compute"].node = c.node
      BY <1>0 DEF CallType
    <2> QED  BY <1>7, <1>11, <2>1 DEF Goto
  <1>12. CASE LookUp(t)
    <2>1. c.node \in Nodes
      BY <1>0, <1>12 DEF LookUp, At, StagedCall, Staged
    <2>2. c.node \in Linked
      BY <1>0, <1>12, <2>1 DEF LookUp, At, GoodCall, Linked
    <2> QED  BY <1>10, <1>11, <1>12, <2>2 DEF LookUp
  <1>13. CASE Compute(t)
    <2> DEFINE r == [own |-> c.asked[c.node], seen |-> [d \in Reads[c.node] |-> world[d]],
                     alg |-> version, old |-> FALSE]
    <2>1. call' = [call EXCEPT ![t] = [c EXCEPT !.at = "put", !.result = r]]
      BY <1>13 DEF Compute
    <2>2. DOMAIN r.seen = Reads[c.node] /\ \A d \in Reads[c.node] : r.seen[d] = world[d]
      OBVIOUS
    <2> HIDE DEF r
    <2> DEFINE e == [c EXCEPT !.at = "put", !.result = r]
    <2>3. e.at = "put" /\ e.node = c.node /\ e.result = r
      BY <1>0 DEF CallType
    <2> HIDE DEF e
    <2>4. c.node \in Linked
      BY <1>0, <1>13 DEF GoodCall, Compute, At
    <2>5. Linked \subseteq Linked' => GoodCall(e, world', Explained', Linked', graph', cut')
      BY <1>1, <2>2, <2>3, <2>4 DEF GoodCall, Good
    <2> QED  BY <1>4, <2>1, <2>5 DEF e
  <1>14. CASE Answer(t)
    <2>1. [c EXCEPT !.at = "room", !.node = None, !.result = None].at = "room"
      BY <1>0 DEF CallType
    <2> QED  BY <1>5, <1>8, <1>14, <2>1 DEF Answer
  <1>15. CASE CheckCache(t)
    <2>1. PICK r \in c.rooms :
            \/ call' = [call EXCEPT ![t] = [c EXCEPT !.at = "fetch", !.node = r, !.rooms = @ \ {r}]]
            \/ call' = [call EXCEPT ![t] = [c EXCEPT !.at = "listed", !.node = r, !.rooms = @ \ {r}]]
      BY <1>15 DEF CheckCache
    <2>2. r \in Rooms
      BY <1>0 DEF CallType
    <2>3. ASSUME NEW s \in {"fetch", "listed"},
                 call' = [call EXCEPT ![t] = [c EXCEPT !.at = s, !.node = r, !.rooms = @ \ {r}]]
          PROVE  GoodInv'
      <3> DEFINE e == [c EXCEPT !.at = s, !.node = r, !.rooms = @ \ {r}]
      <3>1. e.at = s /\ e.node = r
        BY <1>0 DEF CallType
      <3>2. call' = [call EXCEPT ![t] = e]
        BY <2>3
      <3> HIDE DEF e
      <3> QED  BY <1>6, <2>2, <3>1, <3>2
    <2> QED  BY <2>1, <2>3
  <1>16. CASE CheckLoaded(t)
    <2>1. c.node \in Rooms
      BY <1>0, <1>16 DEF CheckLoaded, At, GoodCall
    <2>2. CASE Goto(t, "fetch")
      <3>1. [c EXCEPT !.at = "fetch"].at = "fetch" /\ [c EXCEPT !.at = "fetch"].node = c.node
        BY <1>0 DEF CallType
      <3> QED  BY <1>6, <2>1, <2>2, <3>1 DEF Goto
    <2> QED  BY <1>11, <1>16, <2>1, <2>2, RoomsLinked DEF CheckLoaded
  <1>17. CASE Fetch(t)
    <2>1. c.node \in Rooms
      BY <1>0, <1>17 DEF Fetch, At, GoodCall
    <2>2. CASE Goto(t, "take")
      <3>1. [c EXCEPT !.at = "take"].at = "take" /\ [c EXCEPT !.at = "take"].node = c.node
        BY <1>0 DEF CallType
      <3> QED  BY <1>6, <2>1, <2>2, <3>1 DEF Goto
    <2> QED  BY <1>10, <1>11, <1>17, <2>1, <2>2, RoomsLinked DEF Fetch
  <1>18. CASE Take(t)
    <2> DEFINE b == Borrowed(c.node)
    <2>1. c.node \in Rooms /\ c.node \in DOMAIN loaded /\ loaded[c.node] \in Results
      BY <1>0, <1>18 DEF Take, IsLoaded, At, GoodCall, TInv, Typed
    <2>2. DOMAIN b.seen = Reads[c.node]
      BY <2>1 DEF Borrowed, Results, GoodInv, GoodTables
    <2>3. call' = [call EXCEPT ![t] = [c EXCEPT !.at = "put", !.result = b]]
      BY <1>18 DEF Take
    <2> HIDE DEF b
    <2> DEFINE e == [c EXCEPT !.at = "put", !.result = b]
    <2>4. e.at = "put" /\ e.node = c.node /\ e.result = b
      BY <1>0 DEF CallType
    <2> HIDE DEF e
    <2>5. Good(c.node, b, world', Explained', Linked)
      BY <2>1, <2>2, RoomGood
    <2>6. Linked \subseteq Linked' => GoodCall(e, world', Explained', Linked', graph', cut')
      BY <2>4, <2>5 DEF GoodCall, Good
    <2> QED  BY <1>4, <2>3, <2>6 DEF e
  <1> QED  BY <1>8, <1>9, <1>12, <1>13, <1>14, <1>15, <1>16, <1>17, <1>18 DEF ComputeFails, TakeFails

LEMMA GoodPersist ==
    ASSUME TInv, GoodInv, NEW t \in Threads, Persist(t)
    PROVE  GoodInv'
  <1> DEFINE mine == CachedNodes(DOMAIN cache)
  <1>1. PICK key \in [mine -> DOMAIN cache] :
          /\ \A n \in mine : LastOf(n, key[n])
          /\ db' = [n \in RowsOf(version) \union mine |->
                     IF n \in mine THEN [res |-> cache[key[n]], alg |-> version] ELSE db[n]]
    BY DEF Persist
  <1>2. RowsOf(version) \subseteq DOMAIN db
    BY DEF RowsOf
  <1> HIDE DEF mine
  <1>3. ASSUME NEW n \in mine PROVE DOMAIN cache[key[n]].seen = Reads[n]
    <2>1. key[n] \in DOMAIN cache /\ key[n][1] = n
      BY <1>1 DEF LastOf
    <2> QED  BY <2>1 DEF GoodInv, GoodCache
  <1>4. ASSUME NEW n \in DOMAIN db' PROVE DOMAIN db'[n].res.seen = Reads[n]
    <2>1. CASE n \in mine
      BY <1>1, <1>3, <2>1
    <2>2. CASE n \notin mine
      BY <1>1, <1>2, <2>2 DEF GoodInv, GoodTables
    <2> QED  BY <2>1, <2>2
  <1>5. UNCHANGED <<world, cache, graph, loaded, call, dirty, raced, cut>>
    BY DEF Persist, lru, history
  <1>6. Explained' = Explained /\ Linked' = Linked
    BY <1>5 DEF Explained, Linked, At
  <1> QED  BY <1>4, <1>5, <1>6 DEF GoodInv, GoodCache, GoodCalls, GoodTables

LEMMA GoodRestart ==
    ASSUME TInv, GoodInv, Restart
    PROVE  GoodInv'
  <1>1. PICK ks \in SUBSET ((DOMAIN loaded') \X {Legacy}) : cache' = [k \in ks |-> loaded'[k[1]]]
    BY DEF Restart
  <1>2. \A n \in DOMAIN loaded' : DOMAIN loaded'[n].seen = Reads[n]
    BY DEF Restart, RowsOf, GoodInv, GoodTables
  <1>3. GoodCache'
    BY <1>1, <1>2 DEF GoodCache
  <1>4. GoodCalls'
    BY DEF Restart, GoodCalls, GoodCall, Idle
  <1>5. GoodTables'
    BY <1>2 DEF Restart, GoodInv, GoodTables
  <1> QED  BY <1>3, <1>4, <1>5 DEF GoodInv

LEMMA GoodStep == TInv /\ GoodInv /\ [Next]_vars => GoodInv'
  <1> SUFFICES ASSUME TInv, GoodInv, [Next]_vars PROVE GoodInv'
    OBVIOUS
  <1>1. ASSUME NEW t \in Threads, NEW e, Begin(t, e),
               GoodCall(e, world, Explained', Linked', graph, cut)
        PROVE  GoodInv'
    <2>1. /\ call[t].at # "drop" /\ call' = [call EXCEPT ![t] = e]
          /\ UNCHANGED <<world, cache, graph, loaded, db, dirty, raced, cut>>
      BY <1>1 DEF Begin, At, lru, history
    <2>2. Explained \subseteq Explained' /\ Linked \subseteq Linked' /\ GoodCalls'
      BY <1>1, <2>1, CalmStep
    <2> QED  BY <2>1, <2>2, GoodCacheKept DEF GoodInv, GoodTables
  <1>2. ASSUME NEW t \in Threads, NEW n \in Nodes,
               CallGetOrCompute(t, n) \/ CallInvalidate(t, n) \/ CallRemoveNode(t, n)
        PROVE  GoodInv'
    BY <1>1, <1>2 DEF CallGetOrCompute, CallInvalidate, CallRemoveNode, Idle, GoodCall
  <1>3. ASSUME NEW t \in Threads, NEW rs \in SUBSET Rooms, NEW changed \in SUBSET Rooms,
               CallProcessIncremental(t, rs, changed)
        PROVE  GoodInv'
    <2> DEFINE e == [Idle EXCEPT !.at = "drop", !.asked = world, !.todo = changed,
                                 !.rooms = rs, !.then = "room"]
    <2>1. Dropped(e).at \in {"drop", "room"}
      BY DEF Idle, Dropped
    <2>2. Begin(t, Dropped(e))
      BY <1>3 DEF CallProcessIncremental
    <2> HIDE DEF e
    <2> QED  BY <1>1, <2>1, <2>2 DEF GoodCall
  <1>4. CASE UNCHANGED vars
    <2>1. UNCHANGED <<world, cache, graph, loaded, db, call, dirty, raced, cut>>
      BY <1>4 DEF vars, lru, history
    <2>2. Explained' = Explained /\ Linked' = Linked
      BY <2>1 DEF Explained, Linked, At
    <2> QED  BY <2>1, <2>2 DEF GoodInv, GoodCache, GoodCalls, GoodTables
  <1> QED  BY <1>2, <1>3, <1>4, GoodCollect, GoodDrop, GoodUnlink, GoodInvalidateAll, GoodEdit,
              GoodStore, GoodCalm, GoodPersist, GoodRestart DEF Next

\* A cached result that read what is no longer current has one of four explanations
\* (delta_cache.py:393, 424, 428, 459): however calls interleave, an invalidation that
\* cascades leaves nothing else behind.
THEOREM StaleEntriesAreExplained == Spec => []StaleIsExplained
  <1>1. GoodInv /\ TInv => StaleIsExplained
    <2> SUFFICES ASSUME GoodInv, TInv, NEW k \in DOMAIN cache, k[2] # Legacy,
                        NEW d \in DOMAIN cache[k].seen, cache[k].seen[d] # world[d]
                 PROVE  \/ d \in dirty
                        \/ k[1] \in raced \union cut
                        \/ \E t \in Threads : At(t, "drop") /\ k[1] \in call[t].todo
      BY DEF StaleIsExplained
    <2>1. Good(k[1], cache[k], world, Explained, Linked)
      BY DEF GoodInv, GoodCache
    <2>2. <<k[1], d>> \in Explained
      BY <2>1 DEF Good
    <2> QED  BY <2>2 DEF Explained
  <1>2. Init => GoodInv
    BY DEF Init, GoodInv, GoodCache, GoodCalls, GoodTables, GoodCall, Idle
  <1> QED  BY <1>1, <1>2, GoodStep, TypeInvariant, PTL DEF Spec
=============================================================================

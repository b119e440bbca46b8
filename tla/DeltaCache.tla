----------------------------- MODULE DeltaCache -----------------------------
(***************************************************************************)
(* fireai/core/delta_cache.py: the cache of analysis results.  The LRU and *)
(* the dependency graph have a lock each, held for one operation of theirs *)
(* at a time; compute_fn runs outside both; the results of an earlier      *)
(* session (_loaded_results) are read and popped under no lock.            *)
(*                                                                         *)
(* The world the caller reads is a content per node.  A result is what it  *)
(* was computed from: the node's own content, the contents of the nodes    *)
(* compute_fn read (which the caller declares in depends_on) and the       *)
(* algorithm's version.  The hash of a content is the content itself; node *)
(* ids hold no colon.  Counters and timings are left out.                  *)
(***************************************************************************)
EXTENDS Naturals, FiniteSets

CONSTANTS
    Nodes,        \* rooms, cable routes, reports
    Rooms,        \* the nodes given to process_incremental: they read no other
    Reads,        \* the nodes whose content each node's compute_fn reads
    Contents,     \* contents of a node
    Versions,     \* versions of the algorithm
    Legacy,       \* the hash _load_from_db gives a loaded row: no content has it
    MaxSize,      \* maxsize of the LRU
    Ttl,          \* ttl_s > 0: an entry may be found expired
    Threads,
    None,
    MaxEdits,     \* bound: changes of the world in one behaviour
    MaxCalls,     \* bound: calls in one behaviour
    MaxSessions   \* bound: restarts in one behaviour

ASSUME NodesAssumption == /\ IsFiniteSet(Nodes) /\ Rooms \subseteq Nodes
                          /\ Reads \in [Nodes -> SUBSET Nodes]
                          /\ \A r \in Rooms : Reads[r] = {}
ASSUME HashAssumption == Legacy \notin Contents
ASSUME SizeAssumption == MaxSize \in Nat \ {0} /\ Ttl \in BOOLEAN
ASSUME BoundsAssumption == MaxEdits \in Nat /\ MaxCalls \in Nat /\ MaxSessions \in Nat

VARIABLES
    world,     \* the content of every node, outside the cache
    cache,     \* the LRU: results by node and hash
    older,     \* its order: <<j, k>> when j was used before k
    graph,     \* <<n, d>> when n depends on d
    loaded,    \* _loaded_results: results of an earlier session by room id
    db,        \* the delta_cache table
    version,   \* _algorithm_version of this session
    call,      \* the call of each thread
    edits, calls, sessions,  \* changes, calls and restarts so far
    dirty,     \* history: nodes edited since their last cascading invalidation
    raced,     \* history: nodes invalidated while a result of theirs was on its way
    cut        \* history: nodes that lost an edge to remove_node

lru == <<cache, older>>
bounds == <<edits, calls, sessions>>
history == <<dirty, raced, cut>>
vars == <<world, lru, graph, loaded, db, version, call, bounds, history>>

Keys == Nodes \X (Contents \union {Legacy})
Seen == UNION {[D -> Contents] : D \in SUBSET Nodes}
Results == [own : Contents, seen : Seen, alg : Versions, old : BOOLEAN]
Rows == [res : Results, alg : Versions]

\* A thread outside every call.
Idle == [at |-> "idle", node |-> None, asked |-> None, todo |-> {}, rooms |-> {},
         then |-> "idle", result |-> None]

Init == /\ world \in [Nodes -> Contents]
        /\ cache = [k \in {} |-> None] /\ older = {} /\ graph = {}
        /\ loaded = [n \in {} |-> None] /\ db = [n \in {} |-> None]
        /\ version \in Versions
        /\ call = [t \in Threads |-> Idle]
        /\ edits = 0 /\ calls = 0 /\ sessions = 0
        /\ dirty = {} /\ raced = {} /\ cut = {}

-----------------------------------------------------------------------------
(* _LRUCache and _DependencyGraph                                          *)

CachedNodes(ks) == {k[1] : k \in ks}

\* Only the keys of ks stay.
Keep(ks) == /\ cache' = [k \in ks |-> cache[k]]
            /\ older' = older \intersect (ks \X ks)

\* get, found: the entry becomes the most recently used
Hit(k) == /\ k \in DOMAIN cache
          /\ older' = {p \in older : p[1] # k /\ p[2] # k}
                        \union {<<j, k>> : j \in DOMAIN cache \ {k}}
          /\ UNCHANGED cache

\* get, not found or found expired
Miss(k) == \/ k \notin DOMAIN cache /\ UNCHANGED lru
           \/ Ttl /\ k \in DOMAIN cache /\ Keep(DOMAIN cache \ {k})

Oldest == {j \in DOMAIN cache : \A i \in DOMAIN cache : <<i, j>> \notin older}

\* The entries that put(k, ...) evicts.
Evicted(k) == IF k \in DOMAIN cache \/ Cardinality(DOMAIN cache) < MaxSize
              THEN {} ELSE Oldest

Put(k, r) ==
    LET ks == DOMAIN cache \ (Evicted(k) \union {k}) IN
    /\ cache' = [j \in ks \union {k} |-> IF j = k THEN r ELSE cache[j]]
    /\ older' = (older \intersect (ks \X ks)) \union (ks \X {k})

\* Mutated form of Dependents: the nodes n itself depends on.
Dependencies(n) == {d \in Nodes : <<n, d>> \in graph}

\* get_all_dependents: whatever reaches n along the edges
Dependents(n) ==
    {m \in Nodes : \A S \in SUBSET Nodes :
        ({k \in Nodes : <<k, n>> \in graph} \subseteq S
           /\ \A e \in graph : e[2] \in S => e[1] \in S) => m \in S}

-----------------------------------------------------------------------------
(* The world and the calls                                                 *)

At(t, stage) == call[t].at = stage
Goto(t, stage) == call' = [call EXCEPT ![t].at = stage]
Return(t) == call' = [call EXCEPT ![t] = Idle]
KeyOf(t) == <<call[t].node, call[t].asked[call[t].node]>>

\* The building changes.
Edit(n, c) ==
    /\ edits < MaxEdits /\ c # world[n]
    /\ edits' = edits + 1
    /\ world' = [world EXCEPT ![n] = c]
    /\ dirty' = dirty \union {n}
    /\ UNCHANGED <<lru, graph, loaded, db, version, call, calls, sessions, raced, cut>>

\* A call begins in the given state, the contents read by its caller just before.
Begin(t, state) ==
    /\ At(t, "idle") /\ calls < MaxCalls
    /\ calls' = calls + 1
    /\ call' = [call EXCEPT ![t] = state]
    /\ UNCHANGED <<world, lru, graph, loaded, db, version, edits, sessions, history>>

\* The nodes of a call's todo are invalidated one by one; after that it goes on.
Dropped(state) == IF state.todo # {} THEN state
                  ELSE IF state.then = "idle" THEN Idle ELSE [state EXCEPT !.at = state.then]

CallGetOrCompute(t, n) ==
    Begin(t, [Idle EXCEPT !.at = "link", !.node = n, !.asked = world, !.todo = Reads[n]])
CallInvalidate(t, n) == Begin(t, [Idle EXCEPT !.at = "collect", !.node = n])
CallRemoveNode(t, n) ==
    Begin(t, [Idle EXCEPT !.at = "drop", !.node = n, !.todo = {n}, !.then = "unlink"])
CallProcessIncremental(t, rs, changed) ==
    Begin(t, Dropped([Idle EXCEPT !.at = "drop", !.asked = world, !.todo = changed,
                                  !.rooms = rs, !.then = "room"]))

-----------------------------------------------------------------------------
(* get_or_compute                                                          *)

\* add_dependency for each of depends_on
Link(t) ==
    /\ At(t, "link") /\ call[t].todo # {}
    /\ \E d \in call[t].todo :
         /\ graph' = graph \union {<<call[t].node, d>>}
         /\ call' = [call EXCEPT ![t].todo = @ \ {d}]
    /\ UNCHANGED <<world, lru, loaded, db, version, bounds, history>>

LookUp(t) ==
    /\ At(t, "link") /\ call[t].todo = {}
    /\ \/ /\ Hit(KeyOf(t))
          /\ call' = [call EXCEPT ![t].at = "answer", ![t].result = cache[KeyOf(t)]]
       \/ Miss(KeyOf(t)) /\ Goto(t, "compute")
    /\ UNCHANGED <<world, graph, loaded, db, version, bounds, history>>

\* compute_fn, outside every lock, and analysis_func of process_incremental
Compute(t) ==
    /\ At(t, "compute")
    /\ call' = [call EXCEPT ![t].at = "put", ![t].result =
         [own |-> call[t].asked[call[t].node],
          seen |-> [d \in Reads[call[t].node] |-> world[d]],
          alg |-> version, old |-> FALSE]]
    /\ UNCHANGED <<world, lru, graph, loaded, db, version, bounds, history>>

\* It raises, and the call is over.
ComputeFails(t) ==
    /\ At(t, "compute")
    /\ Return(t)
    /\ UNCHANGED <<world, lru, graph, loaded, db, version, bounds, history>>

\* The put of a result, computed or taken from the earlier session.
Store(t) ==
    /\ At(t, "put")
    /\ Put(KeyOf(t), call[t].result)
    /\ Goto(t, "answer")
    /\ UNCHANGED <<world, graph, loaded, db, version, bounds, history>>

\* The result is returned, or appended to those of process_incremental.
Answer(t) ==
    /\ At(t, "answer")
    /\ IF call[t].rooms = {} THEN Return(t)
       ELSE call' = [call EXCEPT ![t].at = "room", ![t].node = None, ![t].result = None]
    /\ UNCHANGED <<world, lru, graph, loaded, db, version, bounds, history>>

-----------------------------------------------------------------------------
(* invalidate, invalidate_room, invalidate_all and remove_node             *)

\* invalidate with cascade: the dependents, under the lock of the graph
Collect(t) ==
    /\ At(t, "collect")
    /\ call' = [call EXCEPT ![t].at = "drop",
                            ![t].todo = {call[t].node} \union Dependents(call[t].node)]
    /\ dirty' = dirty \ {call[t].node}
    /\ UNCHANGED <<world, lru, graph, loaded, db, version, bounds, raced, cut>>

OnItsWay(m) == \E u \in Threads : At(u, "put") /\ call[u].node = m

\* invalidate_prefix of one node, under the lock of the LRU
Drop(t) ==
    /\ At(t, "drop")
    /\ \E m \in call[t].todo :
         /\ Keep({k \in DOMAIN cache : k[1] # m})
         /\ call' = [call EXCEPT ![t] = Dropped([call[t] EXCEPT !.todo = call[t].todo \ {m}])]
         /\ raced' = IF OnItsWay(m) THEN raced \union {m} ELSE raced \ {m}
    /\ UNCHANGED <<world, graph, loaded, db, version, bounds, dirty, cut>>

\* _DependencyGraph.remove_node: the edges of the node, both ways
Unlink(t) ==
    LET n == call[t].node IN
    /\ At(t, "unlink")
    /\ graph' = {e \in graph : e[1] # n /\ e[2] # n}
    /\ cut' = cut \union {n} \union Dependents(n)
    /\ Return(t)
    /\ UNCHANGED <<world, lru, loaded, db, version, bounds, dirty, raced>>

\* invalidate_all and clear: the LRU only
InvalidateAll(t) ==
    /\ At(t, "idle") /\ calls < MaxCalls
    /\ calls' = calls + 1
    /\ Keep({})
    /\ raced' = {m \in Nodes : OnItsWay(m)}
    /\ UNCHANGED <<world, graph, loaded, db, version, call, edits, sessions, dirty, cut>>

-----------------------------------------------------------------------------
(* process_incremental: one room after the other                           *)

\* has_valid_entry, the look into the LRU
CheckCache(t) ==
    /\ At(t, "room")
    /\ \E r \in call[t].rooms :
         LET k == <<r, call[t].asked[r]>>
             on(stage) == call' = [call EXCEPT ![t].at = stage, ![t].node = r,
                                               ![t].rooms = @ \ {r}]
         IN  \/ Hit(k) /\ on("fetch")
             \/ Miss(k) /\ on("listed")
    /\ UNCHANGED <<world, graph, loaded, db, version, bounds, history>>

IsLoaded(t) == call[t].node \in DOMAIN loaded

\* has_valid_entry, the look into _loaded_results: by the room's id alone
CheckLoaded(t) ==
    /\ At(t, "listed")
    /\ Goto(t, IF IsLoaded(t) THEN "fetch" ELSE "compute")
    /\ UNCHANGED <<world, lru, graph, loaded, db, version, bounds, history>>

\* the second look into the LRU, by then perhaps in vain
Fetch(t) ==
    /\ At(t, "fetch")
    /\ \/ /\ Hit(KeyOf(t))
          /\ call' = [call EXCEPT ![t].at = "answer", ![t].result = cache[KeyOf(t)]]
       \/ Miss(KeyOf(t)) /\ Goto(t, IF IsLoaded(t) THEN "take" ELSE "compute")
    /\ UNCHANGED <<world, graph, loaded, db, version, bounds, history>>

Borrowed(r) == [loaded[r] EXCEPT !.old = TRUE]

\* Mutated form of Take: the result is read and stays where it was.
TakeCopy(t) ==
    /\ At(t, "take") /\ IsLoaded(t)
    /\ call' = [call EXCEPT ![t].at = "put", ![t].result = Borrowed(call[t].node)]
    /\ UNCHANGED <<world, lru, graph, loaded, db, version, bounds, history>>

\* _loaded_results.pop(room_id)
Take(t) ==
    /\ At(t, "take") /\ IsLoaded(t)
    /\ call' = [call EXCEPT ![t].at = "put", ![t].result = Borrowed(call[t].node)]
    /\ loaded' = [r \in DOMAIN loaded \ {call[t].node} |-> loaded[r]]
    /\ UNCHANGED <<world, lru, graph, db, version, bounds, history>>

\* Another thread took it since: KeyError, and the call is over.
TakeFails(t) ==
    /\ At(t, "take") /\ ~IsLoaded(t)
    /\ Return(t)
    /\ UNCHANGED <<world, lru, graph, loaded, db, version, bounds, history>>

-----------------------------------------------------------------------------
(* persist and _load_from_db                                               *)

\* k is the entry of n that persist writes last: the one used last.
LastOf(n, k) == k[1] = n /\ \A j \in DOMAIN cache : j[1] = n => <<k, j>> \notin older

\* Mutated form of RowsOf: the query does not ask for the version.
AllRows(v) == DOMAIN db

\* WHERE algorithm_version = v
RowsOf(v) == {n \in DOMAIN db : db[n].alg = v}

\* One transaction: rows of another algorithm go, one row per cached node is
\* written over and over, in the order of the LRU.
Persist(t) ==
    LET mine == CachedNodes(DOMAIN cache) IN
    /\ At(t, "idle") /\ calls < MaxCalls
    /\ calls' = calls + 1
    /\ \E key \in [mine -> DOMAIN cache] :
         /\ \A n \in mine : LastOf(n, key[n])
         /\ db' = [n \in RowsOf(version) \union mine |->
                     IF n \in mine THEN [res |-> cache[key[n]], alg |-> version] ELSE db[n]]
    /\ UNCHANGED <<world, lru, graph, loaded, version, call, edits, sessions, history>>

Total(o, ks) == \A j, k \in ks : /\ <<j, j>> \notin o
                                 /\ j # k => (<<j, k>> \in o <=> <<k, j>> \notin o)
                                 /\ \A i \in ks : <<i, j>> \in o /\ <<j, k>> \in o => <<i, k>> \in o

\* The process stops at any point; the next one loads the rows of its algorithm,
\* in the order the table gives them, into _loaded_results and into the LRU.
Restart ==
    /\ sessions < MaxSessions
    /\ sessions' = sessions + 1
    /\ version' \in Versions
    /\ loaded' = [n \in RowsOf(version') |-> db[n].res]
    /\ \E ks \in SUBSET ((DOMAIN loaded') \X {Legacy}) :
         /\ \/ ks = (DOMAIN loaded') \X {Legacy} /\ Cardinality(ks) <= MaxSize
            \/ Cardinality(ks) = MaxSize
         /\ cache' = [k \in ks |-> loaded'[k[1]]]
         /\ older' \in SUBSET (ks \X ks) /\ Total(older', ks)
    /\ graph' = {} /\ call' = [t \in Threads |-> Idle]
    /\ raced' = {} /\ cut' = {}
    /\ UNCHANGED <<world, db, edits, calls, dirty>>

Next == \/ \E n \in Nodes, c \in Contents : Edit(n, c)
        \/ \E t \in Threads, n \in Nodes :
             CallGetOrCompute(t, n) \/ CallInvalidate(t, n) \/ CallRemoveNode(t, n)
        \/ \E t \in Threads, rs \in (SUBSET Rooms) \ {{}}, changed \in SUBSET Rooms :
             CallProcessIncremental(t, rs, changed)
        \/ \E t \in Threads :
             \/ Link(t) \/ LookUp(t) \/ Compute(t) \/ ComputeFails(t) \/ Store(t) \/ Answer(t)
             \/ Collect(t) \/ Drop(t) \/ Unlink(t) \/ InvalidateAll(t)
             \/ CheckCache(t) \/ CheckLoaded(t) \/ Fetch(t)
             \/ Take(t) \/ TakeFails(t) \/ Persist(t)
        \/ Restart

Spec == Init /\ [][Next]_vars

-----------------------------------------------------------------------------
(* Properties                                                              *)

CallType == [at : {"idle", "link", "compute", "put", "answer", "collect", "drop",
                   "unlink", "room", "listed", "fetch", "take"},
             node : Nodes \union {None}, asked : [Nodes -> Contents] \union {None},
             todo : SUBSET Nodes, rooms : SUBSET Rooms,
             then : {"idle", "unlink", "room"}, result : Results \union {None}]

Typed ==
    /\ world \in [Nodes -> Contents]
    /\ DOMAIN cache \subseteq Keys /\ \A k \in DOMAIN cache : cache[k] \in Results
    /\ older \subseteq (DOMAIN cache) \X (DOMAIN cache)
    /\ graph \subseteq Nodes \X Nodes
    /\ DOMAIN loaded \subseteq Nodes /\ \A n \in DOMAIN loaded : loaded[n] \in Results
    /\ DOMAIN db \subseteq Nodes /\ \A n \in DOMAIN db : db[n] \in Rows
    /\ version \in Versions
    /\ call \in [Threads -> CallType]
    /\ edits \in 0 .. MaxEdits /\ calls \in 0 .. MaxCalls /\ sessions \in 0 .. MaxSessions
    /\ dirty \subseteq Nodes /\ raced \subseteq Nodes /\ cut \subseteq Nodes

\* Whatever a call answers was computed by the algorithm of this session, and from
\* the very content asked about, unless it came from an earlier session
\* (delta_cache.py:364, 533), however calls, invalidations and restarts interleave.
AnswerIsOwn == \A t \in Threads :
    At(t, "answer") =>
        /\ call[t].result.alg = version
        /\ call[t].result.old \/ call[t].result.own = call[t].asked[call[t].node]

Borrowers(r) == {<<k, "cached">> : k \in {j \in DOMAIN cache :
                                            j[1] = r /\ j[2] # Legacy /\ cache[j].old}}
    \union {<<t, "held">> : t \in {u \in Threads : /\ At(u, "put") /\ call[u].node = r
                                                   /\ call[u].result.old}}
    \union {<<n, "loaded">> : n \in {r} \intersect DOMAIN loaded}

\* What an earlier session left of a room answers for one content of it at most:
\* once taken (delta_cache.py:603) it is cached under that content, and a room that
\* changes again is analysed.
BorrowedOnce == \A r \in Rooms : \A b, c \in Borrowers(r) : b = c

\* A cached result that read a content no longer current is explained: its
\* dependency has not been invalidated since it changed, its own removal is next
\* (delta_cache.py:428), it was on its way to the cache when it was invalidated
\* (delta_cache.py:393), or remove_node took the edge it depends on.
StaleIsExplained ==
    \A k \in {j \in DOMAIN cache : j[2] # Legacy} : \A d \in DOMAIN cache[k].seen :
        \/ cache[k].seen[d] = world[d]
        \/ d \in dirty
        \/ k[1] \in raced \union cut
        \/ \E t \in Threads : At(t, "drop") /\ k[1] \in call[t].todo

=============================================================================

------------------------- MODULE EventProcessorProofs -------------------------
(***************************************************************************)
(* Theorems about EventProcessor for every set of events, of workers and   *)
(* of callers of flush_queues, every way to make and use a processor, and  *)
(* any threshold, window and number of retries.                            *)
(***************************************************************************)
EXTENDS EventProcessor, SequenceTheorems, FiniteSetTheorems, TLAPS

-----------------------------------------------------------------------------
(* The breaker.  What failure_counts counts is never more than what was    *)
(* recorded: a thread's copy is of some earlier failure_counts, and every  *)
(* addition is recorded with it.  So the sum that opens the breaker is a   *)
(* reason, however many counts the copies overwrite.                       *)

Counts == [Clock -> Nat]

Stage == {"unborn", "loop", "take", "retry", "exited", "stuck", "screen", "half_opens",
          "stages", "put_back", "succeeded", "failed", "records", "copies", "adds",
          "tallies", "stamps", "requeue"}

CountsTyped ==
    /\ failures \in Counts /\ kept \in [Thread -> Counts] /\ started \in [Thread -> Clock]
    /\ raised \in Nat /\ clock \in Clock /\ setup \in Setups
    /\ pc \in [Thread -> Stage]

CountInv ==
    /\ CountsTyped
    /\ Total(failures) <= raised
    /\ \A t \in Thread : Total(kept[t]) <= raised
    /\ circuit # "closed" => raised >= Threshold
    /\ \A t \in Thread : pc[t] = "half_opens" => raised >= Threshold

Tallied(counts) == UNION {{u} \X (1 .. counts[u]) : u \in Clock}

LEMMA ClockIsFinite == IsFiniteSet(Clock) /\ Clock \subseteq Nat /\ Window + 1 \in Clock
  <1>1. Window + 1 \in Int /\ MaxClock \in Int
    BY SizesAssumption
  <1>2. IsFiniteSet(Window + 1 .. MaxClock)
    BY <1>1, FS_Interval
  <1> QED  BY <1>2, SizesAssumption DEF Clock

LEMMA TotalIsFinite ==
    ASSUME NEW counts \in Counts
    PROVE  IsFiniteSet(Tallied(counts)) /\ Total(counts) = Cardinality(Tallied(counts))
           /\ Total(counts) \in Nat
  <1> DEFINE Of(u) == {u} \X (1 .. counts[u])
             T == {Of(u) : u \in Clock}
             f == [u \in Clock |-> Of(u)]
  <1>1. \A u \in Clock : IsFiniteSet(Of(u))
    <2> SUFFICES ASSUME NEW u \in Clock PROVE IsFiniteSet(Of(u))
      OBVIOUS
    <2>1. 1 \in Int /\ counts[u] \in Int
      BY DEF Counts
    <2>2. IsFiniteSet(1 .. counts[u]) /\ IsFiniteSet({u})
      BY <2>1, FS_Interval, FS_Singleton
    <2> QED  BY <2>2, FS_Product
  <1>2. f \in Surjection(Clock, T)
    BY DEF Surjection
  <1>3. IsFiniteSet(T)
    <2> HIDE DEF f, T
    <2> QED  BY <1>2, ClockIsFinite, FS_Surjection
  <1>4. \A x \in T : IsFiniteSet(x)
    BY <1>1
  <1>5. IsFiniteSet(UNION T)
    <2> HIDE DEF T
    <2> QED  BY <1>3, <1>4, FS_UNION
  <1>6. Tallied(counts) = UNION T
    BY DEF Tallied
  <1>7. IsFiniteSet(Tallied(counts))
    BY <1>5, <1>6
  <1> QED  BY <1>7, FS_CardinalityType DEF Total, Tallied

LEMMA TotalOfLess ==
    ASSUME NEW c \in Counts, NEW d \in Counts, \A u \in Clock : c[u] <= d[u]
    PROVE  Total(c) <= Total(d)
  <1>1. Tallied(c) \subseteq Tallied(d)
    <2> SUFFICES ASSUME NEW p \in Tallied(c) PROVE p \in Tallied(d)
      OBVIOUS
    <2>1. PICK u \in Clock : p \in {u} \X (1 .. c[u])
      BY DEF Tallied
    <2>2. 1 .. c[u] \subseteq 1 .. d[u]
      BY DEF Counts
    <2>3. p \in {u} \X (1 .. d[u])
      BY <2>1, <2>2
    <2> QED  BY <2>3 DEF Tallied
  <1>2. Cardinality(Tallied(c)) <= Cardinality(Tallied(d))
    BY <1>1, TotalIsFinite, FS_Subset
  <1> QED  BY <1>2, TotalIsFinite

LEMMA TotalOfAdded ==
    ASSUME NEW c \in Counts, NEW u \in Clock
    PROVE  [c EXCEPT ![u] = @ + 1] \in Counts
           /\ Total([c EXCEPT ![u] = @ + 1]) = Total(c) + 1
  <1>1. PICK d : d = [c EXCEPT ![u] = @ + 1]
    OBVIOUS
  <1>2. PICK n \in Nat : n = c[u] + 1
    BY DEF Counts
  <1>3. d \in Counts /\ d[u] = n /\ \A v \in Clock : v # u => d[v] = c[v]
    BY <1>1, <1>2 DEF Counts
  <1>4. 1 .. n = (1 .. c[u]) \cup {n} /\ n \notin 1 .. c[u]
    BY <1>2 DEF Counts
  <1>5. Tallied(d) = Tallied(c) \cup {<<u, n>>}
    <2>1. ASSUME NEW p \in Tallied(d) PROVE p \in Tallied(c) \cup {<<u, n>>}
      <3>1. PICK v \in Clock : p \in {v} \X (1 .. d[v])
        BY DEF Tallied
      <3>2. CASE v # u
        BY <1>3, <3>1, <3>2 DEF Tallied
      <3>3. CASE v = u
        <4>1. p \in {u} \X ((1 .. c[u]) \cup {n})
          BY <1>3, <1>4, <3>1, <3>3
        <4>2. p \in {u} \X (1 .. c[u]) \/ p = <<u, n>>
          BY <4>1
        <4> QED  BY <4>2 DEF Tallied
      <3> QED  BY <3>2, <3>3
    <2>2. ASSUME NEW p \in Tallied(c) PROVE p \in Tallied(d)
      <3>1. PICK v \in Clock : p \in {v} \X (1 .. c[v])
        BY DEF Tallied
      <3>2. 1 .. c[v] \subseteq 1 .. d[v]
        BY <1>3, <1>4
      <3>3. p \in {v} \X (1 .. d[v])
        BY <3>1, <3>2
      <3> QED  BY <3>3 DEF Tallied
    <2>3. <<u, n>> \in Tallied(d)
      <3>1. <<u, n>> \in {u} \X (1 .. d[u])
        BY <1>3, <1>4
      <3> QED  BY <3>1 DEF Tallied
    <2> QED  BY <2>1, <2>2, <2>3
  <1>6. <<u, n>> \notin Tallied(c)
    <2> SUFFICES ASSUME NEW v \in Clock, <<u, n>> \in {v} \X (1 .. c[v]) PROVE FALSE
      BY DEF Tallied
    <2> QED  BY <1>4
  <1>7. Cardinality(Tallied(d)) = Cardinality(Tallied(c)) + 1
    BY <1>5, <1>6, TotalIsFinite, FS_AddElement
  <1>8. Total(d) = Total(c) + 1
    BY <1>3, <1>7, TotalIsFinite
  <1> QED  BY <1>1, <1>3, <1>8

LEMMA TotalOfNone == NoFailures \in Counts /\ Total(NoFailures) = 0
  <1>1. NoFailures \in Counts /\ \A u \in Clock : NoFailures[u] = 0
    BY DEF NoFailures, Counts
  <1>2. \A u \in Clock : {u} \X (1 .. NoFailures[u]) = {}
    BY <1>1
  <1>3. Tallied(NoFailures) = {}
    BY <1>2 DEF Tallied
  <1>4. Cardinality(Tallied(NoFailures)) = 0
    BY <1>3, FS_EmptySet
  <1> QED  BY <1>1, <1>4, TotalIsFinite

LEMMA GotoTyped ==
    ASSUME pc \in [Thread -> Stage], NEW t \in Thread, NEW there \in Stage, Goto(t, there)
    PROVE  /\ pc' \in [Thread -> Stage]
           /\ \A u \in Thread : pc'[u] = IF u = t THEN there ELSE pc[u]
  BY DEF Goto

\* A step that records nothing.
LEMMA CountsKept ==
    ASSUME CountInv, UNCHANGED <<breakerVars, setup, raised>>, clock' \in Clock,
           pc' \in [Thread -> Stage],
           \A t \in Thread : pc'[t] = "half_opens" => pc[t] = "half_opens"
    PROVE  CountInv'
  <1>1. CountsTyped'
    BY DEF CountInv, CountsTyped, breakerVars
  <1>2. /\ failures' = failures /\ kept' = kept /\ raised' = raised /\ circuit' = circuit
    BY DEF breakerVars
  <1>3. Total(failures)' = Total(failures)
        /\ \A t \in Thread : Total(kept'[t]) = Total(kept[t])
    BY <1>2
  <1> QED  BY <1>1, <1>2, <1>3 DEF CountInv

\* The sections that go on without the breaker.
LEMMA GotoKeepsCounts ==
    ASSUME CountInv, UNCHANGED <<breakerVars, setup, raised, clock>>,
           NEW t \in Thread, NEW there \in Stage \ {"half_opens"}, Goto(t, there)
    PROVE  CountInv'
  <1>1. pc \in [Thread -> Stage] /\ clock \in Clock
    BY DEF CountInv, CountsTyped
  <1>2. /\ pc' \in [Thread -> Stage]
        /\ \A u \in Thread : pc'[u] = IF u = t THEN there ELSE pc[u]
    BY <1>1, GotoTyped
  <1>3. \A u \in Thread : pc'[u] = "half_opens" => pc[u] = "half_opens"
    BY <1>2
  <1> QED  BY <1>1, <1>2, <1>3, CountsKept

LEMMA CallsKeepCounts ==
    ASSUME CountInv, Calls \/ Start \/ Pause \/ Tick \/ \E f \in Flusher : Flush(f)
    PROVE  CountInv'
  <1>1. pc \in [Thread -> Stage] /\ clock \in Clock /\ setup \in Setups
    BY DEF CountInv, CountsTyped
  <1>2. CASE Calls
    <2>1. UNCHANGED <<breakerVars, setup, raised, clock, pc>>
      BY <1>2 DEF Calls, Miss, Submit, Hit, Overflow, queueVars, historyVars
    <2> QED  BY <1>1, <2>1, CountsKept
  <1>3. CASE Pause
    <2>1. UNCHANGED <<breakerVars, setup, raised, clock, pc>>
      BY <1>3 DEF Pause, queueVars, historyVars
    <2> QED  BY <1>1, <2>1, CountsKept
  <1>4. CASE Start
    <2>1. UNCHANGED <<breakerVars, setup, raised, clock>>
      BY <1>4 DEF Start, queueVars, historyVars
    <2>2. PICK new : pc' = [t \in Thread |-> IF t \in new THEN "loop" ELSE pc[t]]
      BY <1>4 DEF Start
    <2>3. /\ pc' \in [Thread -> Stage]
          /\ \A t \in Thread : pc'[t] = "half_opens" => pc[t] = "half_opens"
      BY <1>1, <2>2 DEF Stage
    <2> QED  BY <1>1, <2>1, <2>3, CountsKept
  <1>5. CASE Tick
    <2>1. UNCHANGED <<breakerVars, setup, raised, pc>>
      BY <1>5 DEF Tick, queueVars, historyVars
    <2>2. setup.until \in 0 .. MaxClock
      BY <1>1, SetupsAssumption
    <2>3. clock' \in Clock
      BY <1>1, <1>5, <2>2, SizesAssumption DEF Tick, Clock
    <2> QED  BY <1>1, <2>1, <2>3, CountsKept
  <1>6. ASSUME NEW f \in Flusher, Flush(f) PROVE CountInv'
    <2>1. UNCHANGED <<breakerVars, setup, raised, clock>> /\ Goto(f, "loop") /\ f \in Thread
      BY <1>6 DEF Flush, queueVars, historyVars, Goto, Thread
    <2> QED  BY <2>1, GotoKeepsCounts DEF Stage
  <1> QED  BY <1>2, <1>3, <1>4, <1>5, <1>6

LEMMA LoopKeepsCounts ==
    ASSUME CountInv, NEW t \in Thread,
           \/ Look(t) \/ Take(t) \/ TakeNothing(t) \/ Exit(t) \/ Drained(t) \/ Succeed(t)
           \/ PutBack(t) \/ Settle(t) \/ TakeRetry(t) \/ Requeue(t) \/ Filter(t)
           \/ StagesPass(t) \/ StageRefuses(t)
    PROVE  CountInv'
  <1>1. pc \in [Thread -> Stage] /\ clock \in Clock /\ setup \in Setups
    BY DEF CountInv, CountsTyped
  <1>2. ASSUME UNCHANGED <<breakerVars, setup, raised, clock, pc>> PROVE CountInv'
    BY <1>1, <1>2, CountsKept
  <1>3. CASE Take(t)
    <2>1. UNCHANGED <<breakerVars, setup, raised, clock>> /\ Goto(t, "screen")
      BY <1>3 DEF Take, historyVars
    <2> QED  BY <2>1, GotoKeepsCounts DEF Stage
  <1>4. CASE Look(t) \/ TakeNothing(t) \/ Exit(t)
    BY <1>4, GotoKeepsCounts DEF Look, TakeNothing, Exit, Stage, queueVars, historyVars
  <1>5. CASE Drained(t)
    BY <1>2, <1>5, GotoKeepsCounts DEF Drained, Stage, queueVars, historyVars
  <1>6. ASSUME NEW q, PutInto(t, q) PROVE CountInv'
    <2>1. UNCHANGED <<breakerVars, setup, raised, clock>>
      BY <1>6 DEF PutInto
    <2>2. \E there \in {"stuck", "retry", "loop"} : Goto(t, there)
      BY <1>6 DEF PutInto
    <2> QED  BY <2>1, <2>2, GotoKeepsCounts DEF Stage
  <1>7. CASE TakeRetry(t)
    <2>1. UNCHANGED <<breakerVars, setup, raised, clock>>
      BY <1>7 DEF TakeRetry, historyVars
    <2>2. Goto(t, "requeue") \/ Goto(t, "loop")
      BY <1>7 DEF TakeRetry
    <2> QED  BY <2>1, <2>2, GotoKeepsCounts DEF Stage
  <1>8. CASE Requeue(t)
    <2>1. UNCHANGED <<breakerVars, setup, raised, clock>>
      BY <1>8 DEF Requeue
    <2>2. Goto(t, "stuck") \/ Goto(t, "loop")
      BY <1>8 DEF Requeue
    <2> QED  BY <2>1, <2>2, GotoKeepsCounts DEF Stage
  <1>9. CASE Filter(t)
    <2>1. UNCHANGED <<breakerVars, setup, raised, clock>>
      BY <1>9 DEF Filter, queueVars
    <2>2. Goto(t, "retry") \/ Goto(t, "loop")
      BY <1>9 DEF Filter
    <2> QED  BY <2>1, <2>2, GotoKeepsCounts DEF Stage
  <1>10. CASE StagesPass(t) \/ StageRefuses(t)
    <2>1. UNCHANGED <<breakerVars, setup, raised, clock>>
      BY <1>10 DEF StagesPass, StageRefuses, queueVars, historyVars
    <2>2. Goto(t, "succeeded") \/ Goto(t, "failed")
      BY <1>10 DEF StagesPass, StageRefuses
    <2> QED  BY <2>1, <2>2, GotoKeepsCounts DEF Stage
  <1> QED  BY <1>3, <1>4, <1>5, <1>6, <1>7, <1>8, <1>9, <1>10 DEF Succeed, PutBack, Settle

LEMMA BreakerKeepsCounts ==
    ASSUME CountInv, NEW t \in Thread,
           \/ CheckCircuit(t) \/ HalfOpen(t) \/ Raise(t) \/ Copy(t) \/ Replace(t)
           \/ CopyFails(t) \/ Add(t) \/ Tally(t) \/ Stamp(t)
    PROVE  CountInv'
  <1>1. /\ pc \in [Thread -> Stage] /\ clock \in Clock /\ setup \in Setups
        /\ failures \in Counts /\ kept \in [Thread -> Counts]
        /\ started \in [Thread -> Clock] /\ raised \in Nat
        /\ Total(failures) <= raised /\ \A u \in Thread : Total(kept[u]) <= raised
        /\ Total(failures) \in Nat /\ \A u \in Thread : Total(kept[u]) \in Nat
    BY TotalIsFinite DEF CountInv, CountsTyped
  <1>2. ASSUME NEW there \in Stage, Goto(t, there)
        PROVE  /\ pc' \in [Thread -> Stage]
               /\ \A u \in Thread : pc'[u] = IF u = t THEN there ELSE pc[u]
    BY <1>1, <1>2, GotoTyped
  <1>3. CASE CheckCircuit(t)
    <2>1. UNCHANGED <<breakerVars, setup, raised, clock>>
      BY <1>3 DEF CheckCircuit, queueVars, historyVars
    <2>2. CASE Goto(t, "stages") \/ Goto(t, "put_back")
      BY <2>1, <2>2, GotoKeepsCounts DEF Stage
    <2>3. CASE Goto(t, "half_opens") /\ circuit = "open"
      <3>1. raised >= Threshold
        BY <2>3 DEF CountInv
      <3>2. pc' \in [Thread -> Stage]
        BY <1>2, <2>3 DEF Stage
      <3>3. CountsTyped'
        BY <1>1, <2>1, <3>2 DEF CountsTyped, breakerVars
      <3>4. /\ failures' = failures /\ kept' = kept /\ raised' = raised
        BY <2>1 DEF breakerVars
      <3>5. Total(failures)' = Total(failures)
            /\ \A u \in Thread : Total(kept'[u]) = Total(kept[u])
        BY <3>4
      <3> QED  BY <1>1, <3>1, <3>3, <3>4, <3>5 DEF CountInv
    <2> QED  BY <1>3, <2>2, <2>3 DEF CheckCircuit
  <1>4. ASSUME UNCHANGED <<failures, kept, raised>>, CountsTyped',
               circuit' # "closed" => raised >= Threshold,
               \A u \in Thread : pc'[u] = "half_opens" => pc[u] = "half_opens"
        PROVE  CountInv'
    <2>1. Total(failures)' = Total(failures)
          /\ \A u \in Thread : Total(kept'[u]) = Total(kept[u])
      BY <1>4
    <2> QED  BY <1>4, <2>1 DEF CountInv
  <1>5. CASE HalfOpen(t)
    <2>1. UNCHANGED <<failures, kept, raised, started, setup, clock>> /\ Goto(t, "stages")
          /\ pc[t] = "half_opens"
      BY <1>5 DEF HalfOpen, queueVars, historyVars
    <2>2. /\ pc' \in [Thread -> Stage]
          /\ \A u \in Thread : pc'[u] = IF u = t THEN "stages" ELSE pc[u]
      BY <1>2, <2>1 DEF Stage
    <2>3. raised >= Threshold
      BY <2>1 DEF CountInv
    <2> QED  BY <1>1, <1>4, <2>1, <2>2, <2>3 DEF CountsTyped
  <1>6. CASE Raise(t)
    <2>1. UNCHANGED <<failures, kept, raised, circuit, setup, clock>> /\ Goto(t, "records")
          /\ started' = [started EXCEPT ![t] = clock]
      BY <1>6 DEF Raise, queueVars
    <2>2. /\ pc' \in [Thread -> Stage]
          /\ \A u \in Thread : pc'[u] = IF u = t THEN "records" ELSE pc[u]
      BY <1>2, <2>1 DEF Stage
    <2>3. started' \in [Thread -> Clock]
      BY <1>1, <2>1
    <2>4. circuit # "closed" => raised >= Threshold
      BY DEF CountInv
    <2> QED  BY <1>1, <1>4, <2>1, <2>2, <2>3, <2>4 DEF CountsTyped
  <1>7. CASE Stamp(t)
    <2>1. UNCHANGED <<failures, kept, raised, circuit, started, setup, clock>>
          /\ Goto(t, "failed")
      BY <1>7 DEF Stamp, queueVars, historyVars
    <2>2. /\ pc' \in [Thread -> Stage]
          /\ \A u \in Thread : pc'[u] = IF u = t THEN "failed" ELSE pc[u]
      BY <1>2, <2>1 DEF Stage
    <2>3. circuit # "closed" => raised >= Threshold
      BY DEF CountInv
    <2> QED  BY <1>1, <1>4, <2>1, <2>2, <2>3 DEF CountsTyped
  <1>8. CASE Tally(t)
    <2>1. UNCHANGED <<failures, kept, raised, started, setup, clock>>
      BY <1>8 DEF Tally, queueVars, historyVars
    <2>2. \E there \in {"stamps", "failed"} : Goto(t, there)
      BY <1>8 DEF Tally
    <2>3. /\ pc' \in [Thread -> Stage]
          /\ \A u \in Thread : pc'[u] = "half_opens" => pc[u] = "half_opens"
      BY <1>2, <2>2 DEF Stage
    <2>4. Total(failures) >= Threshold \/ circuit' = circuit
      BY <1>8 DEF Tally
    <2>5. circuit # "closed" => raised >= Threshold
      BY DEF CountInv
    <2>6. circuit' # "closed" => raised >= Threshold
      <3>1. CASE Total(failures) >= Threshold
        BY <1>1, <3>1, SizesAssumption
      <3>2. CASE circuit' = circuit
        BY <2>5, <3>2
      <3> QED  BY <2>4, <3>1, <3>2
    <2> QED  BY <1>1, <1>4, <2>1, <2>3, <2>6 DEF CountsTyped
  \* The counts of one copy, or those that are shared, change.
  <1>9. ASSUME NEW there \in Stage \ {"half_opens"}, Goto(t, there),
               UNCHANGED <<started, circuit, setup, clock>>,
               failures' \in Counts, kept' \in [Thread -> Counts],
               raised' \in Nat, raised' >= raised, Total(failures)' <= raised',
               \A u \in Thread : Total(kept'[u]) <= raised'
        PROVE  CountInv'
    <2>1. /\ pc' \in [Thread -> Stage]
          /\ \A u \in Thread : pc'[u] = "half_opens" => pc[u] = "half_opens"
      BY <1>2, <1>9
    <2>2. CountsTyped'
      BY <1>1, <1>9, <2>1 DEF CountsTyped
    <2>3. raised >= Threshold => raised' >= Threshold
      BY <1>1, <1>9, SizesAssumption
    <2> QED  BY <1>9, <2>1, <2>2, <2>3 DEF CountInv
  <1>10. CASE Copy(t)
    <2> DEFINE c == [u \in Clock |-> IF started[t] < u + Window THEN failures[u] ELSE 0]
    <2>1. UNCHANGED <<failures, raised, started, circuit, setup, clock>>
          /\ Goto(t, "copies") /\ kept' = [kept EXCEPT ![t] = c]
      BY <1>10 DEF Copy, queueVars, historyVars
    <2>2. c \in Counts
      BY <1>1 DEF Counts
    <2>3. \A u \in Clock : c[u] <= failures[u]
      BY <1>1 DEF Counts
    <2> HIDE DEF c
    <2>4. Total(c) <= Total(failures) /\ Total(c) \in Nat
      BY <1>1, <2>2, <2>3, TotalOfLess, TotalIsFinite
    <2>5. Total(c) <= raised
      BY <1>1, <2>4
    <2>6. kept' \in [Thread -> Counts]
          /\ \A u \in Thread : kept'[u] = IF u = t THEN c ELSE kept[u]
      BY <1>1, <2>1, <2>2
    <2>7. \A u \in Thread : Total(kept'[u]) <= raised
      BY <1>1, <2>5, <2>6
    <2>8. Total(failures)' = Total(failures)
      BY <2>1
    <2> QED  BY <1>1, <1>9, <2>1, <2>6, <2>7, <2>8 DEF Stage
  <1>11. CASE Replace(t) \/ CopyFails(t)
    <2>1. UNCHANGED <<raised, started, circuit, setup, clock>>
          /\ kept' = [kept EXCEPT ![t] = NoFailures]
          /\ (failures' = kept[t] \/ failures' = failures)
      BY <1>11 DEF Replace, CopyFails, queueVars, historyVars
    <2>2. \E there \in {"adds", "loop", "exited"} : Goto(t, there)
      BY <1>11 DEF Replace, CopyFails
    <2>3. kept' \in [Thread -> Counts]
          /\ \A u \in Thread : kept'[u] = IF u = t THEN NoFailures ELSE kept[u]
      BY <1>1, <2>1, TotalOfNone
    <2>4. \A u \in Thread : Total(kept'[u]) <= raised
      BY <1>1, <2>3, TotalOfNone
    <2>5. failures' \in Counts /\ Total(failures') <= raised
      BY <1>1, <2>1
    <2>6. Total(failures)' <= raised
      BY <2>5
    <2> QED  BY <1>1, <1>9, <2>1, <2>2, <2>3, <2>4, <2>5, <2>6 DEF Stage
  <1>12. CASE Add(t)
    <2>1. UNCHANGED <<kept, started, circuit, setup, clock>>
          /\ failures' = [failures EXCEPT ![started[t]] = @ + 1]
          /\ raised' = raised + 1 /\ Goto(t, "tallies")
      BY <1>12 DEF Add, queueVars
    <2>2. started[t] \in Clock
      BY <1>1
    <2>3. failures' \in Counts /\ Total(failures') = Total(failures) + 1
      BY <1>1, <2>1, <2>2, TotalOfAdded
    <2>4. Total(failures)' <= raised'
      BY <1>1, <2>1, <2>3
    <2>5. \A u \in Thread : Total(kept'[u]) <= raised'
      BY <1>1, <2>1
    <2> QED  BY <1>1, <1>9, <2>1, <2>3, <2>4, <2>5 DEF Stage
  <1> QED  BY <1>3, <1>5, <1>6, <1>7, <1>8, <1>10, <1>11, <1>12

LEMMA CountStep ==
    ASSUME CountInv, [Next]_vars
    PROVE  CountInv'
  <1>1. CASE UNCHANGED vars
    <2>1. UNCHANGED <<breakerVars, setup, raised, clock, pc>>
      BY <1>1 DEF vars, queueVars, historyVars
    <2>2. pc \in [Thread -> Stage] /\ clock \in Clock
      BY DEF CountInv, CountsTyped
    <2> QED  BY <2>1, <2>2, CountsKept
  <1>2. ASSUME NEW t \in Thread, Works(t) \/ Flushes(t) PROVE CountInv'
    BY <1>2, LoopKeepsCounts, BreakerKeepsCounts
       DEF Works, Flushes, Processes, Records
  <1> QED  BY <1>1, <1>2, CallsKeepCounts DEF Next, Thread

LEMMA CountInit == Init => CountInv
  <1> SUFFICES ASSUME Init PROVE CountInv
    OBVIOUS
  <1>1. CountsTyped
    BY TotalOfNone, ClockIsFinite DEF Init, CountsTyped, Stage
  <1>2. Total(failures) = 0 /\ (\A t \in Thread : Total(kept[t]) = 0) /\ raised = 0
    BY TotalOfNone DEF Init
  <1>3. circuit = "closed" /\ \A t \in Thread : pc[t] # "half_opens"
    BY DEF Init
  <1> QED  BY <1>1, <1>2, <1>3 DEF CountInv

\* The breaker leaves "closed" only when as many failures as failure_threshold asks
\* for were recorded (_record_failure, without a lock), however many threads copy,
\* replace and change failure_counts at once, for every number of them and any
\* window.
THEOREM AlwaysOpensWithReason == ProcessorSpec => []OpensWithReason
  <1>1. CountInv => OpensWithReason
    BY DEF CountInv, OpensWithReason
  <1>2. CountInv /\ [Next]_vars => CountInv'
    BY CountStep
  <1> QED  BY <1>1, <1>2, CountInit, PTL DEF ProcessorSpec

-----------------------------------------------------------------------------
(* Where an event is.  A queue holds no event twice, and no two of the     *)
(* queues and of the threads' hands hold the same one; every section moves *)
(* an event from one of them to another, or lets it go.                    *)

Elements(line) == {line[i] : i \in 1 .. Len(line)}
NoTwice(line) == \A i, j \in 1 .. Len(line) : line[i] = line[j] => i = j

LEMMA InsertProperties ==
    ASSUME NEW s \in Seq(Event), NEW e \in Event, NEW k \in 1 .. Len(s) + 1
    PROVE  /\ InsertAt(s, k, e) \in Seq(Event)
           /\ Len(InsertAt(s, k, e)) = Len(s) + 1
           /\ \A i \in 1 .. Len(s) + 1 :
                 InsertAt(s, k, e)[i] = IF i < k THEN s[i] ELSE IF i = k THEN e ELSE s[i - 1]
  <1>1. PICK n \in Nat : n = Len(s)
    OBVIOUS
  <1>2. \A i \in 1 .. n : s[i] \in Event
    BY <1>1
  <1> DEFINE a == SubSeq(s, 1, k - 1)
             b == SubSeq(s, k, n)
             ae == a \o <<e>>
             r == ae \o b
  <1>3. /\ a \in Seq(Event) /\ Len(a) = k - 1
        /\ \A i \in 1 .. k - 1 : a[i] = s[i]
    <2>1. 1 \in Int /\ k - 1 \in Int /\ \A i \in 1 .. k - 1 : s[i] \in Event
      BY <1>1, <1>2
    <2>2. /\ a \in Seq(Event)
          /\ Len(a) = IF 1 <= k - 1 THEN (k - 1) - 1 + 1 ELSE 0
          /\ \A i \in 1 .. (k - 1) - 1 + 1 : a[i] = s[1 + i - 1]
      BY <2>1, SubSeqProperties
    <2> HIDE DEF a
    <2> QED  BY <1>1, <2>2
  <1>4. /\ b \in Seq(Event) /\ Len(b) = n - k + 1
        /\ \A i \in 1 .. n - k + 1 : b[i] = s[k + i - 1]
    <2>1. k \in Int /\ n \in Int /\ \A i \in k .. n : s[i] \in Event
      BY <1>1, <1>2
    <2>2. /\ b \in Seq(Event)
          /\ Len(b) = IF k <= n THEN n - k + 1 ELSE 0
          /\ \A i \in 1 .. n - k + 1 : b[i] = s[k + i - 1]
      BY <2>1, SubSeqProperties
    <2> HIDE DEF b
    <2> QED  BY <1>1, <2>2
  <1> HIDE DEF a, b
  <1>5. /\ ae \in Seq(Event) /\ Len(ae) = k
        /\ \A i \in 1 .. k : ae[i] = IF i < k THEN s[i] ELSE e
    <2>1. <<e>> \in Seq(Event) /\ Len(<<e>>) = 1 /\ <<e>>[1] = e
      OBVIOUS
    <2>2. /\ ae \in Seq(Event) /\ Len(ae) = Len(a) + 1
          /\ \A i \in 1 .. Len(a) + 1 : ae[i] = IF i <= Len(a) THEN a[i] ELSE <<e>>[i - Len(a)]
      BY <1>3, <2>1, ConcatProperties
    <2> HIDE DEF ae
    <2>3. ASSUME NEW i \in 1 .. k PROVE ae[i] = IF i < k THEN s[i] ELSE e
      <3>1. CASE i < k
        BY <1>3, <2>2, <3>1
      <3>2. CASE i = k
        <4>1. ae[i] = <<e>>[i - Len(a)] /\ i - Len(a) = 1
          BY <1>3, <2>2, <3>2
        <4> QED  BY <2>1, <3>2, <4>1
      <3> QED  BY <3>1, <3>2
    <2> QED  BY <1>3, <2>2, <2>3
  <1> HIDE DEF ae
  <1>6. /\ r \in Seq(Event) /\ Len(r) = Len(ae) + Len(b)
        /\ \A i \in 1 .. Len(ae) + Len(b) : r[i] = IF i <= Len(ae) THEN ae[i] ELSE b[i - Len(ae)]
    BY <1>4, <1>5, ConcatProperties
  <1>7. InsertAt(s, k, e) = r
    BY <1>1 DEF InsertAt, r, ae, a, b
  <1> HIDE DEF r
  <1>8. Len(r) = n + 1
    BY <1>1, <1>4, <1>5, <1>6
  <1>9. ASSUME NEW i \in 1 .. n + 1
        PROVE  r[i] = IF i < k THEN s[i] ELSE IF i = k THEN e ELSE s[i - 1]
    <2>1. CASE i <= k
      BY <1>1, <1>4, <1>5, <1>6, <2>1
    <2>2. CASE i > k
      <3>1. i - k \in 1 .. n - k + 1 /\ k + (i - k) - 1 = i - 1
        BY <1>1, <2>2
      <3>2. b[i - k] = s[k + (i - k) - 1]
        BY <1>4, <3>1
      <3>3. r[i] = b[i - k]
        BY <1>1, <1>4, <1>5, <1>6, <2>2
      <3> QED  BY <1>1, <2>2, <3>1, <3>2, <3>3
    <2> QED  BY <1>1, <2>1, <2>2
  <1> QED  BY <1>1, <1>6, <1>7, <1>8, <1>9

\* A message put into a queue finds its place, and changes no other.
LEMMA PlacedProperties ==
    ASSUME NEW line \in Seq(Event), NEW e \in Event
    PROVE  /\ Placed(line, e) \in Seq(Event)
           /\ Elements(Placed(line, e)) = Elements(line) \cup {e}
           /\ NoTwice(line) /\ e \notin Elements(line) => NoTwice(Placed(line, e))
  <1> DEFINE before == {i \in 1 .. Len(line) : Urgency(line[i]) >= Urgency(e)}
  <1>1. PICK n \in Nat : n = Len(line)
    OBVIOUS
  <1>2. Cardinality(before) \in 0 .. n
    <2>1. IsFiniteSet(1 .. n) /\ Cardinality(1 .. n) = n
      <3>1. 1 \in Int /\ n \in Int
        OBVIOUS
      <3> QED  BY <3>1, FS_Interval
    <2>2. before \in SUBSET (1 .. n)
      BY <1>1
    <2> HIDE DEF before
    <2>3. Cardinality(before) <= n /\ Cardinality(before) \in Nat
      BY <2>1, <2>2, FS_Subset, FS_CardinalityType
    <2> QED  BY <2>3
  <1>3. Placed(line, e) = InsertAt(line, Cardinality(before) + 1, e)
    BY DEF Placed
  <1> HIDE DEF before
  <1>4. PICK c \in 0 .. n : c = Cardinality(before)
    BY <1>2
  <1>k. PICK k \in 1 .. n + 1 : k = c + 1
    OBVIOUS
  <1>5. PICK r : r = Placed(line, e)
    OBVIOUS
  <1>6. /\ r \in Seq(Event) /\ Len(r) = n + 1
        /\ \A i \in 1 .. n + 1 : r[i] = IF i < k THEN line[i] ELSE IF i = k THEN e ELSE line[i - 1]
    <2>0. k \in 1 .. Len(line) + 1 /\ Placed(line, e) = InsertAt(line, k, e)
      BY <1>1, <1>3, <1>4, <1>k
    <2>1. /\ InsertAt(line, k, e) \in Seq(Event)
          /\ Len(InsertAt(line, k, e)) = Len(line) + 1
          /\ \A i \in 1 .. Len(line) + 1 : InsertAt(line, k, e)[i] =
                IF i < k THEN line[i] ELSE IF i = k THEN e ELSE line[i - 1]
      BY <2>0, InsertProperties
    <2> QED  BY <1>1, <1>5, <2>0, <2>1
  <1>7. Elements(r) \subseteq Elements(line) \cup {e}
    <2> SUFFICES ASSUME NEW i \in 1 .. n + 1 PROVE r[i] \in Elements(line) \cup {e}
      BY <1>6 DEF Elements
    <2>1. CASE i < k
      BY <1>1, <1>6, <2>1 DEF Elements
    <2>2. CASE i = k
      BY <1>6, <2>2
    <2>3. CASE i > k
      <3>1. i - 1 \in 1 .. n /\ r[i] = line[i - 1]
        BY <1>6, <2>3
      <3> QED  BY <1>1, <3>1 DEF Elements
    <2> QED  BY <2>1, <2>2, <2>3
  <1>8. e \in Elements(r)
    <2>1. r[k] = e /\ k \in 1 .. Len(r)
      BY <1>6
    <2> QED  BY <2>1 DEF Elements
  <1>9. Elements(line) \subseteq Elements(r)
    <2> SUFFICES ASSUME NEW i \in 1 .. n PROVE line[i] \in Elements(r)
      BY <1>1 DEF Elements
    <2>1. CASE i < k
      <3>1. r[i] = line[i] /\ i \in 1 .. Len(r)
        BY <1>6, <2>1
      <3> QED  BY <3>1 DEF Elements
    <2>2. CASE i >= k
      <3>1. i + 1 \in 1 .. n + 1 /\ i + 1 > k /\ (i + 1) - 1 = i
        BY <2>2
      <3>2. r[i + 1] = line[i] /\ i + 1 \in 1 .. Len(r)
        BY <1>6, <3>1
      <3> QED  BY <3>2 DEF Elements
    <2> QED  BY <2>1, <2>2
  <1>10. ASSUME NoTwice(line), e \notin Elements(line) PROVE NoTwice(r)
    <2>1. \A i \in 1 .. n : line[i] # e
      BY <1>1, <1>10 DEF Elements
    <2> SUFFICES ASSUME NEW i \in 1 .. n + 1, NEW j \in 1 .. n + 1, r[i] = r[j], i < j PROVE FALSE
      BY <1>6 DEF NoTwice
    <2>2. \A x, y \in 1 .. n : line[x] = line[y] => x = y
      BY <1>1, <1>10 DEF NoTwice
    <2>3. PICK x : x = IF i < k THEN i ELSE i - 1
      OBVIOUS
    <2>4. PICK y : y = IF j < k THEN j ELSE j - 1
      OBVIOUS
    <2>5. CASE i = k
      <3>1. r[i] = e /\ r[j] = line[y] /\ y \in 1 .. n
        BY <1>6, <2>4, <2>5
      <3> QED  BY <2>1, <3>1
    <2>6. CASE j = k
      <3>1. r[j] = e /\ r[i] = line[x] /\ x \in 1 .. n
        BY <1>6, <2>3, <2>6
      <3> QED  BY <2>1, <3>1
    <2>7. CASE i # k /\ j # k
      <3>1. r[i] = line[x] /\ x \in 1 .. n /\ r[j] = line[y] /\ y \in 1 .. n /\ x < y
        BY <1>6, <2>3, <2>4, <2>7
      <3>2. x = y
        BY <2>2, <3>1
      <3> QED  BY <3>1, <3>2
    <2> QED  BY <2>5, <2>6, <2>7
  <1> QED  BY <1>5, <1>6, <1>7, <1>8, <1>9, <1>10

LEMMA TailElements ==
    ASSUME NEW line \in Seq(Event), line # <<>>, NoTwice(line)
    PROVE  /\ Tail(line) \in Seq(Event) /\ NoTwice(Tail(line))
           /\ Head(line) \in Elements(line)
           /\ Elements(Tail(line)) = Elements(line) \ {Head(line)}
  <1>1. PICK n \in Nat : n = Len(line) /\ n > 0
    OBVIOUS
  <1>2. PICK r : r = Tail(line)
    OBVIOUS
  <1>3. /\ r \in Seq(Event) /\ Len(r) = n - 1
        /\ \A i \in 1 .. n - 1 : r[i] = line[i + 1]
    BY <1>1, <1>2, HeadTailProperties
  <1>4. Head(line) = line[1]
    OBVIOUS
  <1>5. NoTwice(r)
    <2> SUFFICES ASSUME NEW i \in 1 .. n - 1, NEW j \in 1 .. n - 1, r[i] = r[j] PROVE i = j
      BY <1>3 DEF NoTwice
    <2>1. i + 1 \in 1 .. n /\ j + 1 \in 1 .. n /\ line[i + 1] = line[j + 1]
      BY <1>3
    <2>2. i + 1 = j + 1
      BY <1>1, <2>1 DEF NoTwice
    <2> QED  BY <2>2
  <1>6. Elements(r) \subseteq Elements(line) \ {line[1]}
    <2> SUFFICES ASSUME NEW i \in 1 .. n - 1 PROVE r[i] \in Elements(line) \ {line[1]}
      BY <1>3 DEF Elements
    <2>1. i + 1 \in 1 .. n /\ 1 \in 1 .. n /\ i + 1 # 1 /\ r[i] = line[i + 1]
      BY <1>1, <1>3
    <2>2. line[i + 1] # line[1]
      BY <1>1, <2>1 DEF NoTwice
    <2> QED  BY <1>1, <2>1, <2>2 DEF Elements
  <1>7. Elements(line) \ {line[1]} \subseteq Elements(r)
    <2> SUFFICES ASSUME NEW i \in 1 .. n, line[i] # line[1] PROVE line[i] \in Elements(r)
      BY <1>1 DEF Elements
    <2>1. i - 1 \in 1 .. n - 1 /\ (i - 1) + 1 = i
      OBVIOUS
    <2>2. r[i - 1] = line[i]
      BY <1>3, <2>1
    <2> QED  BY <1>3, <2>1, <2>2 DEF Elements
  <1>8. line[1] \in Elements(line)
    BY <1>1 DEF Elements
  <1> QED  BY <1>2, <1>3, <1>4, <1>5, <1>6, <1>7, <1>8

In(q) == Elements(queue[q].line)

Carrying == Stage \ {"unborn", "loop", "take", "retry", "exited", "stuck"}

Answer == {"none", "misses", "overflows", "waits", "accepted", "hit", "queue_full"}

QueueRecord == [line : Seq(Event), topics : [Topic -> Nat], held : BOOLEAN]

PlaceTyped ==
    /\ setup \in Setups
    /\ queue \in [QueueName -> QueueRecord] /\ topic \in [Event -> Topic]
    /\ answer \in [Event -> Answer]
    /\ pc \in [Thread -> Stage] /\ hand \in [Thread -> Event \cup {None}]
    /\ drains \in [Flusher -> {"input", "retry"}]
    /\ dropped \subseteq Event /\ lost \in [Event -> {"no", "full", "flushed", "failed"}]

\* A thread has an event in hand where it works on one.
HandsFull == \A t \in Thread : hand[t] # None <=> pc[t] \in Carrying

Apart ==
    /\ \A q \in QueueName : NoTwice(queue[q].line)
    /\ \A q, r \in QueueName : q # r => In(q) \cap In(r) = {}
    /\ \A t, u \in Thread : hand[t] = hand[u] /\ hand[t] # None => t = u
    /\ \A q \in QueueName, t \in Thread : hand[t] \notin In(q)

Somewhere(e) == (\E q \in QueueName : e \in In(q)) \/ (\E t \in Thread : hand[t] = e)
Gone(e) == e \in dropped \/ lost[e] # "no"

\* What is somewhere is not gone; only what was submitted is somewhere, or gone; and
\* what was accepted is.
Fated(e) ==
    /\ Somewhere(e) => ~Gone(e)
    /\ Somewhere(e) \/ Gone(e) => answer[e] \notin {"none", "misses", "overflows", "hit"}
    /\ answer[e] = "accepted" => Somewhere(e) \/ Gone(e)

PlaceInv == PlaceTyped /\ HandsFull /\ Apart /\ \A e \in Event : Fated(e)

\* What a step does to the queues and to the hands: q holds S after it, and the other
\* queues what they held; t holds h, and the others what they held; and of the events,
\* those in S are gone that were not.
Leaves(q, S) ==
    \A p \in QueueName : /\ NoTwice(queue'[p].line)
                         /\ Elements(queue'[p].line) = IF p = q THEN S ELSE In(p)
Holds(t, h) == \A u \in Thread : hand'[u] = IF u = t THEN h ELSE hand[u]
Parts(S) == \A x \in Event : Gone(x)' <=> Gone(x) \/ x \in S

LEMMA EnqueueEffect ==
    ASSUME PlaceTyped, Apart, NEW q \in QueueName, NEW e \in Event, e \notin In(q),
           Enqueue(q, e)
    PROVE  /\ queue' \in [QueueName -> QueueRecord]
           /\ Leaves(q, IF Full(q) THEN In(q) ELSE In(q) \cup {e})
  <1>1. queue \in [QueueName -> QueueRecord] /\ topic[e] \in Topic
        /\ \A p \in QueueName : NoTwice(queue[p].line)
    BY DEF PlaceTyped, Apart
  <1>2. CASE Full(q)
    <2>1. queue' = queue
      BY <1>2 DEF Enqueue
    <2> QED  BY <1>1, <1>2, <2>1 DEF In, Leaves
  <1>3. CASE ~Full(q)
    <2>1. PICK r : r = queue[q]
      OBVIOUS
    <2>2. r \in QueueRecord /\ NoTwice(r.line) /\ e \notin Elements(r.line)
      BY <1>1, <2>1 DEF In
    <2>3. PICK b \in BOOLEAN : b = Blocks(q, e)
      <3>1. \E b \in BOOLEAN : b = Blocks(q, e)
        BY Zenon DEF Blocks
      <3> QED  BY <3>1
    <2>4. PICK line : line = Placed(r.line, e)
      OBVIOUS
    <2>5. line \in Seq(Event) /\ NoTwice(line) /\ Elements(line) = Elements(r.line) \cup {e}
      BY <2>2, <2>4, PlacedProperties DEF QueueRecord
    <2>6. PICK topics : topics = [r.topics EXCEPT ![topic[e]] = IF Blocks(q, e) THEN @ ELSE @ + 1]
      OBVIOUS
    <2>7. topics \in [Topic -> Nat]
      BY <1>1, <2>2, <2>6 DEF QueueRecord
    <2>8. PICK r2 : r2 = [r EXCEPT !.line = line, !.topics = topics, !.held = b]
      OBVIOUS
    <2>9. r2 \in QueueRecord /\ r2.line = line
      BY <2>2, <2>5, <2>7, <2>8 DEF QueueRecord
    <2>10. queue' = [queue EXCEPT ![q] = r2]
      <3>1. queue' = [queue EXCEPT
                        ![q].line = Placed(@, e),
                        ![q].topics[topic[e]] = IF Blocks(q, e) THEN @ ELSE @ + 1,
                        ![q].held = Blocks(q, e)]
        BY <1>3 DEF Enqueue
      <3> QED  BY <1>1, <2>1, <2>2, <2>3, <2>4, <2>6, <2>8, <3>1 DEF QueueRecord
    <2>11. queue'[q] = r2 /\ \A p \in QueueName : p # q => queue'[p] = queue[p]
      BY <1>1, <2>10
    <2>12. queue' \in [QueueName -> QueueRecord]
      BY <1>1, <2>9, <2>10
    <2> QED  BY <1>1, <1>3, <2>1, <2>5, <2>9, <2>11, <2>12 DEF In, Leaves
  <1> QED  BY <1>2, <1>3

LEMMA DequeueEffect ==
    ASSUME PlaceTyped, Apart, NEW q \in QueueName, NEW e \in Event, Dequeue(q, e)
    PROVE  /\ queue' \in [QueueName -> QueueRecord] /\ e \in In(q)
           /\ Leaves(q, In(q) \ {e})
  <1>1. queue \in [QueueName -> QueueRecord] /\ \A p \in QueueName : NoTwice(queue[p].line)
    BY DEF PlaceTyped, Apart
  <1>2. PICK r : r = queue[q]
    OBVIOUS
  <1>3. r \in QueueRecord /\ NoTwice(r.line) /\ r.line # <<>> /\ e = Head(r.line)
    BY <1>1, <1>2 DEF Dequeue
  <1>4. PICK line : line = Tail(r.line)
    OBVIOUS
  <1>5. line \in Seq(Event) /\ NoTwice(line) /\ e \in Elements(r.line)
        /\ Elements(line) = Elements(r.line) \ {e}
    BY <1>3, <1>4, TailElements DEF QueueRecord
  <1>6. PICK r2 : r2 = [r EXCEPT !.line = line]
    OBVIOUS
  <1>7. r2 \in QueueRecord /\ r2.line = line
    BY <1>3, <1>5, <1>6 DEF QueueRecord
  <1>8. queue' = [queue EXCEPT ![q] = r2]
    BY <1>1, <1>2, <1>4, <1>6 DEF Dequeue
  <1>9. queue'[q] = r2 /\ \A p \in QueueName : p # q => queue'[p] = queue[p]
    BY <1>1, <1>8
  <1>10. queue' \in [QueueName -> QueueRecord]
    BY <1>1, <1>7, <1>8
  <1> QED  BY <1>1, <1>2, <1>5, <1>7, <1>9, <1>10 DEF In, Leaves

\* What the stages of the threads say of their hands, after a step of one of them.
LEMMA HandsStay ==
    ASSUME PlaceTyped, HandsFull, NEW t \in Thread, NEW there \in Stage, NEW h \in Event \cup {None},
           Goto(t, there), hand' = [hand EXCEPT ![t] = h], h # None <=> there \in Carrying
    PROVE  /\ HandsFull' /\ pc' \in [Thread -> Stage] /\ hand' \in [Thread -> Event \cup {None}]
           /\ Holds(t, h)
  <1>1. pc \in [Thread -> Stage] /\ hand \in [Thread -> Event \cup {None}]
    BY DEF PlaceTyped
  <1>2. /\ pc' \in [Thread -> Stage]
        /\ \A u \in Thread : pc'[u] = IF u = t THEN there ELSE pc[u]
    BY <1>1, GotoTyped
  <1>3. /\ hand' \in [Thread -> Event \cup {None}]
        /\ \A u \in Thread : hand'[u] = IF u = t THEN h ELSE hand[u]
    BY <1>1
  <1> QED  BY <1>2, <1>3 DEF HandsFull, Holds

\* A thread takes an event out of a queue.
LEMMA PicksUp ==
    ASSUME PlaceInv, NEW t \in Thread, NEW q \in QueueName, NEW e \in Event,
           hand[t] = None, e \in In(q), UNCHANGED <<answer, dropped, lost>>,
           Holds(t, e), Leaves(q, In(q) \ {e})
    PROVE  Apart' /\ \A x \in Event : Fated(x)'
  <1>0. \A u \in Thread : hand'[u] = IF u = t THEN e ELSE hand[u]
    BY DEF Holds
  <1>1. None \notin Event
    BY ThreadsAssumption
  <1>2. /\ \A p, r \in QueueName : p # r => In(p) \cap In(r) = {}
        /\ \A u, v \in Thread : hand[u] = hand[v] /\ hand[u] # None => u = v
        /\ \A p \in QueueName, u \in Thread : hand[u] \notin In(p)
    BY DEF PlaceInv, Apart
  <1>3. \A p \in QueueName : In(p)' = IF p = q THEN In(p) \ {e} ELSE In(p)
    BY DEF In, Leaves
  <1>4. \A u \in Thread : hand[u] # e
    BY <1>2
  <1>5. Apart'
    <2>1. \A p, r \in QueueName : p # r => In(p)' \cap In(r)' = {}
      BY <1>2, <1>3
    <2>2. \A u, v \in Thread : hand'[u] = hand'[v] /\ hand'[u] # None => u = v
      BY <1>0, <1>2, <1>4
    <2>3. \A p \in QueueName, u \in Thread : hand'[u] \notin In(p)'
      BY <1>0, <1>2, <1>3
    <2>4. \A p \in QueueName : NoTwice(queue'[p].line)
      BY DEF Leaves
    <2> QED  BY <2>1, <2>2, <2>3, <2>4 DEF Apart
  <1>6. ASSUME NEW x \in Event PROVE Fated(x)'
    <2>1. Somewhere(x)' <=> Somewhere(x)
      <3>1. CASE x = e
        BY <1>0, <1>1, <3>1 DEF Somewhere
      <3>2. CASE x # e
        BY <1>0, <1>1, <1>3, <3>2 DEF Somewhere
      <3> QED  BY <3>1, <3>2
    <2>2. Gone(x)' <=> Gone(x)
      BY DEF Gone
    <2> QED  BY <2>1, <2>2 DEF PlaceInv, Fated
  <1> QED  BY <1>5, <1>6

\* A thread puts its event into a queue, or lets it go.
LEMMA PutsDown ==
    ASSUME PlaceInv, NEW t \in Thread, NEW q \in QueueName, NEW e \in Event, NEW b \in BOOLEAN,
           hand[t] = e, UNCHANGED answer,
           Holds(t, None), Leaves(q, IF b THEN In(q) \cup {e} ELSE In(q)),
           Parts(IF b THEN {} ELSE {e})
    PROVE  Apart' /\ \A x \in Event : Fated(x)'
  <1>0. \A u \in Thread : hand'[u] = IF u = t THEN None ELSE hand[u]
    BY DEF Holds
  <1>1. None \notin Event
    BY ThreadsAssumption
  <1>2. /\ \A p, r \in QueueName : p # r => In(p) \cap In(r) = {}
        /\ \A u, v \in Thread : hand[u] = hand[v] /\ hand[u] # None => u = v
        /\ \A p \in QueueName, u \in Thread : hand[u] \notin In(p)
    BY DEF PlaceInv, Apart
  <1>3. \A p \in QueueName : In(p)' = IF p = q /\ b THEN In(p) \cup {e} ELSE In(p)
    BY DEF In, Leaves
  <1>4. (\A u \in Thread : hand'[u] # e) /\ \A p \in QueueName : e \notin In(p) /\ None \notin In(p)
    <2>1. \A u \in Thread : hand'[u] # e
      BY <1>0, <1>1, <1>2
    <2>2. \A p \in QueueName : In(p) \subseteq Event
      BY DEF In, Elements, PlaceInv, PlaceTyped, QueueRecord
    <2> QED  BY <1>1, <1>2, <2>1, <2>2
  <1>5. Apart'
    <2>1. \A p, r \in QueueName : p # r => In(p)' \cap In(r)' = {}
      BY <1>2, <1>3, <1>4
    <2>2. \A u, v \in Thread : hand'[u] = hand'[v] /\ hand'[u] # None => u = v
      BY <1>0, <1>2
    <2>3. \A p \in QueueName, u \in Thread : hand'[u] \notin In(p)'
      BY <1>0, <1>1, <1>2, <1>3, <1>4
    <2>4. \A p \in QueueName : NoTwice(queue'[p].line)
      BY DEF Leaves
    <2> QED  BY <2>1, <2>2, <2>3, <2>4 DEF Apart
  <1>6. ASSUME NEW x \in Event PROVE Fated(x)'
    <2>0. Fated(x) /\ (Gone(x)' <=> Gone(x) \/ (~b /\ x = e))
      BY DEF PlaceInv, Parts
    <2>1. CASE x # e
      <3>1. Somewhere(x)' <=> Somewhere(x)
        BY <1>0, <1>1, <1>3, <2>1 DEF Somewhere
      <3> QED  BY <2>0, <2>1, <3>1 DEF Fated
    <2>2. CASE x = e
      <3>1. Somewhere(x) /\ ~Gone(x)
        BY <2>0, <2>2 DEF Somewhere, Fated
      <3>2. Somewhere(x)' <=> b
        BY <1>0, <1>3, <1>4, <2>2 DEF Somewhere
      <3> QED  BY <2>0, <2>2, <3>1, <3>2 DEF Fated
    <2> QED  BY <2>1, <2>2
  <1> QED  BY <1>5, <1>6

\* A caller puts an event into a queue that has a place.
LEMMA Submits ==
    ASSUME PlaceInv, NEW q \in QueueName, NEW e \in Event, NEW b \in BOOLEAN, NEW a,
           answer[e] \in {"none", "misses", "overflows"}, UNCHANGED <<hand, dropped, lost>>,
           \A x \in Event : answer'[x] = IF x = e THEN a ELSE answer[x],
           b => a \notin {"none", "misses", "overflows", "hit"}, ~b => a # "accepted",
           Leaves(q, IF b THEN In(q) \cup {e} ELSE In(q))
    PROVE  Apart' /\ \A x \in Event : Fated(x)'
  <1>2. /\ \A p, r \in QueueName : p # r => In(p) \cap In(r) = {}
        /\ \A u, v \in Thread : hand[u] = hand[v] /\ hand[u] # None => u = v
        /\ \A p \in QueueName, u \in Thread : hand[u] \notin In(p)
    BY DEF PlaceInv, Apart
  <1>3. \A p \in QueueName : In(p)' = IF p = q /\ b THEN In(p) \cup {e} ELSE In(p)
    BY DEF In, Leaves
  <1>4. ~Somewhere(e) /\ ~Gone(e)
    BY DEF PlaceInv, Fated
  <1>5. Apart'
    <2>1. \A p, r \in QueueName : p # r => In(p)' \cap In(r)' = {}
      BY <1>2, <1>3, <1>4 DEF Somewhere
    <2>2. \A p \in QueueName, u \in Thread : hand'[u] \notin In(p)'
      BY <1>2, <1>3, <1>4 DEF Somewhere
    <2>3. \A p \in QueueName : NoTwice(queue'[p].line)
      BY DEF Leaves
    <2> QED  BY <1>2, <2>1, <2>2, <2>3 DEF Apart
  <1>6. ASSUME NEW x \in Event PROVE Fated(x)'
    <2>0. Fated(x) /\ (Gone(x)' <=> Gone(x))
      BY DEF PlaceInv, Gone
    <2>1. CASE x # e
      <3>1. Somewhere(x)' <=> Somewhere(x)
        BY <1>3, <2>1 DEF Somewhere
      <3> QED  BY <2>0, <2>1, <3>1 DEF Fated
    <2>2. CASE x = e
      <3>1. Somewhere(x)' <=> b
        BY <1>3, <1>4, <2>2 DEF Somewhere
      <3> QED  BY <1>4, <2>0, <2>2, <3>1 DEF Fated
    <2> QED  BY <2>1, <2>2
  <1> QED  BY <1>5, <1>6

\* A step that moves nothing.
LEMMA NothingMoves ==
    ASSUME PlaceInv, UNCHANGED <<queue, hand, answer, dropped, lost>>
    PROVE  Apart' /\ \A x \in Event : Fated(x)'
  <1>1. Apart'
    BY DEF PlaceInv, Apart, In
  <1>2. ASSUME NEW x \in Event PROVE Fated(x)'
    <2>1. Fated(x) /\ (Gone(x)' <=> Gone(x)) /\ (Somewhere(x)' <=> Somewhere(x))
      BY DEF PlaceInv, Gone, Somewhere, In
    <2> QED  BY <2>1 DEF Fated
  <1> QED  BY <1>1, <1>2

\* Sections that move nothing.
LEMMA QuietSections ==
    ASSUME PlaceInv, NEW t \in Thread,
           \/ Look(t) \/ TakeNothing(t) \/ Exit(t) \/ Drained(t)
           \/ CheckCircuit(t) \/ HalfOpen(t)
           \/ StagesPass(t) \/ StageRefuses(t) \/ Raise(t) \/ Copy(t) \/ Replace(t)
           \/ Add(t) \/ Tally(t) \/ Stamp(t)
    PROVE  PlaceInv'
  <1>0. PlaceTyped /\ HandsFull
    BY DEF PlaceInv
  <1>1. /\ UNCHANGED <<setup, queue, topic, hand, answer, dropped, lost>>
        /\ drains' = drains \/ (t \in Flusher /\ drains' = [drains EXCEPT ![t] = "retry"])
        /\ \/ UNCHANGED pc
           \/ /\ pc[t] \in Carrying
              /\ \E there \in Carrying : Goto(t, there)
           \/ /\ pc[t] \notin Carrying
              /\ \E there \in Stage \ Carrying : Goto(t, there)
    <2>1. CASE Look(t) \/ TakeNothing(t) \/ Exit(t)
      BY <2>1 DEF Look, TakeNothing, Exit, Carrying, Stage, queueVars, callVars, historyVars
    <2>2. CASE Drained(t)
      BY <2>2 DEF Drained, Carrying, Stage, queueVars, callVars, historyVars
    <2>3. CASE CheckCircuit(t)
      BY <2>3 DEF CheckCircuit, Carrying, Stage, queueVars, callVars, historyVars
    <2>4. CASE HalfOpen(t) \/ StagesPass(t) \/ StageRefuses(t)
      BY <2>4 DEF HalfOpen, StagesPass, StageRefuses, Carrying, Stage, queueVars, callVars,
                  historyVars
    <2>5. CASE Raise(t)
      BY <2>5 DEF Raise, Carrying, Stage, queueVars, callVars
    <2>6. CASE Copy(t) \/ Replace(t) \/ Stamp(t)
      BY <2>6 DEF Copy, Replace, Stamp, Carrying, Stage, queueVars, callVars, historyVars
    <2>7. CASE Add(t)
      BY <2>7 DEF Add, Carrying, Stage, queueVars, callVars
    <2>8. CASE Tally(t)
      BY <2>8 DEF Tally, Carrying, Stage, queueVars, callVars, historyVars
    <2> QED  BY <2>1, <2>2, <2>3, <2>4, <2>5, <2>6, <2>7, <2>8
  <1>2. Apart' /\ \A x \in Event : Fated(x)'
    BY <1>1, NothingMoves
  <1>3. drains' \in [Flusher -> {"input", "retry"}]
    BY <1>0, <1>1 DEF PlaceTyped
  <1>4. HandsFull' /\ pc' \in [Thread -> Stage]
    <2>1. CASE UNCHANGED pc
      BY <1>0, <1>1, <2>1 DEF HandsFull, PlaceTyped
    <2>2. ASSUME NEW there \in Stage, Goto(t, there), there \in Carrying <=> pc[t] \in Carrying
          PROVE  HandsFull' /\ pc' \in [Thread -> Stage]
      <3>1. /\ pc' \in [Thread -> Stage]
            /\ \A u \in Thread : pc'[u] = IF u = t THEN there ELSE pc[u]
        BY <1>0, <2>2, GotoTyped DEF PlaceTyped
      <3> QED  BY <1>0, <1>1, <2>2, <3>1 DEF HandsFull
    <2>3. Carrying \subseteq Stage
      BY DEF Carrying
    <2> QED  BY <1>1, <2>1, <2>2, <2>3
  <1> QED  BY <1>0, <1>1, <1>2, <1>3, <1>4 DEF PlaceInv, PlaceTyped

\* What a thread takes the next event from.
LEMMA SourceTyped ==
    ASSUME PlaceTyped, NEW t \in Thread
    PROVE  Source(t) \in QueueName
  BY DEF PlaceTyped, Source, Thread, QueueName

LEMMA Takes ==
    ASSUME PlaceInv, NEW t \in Thread, NEW q \in QueueName, NEW e \in Event,
           NEW there \in Carrying, pc[t] \notin Carrying, Dequeue(q, e), Goto(t, there),
           hand' = [hand EXCEPT ![t] = e],
           UNCHANGED <<setup, topic, answer, drains, dropped, lost>>
    PROVE  PlaceInv'
  <1>0. PlaceTyped /\ HandsFull /\ Apart
    BY DEF PlaceInv
  <1>1. hand[t] = None /\ e # None /\ there \in Stage
    BY <1>0, ThreadsAssumption DEF HandsFull, Carrying
  <1>2. /\ HandsFull' /\ pc' \in [Thread -> Stage] /\ hand' \in [Thread -> Event \cup {None}]
        /\ Holds(t, e)
    BY <1>0, <1>1, HandsStay
  <1>3. /\ queue' \in [QueueName -> QueueRecord] /\ e \in In(q)
        /\ Leaves(q, In(q) \ {e})
    BY <1>0, DequeueEffect
  <1>4. Apart' /\ \A x \in Event : Fated(x)'
    BY <1>1, <1>2, <1>3, PicksUp
  <1> QED  BY <1>0, <1>2, <1>3, <1>4 DEF PlaceInv, PlaceTyped

\* A thread puts its event into a queue; a full one refuses it, and it is lost.
LEMMA Puts ==
    ASSUME PlaceInv, NEW t \in Thread, NEW q \in QueueName, NEW there \in Stage \ Carrying,
           pc[t] \in Carrying, Enqueue(q, hand[t]), Goto(t, there), LetGo(t),
           IF Full(q) THEN Lose(hand[t], "full") ELSE UNCHANGED lost,
           UNCHANGED <<setup, topic, answer, drains, dropped>>
    PROVE  PlaceInv'
  <1>0. PlaceTyped /\ HandsFull /\ Apart
    BY DEF PlaceInv
  <1>1. PICK e \in Event : e = hand[t]
    BY <1>0 DEF HandsFull, PlaceTyped
  <1>2. /\ HandsFull' /\ pc' \in [Thread -> Stage] /\ hand' \in [Thread -> Event \cup {None}]
        /\ Holds(t, None)
    BY <1>0, HandsStay DEF LetGo
  <1>3. e \notin In(q)
    BY <1>0, <1>1 DEF Apart
  <1>4. /\ queue' \in [QueueName -> QueueRecord]
        /\ Leaves(q, IF Full(q) THEN In(q) ELSE In(q) \cup {e})
    BY <1>0, <1>1, <1>3, EnqueueEffect
  <1>5. PICK b \in BOOLEAN : b <=> ~Full(q)
    OBVIOUS
  <1>6. lost \in [Event -> {"no", "full", "flushed", "failed"}]
    BY <1>0 DEF PlaceTyped
  <1>7. /\ lost' \in [Event -> {"no", "full", "flushed", "failed"}]
        /\ \A x \in Event : lost'[x] = IF x = e /\ ~b THEN "full" ELSE lost[x]
    BY <1>1, <1>5, <1>6 DEF Lose
  <1>8. Parts(IF b THEN {} ELSE {e})
    BY <1>7 DEF Gone, Parts
  <1>9. Leaves(q, IF b THEN In(q) \cup {e} ELSE In(q))
    <2>1. CASE b
      BY <1>4, <1>5, <2>1
    <2>2. CASE ~b
      BY <1>4, <1>5, <2>2
    <2> QED  BY <2>1, <2>2
  <1>10. Apart' /\ \A x \in Event : Fated(x)'
    BY <1>1, <1>2, <1>8, <1>9, PutsDown
  <1> QED  BY <1>0, <1>2, <1>4, <1>7, <1>10 DEF PlaceInv, PlaceTyped

\* A thread lets its event go: it is dropped, or lost.
LEMMA Abandons ==
    ASSUME PlaceInv, NEW t \in Thread, NEW there \in Stage \ Carrying,
           pc[t] \in Carrying, Goto(t, there), LetGo(t),
           \/ dropped' = dropped \cup {hand[t]} /\ UNCHANGED lost
           \/ /\ \E why \in {"flushed", "failed"} : Lose(hand[t], why)
              /\ UNCHANGED dropped,
           UNCHANGED <<setup, queue, topic, answer, drains>>
    PROVE  PlaceInv'
  <1>0. PlaceTyped /\ HandsFull /\ Apart
    BY DEF PlaceInv
  <1>1. PICK e \in Event : e = hand[t]
    BY <1>0 DEF HandsFull, PlaceTyped
  <1>2. /\ HandsFull' /\ pc' \in [Thread -> Stage] /\ hand' \in [Thread -> Event \cup {None}]
        /\ Holds(t, None)
    BY <1>0, HandsStay DEF LetGo
  <1>3. /\ dropped' \subseteq Event
        /\ lost' \in [Event -> {"no", "full", "flushed", "failed"}]
        /\ \A x \in Event : Gone(x)' <=> Gone(x) \/ x = e
    <2>1. CASE dropped' = dropped \cup {hand[t]} /\ UNCHANGED lost
      BY <1>0, <1>1, <2>1 DEF PlaceTyped, Gone
    <2>2. ASSUME NEW why \in {"flushed", "failed"}, Lose(hand[t], why), UNCHANGED dropped
          PROVE  /\ dropped' \subseteq Event
                 /\ lost' \in [Event -> {"no", "full", "flushed", "failed"}]
                 /\ \A x \in Event : Gone(x)' <=> Gone(x) \/ x = e
      <3>1. lost \in [Event -> {"no", "full", "flushed", "failed"}] /\ dropped \subseteq Event
        BY <1>0 DEF PlaceTyped
      <3>2. /\ lost' \in [Event -> {"no", "full", "flushed", "failed"}]
            /\ \A x \in Event : lost'[x] = IF x = e THEN why ELSE lost[x]
        BY <1>1, <2>2, <3>1 DEF Lose
      <3> QED  BY <2>2, <3>1, <3>2 DEF Gone
    <2> QED  BY <2>1, <2>2
  <1>4. PICK b \in BOOLEAN : ~b
    OBVIOUS
  <1>5. "input" \in QueueName
    BY DEF QueueName
  <1>6. Leaves("input", IF b THEN In("input") \cup {e} ELSE In("input"))
    BY <1>0, <1>4 DEF Apart, In, Leaves
  <1>7. Parts(IF b THEN {} ELSE {e})
    BY <1>3, <1>4 DEF Parts
  <1>8. Apart' /\ \A x \in Event : Fated(x)'
    BY <1>1, <1>2, <1>5, <1>6, <1>7, PutsDown
  <1> QED  BY <1>0, <1>2, <1>3, <1>8 DEF PlaceInv, PlaceTyped

\* The sections in which a thread takes an event.
LEMMA TakingSections ==
    ASSUME PlaceInv, NEW t \in Thread, Take(t) \/ TakeRetry(t)
    PROVE  PlaceInv'
  <1>0. PlaceTyped /\ pc[t] \notin Carrying
    BY DEF PlaceInv, Take, AtDequeue, TakeRetry, Carrying
  <1>1. CASE Take(t)
    <2>1. PICK e \in Event : Dequeue(Source(t), e) /\ hand' = [hand EXCEPT ![t] = e]
      BY <1>1 DEF Take
    <2>2. Goto(t, "screen") /\ "screen" \in Carrying
      BY <1>1 DEF Take, Carrying, Stage
    <2>3. UNCHANGED <<setup, topic, answer, drains, dropped, lost>>
      BY <1>1 DEF Take, callVars, historyVars
    <2> QED  BY <1>0, <2>1, <2>2, <2>3, SourceTyped, Takes
  <1>2. CASE TakeRetry(t)
    <2>0. UNCHANGED <<setup, topic, answer, drains, dropped, lost>>
      BY <1>2 DEF TakeRetry, callVars, historyVars
    <2>1. CASE Finds("retry")
      <3>1. PICK e \in Event : /\ Dequeue("retry", e) /\ hand' = [hand EXCEPT ![t] = e]
                               /\ Goto(t, "requeue")
        BY <1>2, <2>1 DEF TakeRetry
      <3>2. "requeue" \in Carrying /\ "retry" \in QueueName
        BY DEF Carrying, Stage, QueueName
      <3> QED  BY <1>0, <2>0, <3>1, <3>2, Takes
    <2>2. CASE ~Finds("retry")
      <3>1. Goto(t, "loop") /\ UNCHANGED <<queue, hand>>
        BY <1>2, <2>2 DEF TakeRetry
      <3>2. Apart' /\ \A x \in Event : Fated(x)'
        BY <2>0, <3>1, NothingMoves
      <3>3. "loop" \in Stage /\ "loop" \notin Carrying
        BY DEF Stage, Carrying
      <3>4. /\ pc' \in [Thread -> Stage]
            /\ \A u \in Thread : pc'[u] = IF u = t THEN "loop" ELSE pc[u]
        BY <1>0, <3>1, <3>3, GotoTyped DEF PlaceTyped
      <3>5. HandsFull'
        BY <1>0, <3>1, <3>3, <3>4 DEF HandsFull, PlaceInv
      <3> QED  BY <1>0, <2>0, <3>1, <3>2, <3>4, <3>5 DEF PlaceInv, PlaceTyped
    <2> QED  BY <2>1, <2>2
  <1> QED  BY <1>1, <1>2

\* The sections in which a thread puts its event into a queue, or lets it go.
LEMMA PuttingSections ==
    ASSUME PlaceInv, NEW t \in Thread,
           \/ Succeed(t) \/ PutBack(t) \/ Settle(t) \/ Requeue(t)
           \/ Filter(t) \/ CopyFails(t)
    PROVE  PlaceInv'
  <1>1. ASSUME NEW q \in QueueName, pc[t] \in Carrying, PutInto(t, q)
        PROVE  PlaceInv'
    <2>1. LetGo(t) /\ UNCHANGED <<setup, topic, answer, drains, dropped>>
      BY <1>1 DEF PutInto, callVars
    <2>2. CASE t \in Worker
      <3>1. PICK there \in Stage \ Carrying : Goto(t, there)
        BY <1>1, <2>2 DEF PutInto, Stage, Carrying
      <3>2. Enqueue(q, hand[t]) /\ IF Full(q) THEN Lose(hand[t], "full") ELSE UNCHANGED lost
        BY <1>1, <2>2 DEF PutInto
      <3> QED  BY <1>1, <2>1, <3>1, <3>2, Puts
    <2>3. CASE t \notin Worker
      <3>1. /\ Goto(t, "loop") /\ UNCHANGED queue
            /\ \E why \in {"flushed", "failed"} : Lose(hand[t], why)
        BY <1>1, <2>3 DEF PutInto
      <3>2. "loop" \in Stage \ Carrying
        BY DEF Stage, Carrying
      <3> QED  BY <1>1, <2>1, <3>1, <3>2, Abandons
    <2> QED  BY <2>2, <2>3
  <1>2. CASE Succeed(t) \/ PutBack(t) \/ Settle(t)
    <2>1. PICK q \in QueueName : PutInto(t, q)
      BY <1>2 DEF Succeed, PutBack, Settle, QueueName
    <2>2. pc[t] \in Carrying
      BY <1>2 DEF Succeed, PutBack, Settle, Carrying, Stage
    <2> QED  BY <1>1, <2>1, <2>2
  <1>3. CASE Requeue(t)
    <2>1. /\ pc[t] \in Carrying /\ LetGo(t) /\ Enqueue("input", hand[t])
          /\ IF Full("input") THEN Lose(hand[t], "full") ELSE UNCHANGED lost
          /\ UNCHANGED <<setup, topic, answer, drains, dropped>>
      BY <1>3 DEF Requeue, Carrying, Stage, callVars
    <2>2. PICK there \in Stage \ Carrying : Goto(t, there)
      BY <1>3 DEF Requeue, Carrying, Stage
    <2>3. "input" \in QueueName
      BY DEF QueueName
    <2> QED  BY <2>1, <2>2, <2>3, Puts
  <1>4. CASE Filter(t) \/ CopyFails(t)
    <2>1. PICK there \in Stage \ Carrying : Goto(t, there)
      BY <1>4 DEF Filter, CopyFails, Carrying, Stage
    <2>2. pc[t] \in Carrying /\ LetGo(t) /\ UNCHANGED <<setup, queue, topic, answer, drains>>
      BY <1>4 DEF Filter, CopyFails, Carrying, Stage, queueVars, callVars
    <2>3. \/ dropped' = dropped \cup {hand[t]} /\ UNCHANGED lost
          \/ /\ \E why \in {"flushed", "failed"} : Lose(hand[t], why)
             /\ UNCHANGED dropped
      BY <1>4 DEF Filter, CopyFails
    <2> QED  BY <2>1, <2>2, <2>3, Abandons
  <1> QED  BY <1>2, <1>3, <1>4

\* The callers' half: an event is put into the input queue, or the retry queue, while
\* it is nowhere.
LEMMA Calling ==
    ASSUME PlaceInv, NEW e \in Event, Miss(e) \/ Submit(e) \/ Overflow(e) \/ Hit(e)
    PROVE  PlaceInv'
  <1>0. PlaceTyped /\ HandsFull /\ Apart /\ Fated(e)
    BY DEF PlaceInv
  <1>1. UNCHANGED <<setup, pc, hand, drains, dropped, lost>>
    BY DEF Miss, Submit, Overflow, Hit, queueVars, historyVars
  <1>2. answer[e] \in {"none", "misses", "overflows"}
    BY DEF Miss, Submit, Overflow, Hit
  <1>3. \A q \in QueueName : e \notin In(q)
    BY <1>0, <1>2 DEF Fated, Somewhere
  <1>4. /\ answer \in [Event -> Answer]
        /\ topic \in [Event -> Topic]
    BY <1>0 DEF PlaceTyped
  <1>5. topic' \in [Event -> Topic]
    <2>1. CASE Submit(e)
      BY <1>4, <2>1 DEF Submit, Topic
    <2>2. CASE Overflow(e) \/ Hit(e) \/ Miss(e)
      BY <1>4, <2>2 DEF Overflow, Hit, Miss, queueVars
    <2> QED  BY <2>1, <2>2
  <1>6. HandsFull'
    BY <1>0, <1>1 DEF HandsFull
  <1>7. ASSUME NEW q \in QueueName, NEW b \in BOOLEAN,
               NEW a \in Answer,
               answer' = [answer EXCEPT ![e] = a],
               b => a \notin {"none", "misses", "overflows", "hit"}, ~b => a # "accepted",
               queue' \in [QueueName -> QueueRecord],
               Leaves(q, IF b THEN In(q) \cup {e} ELSE In(q))
        PROVE  PlaceInv'
    <2>1. /\ \A x \in Event : answer'[x] = IF x = e THEN a ELSE answer[x]
          /\ answer' \in [Event -> Answer]
      BY <1>4, <1>7
    <2>2. Apart' /\ \A x \in Event : Fated(x)'
      BY <1>1, <1>2, <1>7, <2>1, Submits
    <2> QED  BY <1>0, <1>1, <1>5, <1>6, <1>7, <2>1, <2>2 DEF PlaceInv, PlaceTyped
  <1>8. CASE Submit(e) \/ Overflow(e)
    <2>1. PICK q \in QueueName :
              /\ Enqueue(q, e)
              /\ \E other \in {"overflows", "queue_full"} :
                    answer' = [answer EXCEPT ![e] = IF Full(q) THEN other
                                                    ELSE IF Blocks(q, e) THEN "waits"
                                                    ELSE IF q = "input" THEN "accepted"
                                                    ELSE "queue_full"]
      <3>1. CASE Submit(e)
        BY <3>1 DEF Submit, QueueName
      <3>2. CASE Overflow(e)
        <4>1. Blocks("retry", e) => ~Full("retry")
          BY DEF Blocks
        <4> QED  BY <3>2, <4>1 DEF Overflow, QueueName
      <3> QED  BY <1>8, <3>1, <3>2
    <2>2. PICK other \in {"overflows", "queue_full"} :
              answer' = [answer EXCEPT ![e] = IF Full(q) THEN other
                                              ELSE IF Blocks(q, e) THEN "waits"
                                              ELSE IF q = "input" THEN "accepted"
                                              ELSE "queue_full"]
      BY <2>1
    <2>3. PICK b \in BOOLEAN : b <=> ~Full(q)
      OBVIOUS
    <2>4. /\ queue' \in [QueueName -> QueueRecord]
          /\ Leaves(q, IF Full(q) THEN In(q) ELSE In(q) \cup {e})
      BY <1>0, <1>3, <2>1, EnqueueEffect
    <2>5. Leaves(q, IF b THEN In(q) \cup {e} ELSE In(q))
      <3>1. CASE b
        BY <2>3, <2>4, <3>1
      <3>2. CASE ~b
        BY <2>3, <2>4, <3>2
      <3> QED  BY <3>1, <3>2
    <2>6. PICK a \in {"overflows", "waits", "accepted", "queue_full"} :
              /\ answer' = [answer EXCEPT ![e] = a]
              /\ b => a # "overflows"
              /\ ~b => a # "accepted"
      <3>1. CASE b
        BY <2>2, <2>3, <3>1
      <3>2. CASE ~b
        BY <2>2, <2>3, <3>2
      <3> QED  BY <3>1, <3>2
    <2> QED  BY <1>7, <2>4, <2>5, <2>6 DEF Answer
  <1>9. CASE Miss(e) \/ Hit(e)
    <2>1. PICK a \in {"misses", "hit"} : answer' = [answer EXCEPT ![e] = a]
      BY <1>9 DEF Miss, Hit
    <2>2. UNCHANGED queue
      BY <1>9 DEF Miss, Hit, queueVars
    <2>3. PICK b \in BOOLEAN : ~b
      OBVIOUS
    <2>4. "input" \in QueueName
      BY DEF QueueName
    <2>5. Leaves("input", IF b THEN In("input") \cup {e} ELSE In("input"))
      BY <1>0, <2>2, <2>3 DEF Apart, In, Leaves
    <2>6. queue' \in [QueueName -> QueueRecord]
      BY <1>0, <2>2 DEF PlaceTyped
    <2> QED  BY <1>7, <2>1, <2>3, <2>4, <2>5, <2>6 DEF Answer
  <1> QED  BY <1>8, <1>9

\* The remaining steps move no event.
LEMMA Controls ==
    ASSUME PlaceInv,
           \/ Start \/ Pause \/ Tick \/ (\E f \in Flusher : Flush(f)) \/ UNCHANGED vars
    PROVE  PlaceInv'
  <1>0. PlaceTyped /\ HandsFull
    BY DEF PlaceInv
  <1>1. /\ UNCHANGED <<setup, queue, topic, hand, answer, dropped, lost>>
        /\ \/ UNCHANGED drains
           \/ \E f \in Flusher : drains' = [drains EXCEPT ![f] = "input"]
    <2>1. CASE Start
      BY <2>1 DEF Start, queueVars, callVars, historyVars
    <2>2. CASE Pause \/ Tick
      BY <2>2 DEF Pause, Tick, queueVars, callVars, historyVars
    <2>3. CASE \E f \in Flusher : Flush(f)
      BY <2>3 DEF Flush, queueVars, callVars, historyVars
    <2>4. CASE UNCHANGED vars
      BY <2>4 DEF vars, queueVars, callVars, historyVars
    <2> QED  BY <2>1, <2>2, <2>3, <2>4
  <1>2. Apart' /\ \A x \in Event : Fated(x)'
    BY <1>1, NothingMoves
  <1>3. drains' \in [Flusher -> {"input", "retry"}]
    BY <1>0, <1>1 DEF PlaceTyped
  <1>4. /\ pc' \in [Thread -> Stage]
        /\ \A t \in Thread : pc'[t] \in Carrying <=> pc[t] \in Carrying
    <2>0. pc \in [Thread -> Stage] /\ {"unborn", "loop"} \subseteq Stage \ Carrying
      BY <1>0 DEF PlaceTyped, Stage, Carrying
    <2>1. CASE Start
      <3>1. PICK new \in kSubset(Spawned, {w \in Worker : pc[w] = "unborn"}) :
                pc' = [t \in Thread |-> IF t \in new THEN "loop" ELSE pc[t]]
        BY <2>1 DEF Start
      <3>2. new \subseteq {w \in Worker : pc[w] = "unborn"}
        BY DEF kSubset
      <3> QED  BY <2>0, <3>1, <3>2
    <2>2. CASE Pause \/ Tick
      BY <2>0, <2>2 DEF Pause, Tick
    <2>3. ASSUME NEW f \in Flusher, Flush(f)
          PROVE  /\ pc' \in [Thread -> Stage]
                 /\ \A t \in Thread : pc'[t] \in Carrying <=> pc[t] \in Carrying
      <3>1. pc[f] = "unborn" /\ pc' = [pc EXCEPT ![f] = "loop"]
        BY <2>3 DEF Flush
      <3> QED  BY <2>0, <3>1
    <2>4. CASE UNCHANGED vars
      BY <2>0, <2>4 DEF vars
    <2> QED  BY <2>1, <2>2, <2>3, <2>4
  <1>5. HandsFull'
    BY <1>0, <1>1, <1>4 DEF HandsFull
  <1> QED  BY <1>0, <1>1, <1>2, <1>3, <1>4, <1>5 DEF PlaceInv, PlaceTyped

LEMMA PlaceInit == Init => PlaceInv
  <1> SUFFICES ASSUME Init PROVE PlaceInv
    OBVIOUS
  <1>1. /\ setup \in Setups /\ topic = [e \in Event |-> "events"]
        /\ answer = [e \in Event |-> "none"] /\ pc = [t \in Thread |-> "unborn"]
        /\ hand = [t \in Thread |-> None] /\ drains = [f \in Flusher |-> "input"]
        /\ dropped = {} /\ lost = [e \in Event |-> "no"]
    BY DEF Init
  <1>2. queue = [q \in QueueName |->
                   [line |-> <<>>, topics |-> [x \in Topic |-> 0], held |-> FALSE]]
    BY DEF Init
  <1>3. queue \in [QueueName -> QueueRecord]
    BY <1>2 DEF QueueRecord
  <1>4. \A q \in QueueName : queue[q].line = <<>>
    BY <1>2
  <1>5. \A q \in QueueName : NoTwice(queue[q].line) /\ In(q) = {}
    BY <1>4 DEF In, Elements, NoTwice
  <1>6. PlaceTyped
    BY <1>1, <1>3 DEF PlaceTyped, Stage, Topic, Answer
  <1>7. HandsFull
    BY <1>1 DEF HandsFull, Carrying
  <1>8. Apart
    BY <1>1, <1>5 DEF Apart
  <1>9. \A e \in Event : Fated(e)
    BY <1>1, <1>5, ThreadsAssumption DEF Fated, Somewhere, Gone
  <1> QED  BY <1>6, <1>7, <1>8, <1>9 DEF PlaceInv

LEMMA PlaceStep == PlaceInv /\ [Next]_vars => PlaceInv'
  <1> SUFFICES ASSUME PlaceInv, [Next]_vars PROVE PlaceInv'
    OBVIOUS
  <1>0. Worker \subseteq Thread /\ Flusher \subseteq Thread
    BY DEF Thread
  <1>1. CASE Calls
    BY <1>1, Calling DEF Calls
  <1>2. CASE Start \/ Pause \/ Tick \/ (\E f \in Flusher : Flush(f)) \/ UNCHANGED vars
    BY <1>2, Controls
  <1>3. ASSUME NEW t \in Thread, Processes(t)
        PROVE  PlaceInv'
    BY <1>3, QuietSections, PuttingSections DEF Processes, Records
  <1>4. ASSUME NEW f \in Flusher, Flushes(f)
        PROVE  PlaceInv'
    BY <1>0, <1>3, <1>4, QuietSections, TakingSections, PuttingSections DEF Flushes
  <1>5. ASSUME NEW w \in Worker, Works(w)
        PROVE  PlaceInv'
    BY <1>0, <1>3, <1>5, QuietSections, TakingSections, PuttingSections DEF Works
  <1> QED  BY <1>1, <1>2, <1>4, <1>5 DEF Next

\* The places of an event, as the property lists them.
LEMMA PlacesOfEvent ==
    ASSUME PlaceInv, NEW e \in Event
    PROVE  /\ Positions(e) = {} <=> ~Somewhere(e)
           /\ \A x, y \in Positions(e) : x = y
  <1>0. Apart /\ \A q \in QueueName : queue[q].line \in Seq(Event)
    BY DEF PlaceInv, PlaceTyped, QueueRecord
  <1>1. \A q \in QueueName : \A i, j \in Queued(q, e) : i = j
    BY <1>0 DEF Apart, NoTwice, Queued
  <1>2. \A q \in QueueName : Queued(q, e) # {} <=> e \in In(q)
    BY <1>0 DEF Queued, In, Elements
  <1>3. e # None
    BY ThreadsAssumption
  <1>4. Positions(e) = InQueues(e) \cup InHands(e)
    BY DEF Positions
  <1>5. ASSUME NEW x \in Positions(e)
        PROVE  \/ \E q \in QueueName : \E i \in Queued(q, e) : x = <<q, i>>
               \/ \E t \in Thread : hand[t] = e /\ x = <<"hand", t>>
    <2>1. CASE x \in InQueues(e)
      <3>1. PICK q \in QueueName : x \in {q} \X Queued(q, e)
        BY <2>1 DEF InQueues
      <3>2. x = <<q, x[2]>> /\ x[2] \in Queued(q, e)
        BY <3>1
      <3> QED  BY <3>2
    <2>2. CASE x \in InHands(e)
      <3>1. x = <<"hand", x[2]>> /\ x[2] \in Thread /\ hand[x[2]] = e
        BY <2>2 DEF InHands
      <3> QED  BY <3>1
    <2> QED  BY <1>5, <1>4, <2>1, <2>2
  <1>6. Positions(e) = {} <=> ~Somewhere(e)
    <2>1. Positions(e) = {} <=>
            /\ \A q \in QueueName : Queued(q, e) = {}
            /\ \A t \in Thread : hand[t] # e
      <3>1. ASSUME NEW q \in QueueName, NEW i \in Queued(q, e)
            PROVE  <<q, i>> \in Positions(e)
        <4>1. <<q, i>> \in {q} \X Queued(q, e)
          OBVIOUS
        <4> QED  BY <1>4, <4>1 DEF InQueues
      <3>2. ASSUME NEW t \in Thread, hand[t] = e
            PROVE  <<"hand", t>> \in Positions(e)
        <4>1. <<"hand", t>> \in {"hand"} \X {u \in Thread : hand[u] = e}
          BY <3>2
        <4> QED  BY <1>4, <4>1 DEF InHands
      <3> QED  BY <1>5, <3>1, <3>2
    <2> QED  BY <1>2, <2>1 DEF Somewhere
  <1>7. ASSUME NEW x \in Positions(e), NEW y \in Positions(e)
        PROVE  x = y
    <2>1. CASE \E t \in Thread : hand[t] = e
      <3>1. \A q \in QueueName : Queued(q, e) = {}
        BY <1>0, <1>2, <2>1 DEF Apart
      <3>2. \A t, u \in Thread : hand[t] = e /\ hand[u] = e => t = u
        BY <1>0, <1>3 DEF Apart
      <3>3. PICK t \in Thread : hand[t] = e /\ x = <<"hand", t>>
        BY <1>5, <3>1
      <3>4. PICK u \in Thread : hand[u] = e /\ y = <<"hand", u>>
        BY <1>5, <3>1
      <3> QED  BY <3>2, <3>3, <3>4
    <2>2. CASE \A t \in Thread : hand[t] # e
      <3>1. PICK q \in QueueName : \E i \in Queued(q, e) : x = <<q, i>>
        BY <1>5, <2>2
      <3>2. PICK r \in QueueName : \E j \in Queued(r, e) : y = <<r, j>>
        BY <1>5, <2>2
      <3>3. e \in In(q) /\ e \in In(r)
        BY <1>2, <3>1, <3>2
      <3>4. q = r
        BY <1>0, <3>3 DEF Apart
      <3> QED  BY <1>1, <3>1, <3>2, <3>4
    <2> QED  BY <2>1, <2>2
  <1> QED  BY <1>6, <1>7

LEMMA AtMostOne ==
    ASSUME NEW S, \A x, y \in S : x = y
    PROVE  Cardinality(S) <= 1
  <1>1. CASE S = {}
    BY <1>1, FS_EmptySet
  <1>2. CASE S # {}
    <2>1. PICK x : S = {x}
      BY <1>2
    <2> QED  BY <2>1, FS_Singleton
  <1> QED  BY <1>1, <1>2

\* However many workers there are, however often start, pause_processing and
\* flush_queues are called, and whatever sizes the queues have, an event is in one
\* place at most; one that was accepted is in one place until it is dropped or let go.
THEOREM OneFateAlways == ProcessorSpec => []OneFateEach
  <1>1. PlaceInv => OneFateEach
    <2> SUFFICES ASSUME PlaceInv, NEW e \in Event
                 PROVE  /\ Cardinality(Positions(e)) <= 1
                        /\ answer[e] = "accepted" =>
                             (Positions(e) = {}) <=> (e \in dropped \/ lost[e] # "no")
      BY DEF OneFateEach
    <2>1. Fated(e)
      BY DEF PlaceInv
    <2>2. Cardinality(Positions(e)) <= 1
      BY PlacesOfEvent, AtMostOne
    <2>3. Positions(e) = {} <=> ~Somewhere(e)
      BY PlacesOfEvent
    <2> QED  BY <2>1, <2>2, <2>3 DEF Fated, Gone
  <1> QED  BY <1>1, PlaceInit, PlaceStep, PTL DEF ProcessorSpec
=============================================================================

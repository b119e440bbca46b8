-------------------------- MODULE SelfHealingProofs --------------------------
(***************************************************************************)
(* Theorems about SelfHealing for every set of threads and errors, every   *)
(* threshold, window and cooldown, and any number of successes asked for.  *)
(***************************************************************************)
EXTENDS SelfHealing, SequenceTheorems, FiniteSetTheorems, WellFoundedInduction,
        TLAPS

Ages == /\ state \in {"CLOSED", "OPEN", "HALF_OPEN"}
        /\ openAge \in Nat /\ rested \in Nat /\ halfOpen \in Nat
        /\ earned \in 0 .. HalfOpenMax

\* open_time is never earlier than the moment the breaker became OPEN, and what
\* half_open_count counts ended since then.
CountersInv ==
    /\ Ages
    /\ state = "OPEN" => openAge <= rested
    /\ state # "CLOSED" => halfOpen <= earned

\* What one step may not do: the bodies of the two action properties.
Rests == state = "OPEN" /\ state' = "HALF_OPEN" => rested > Cooldown
Earns == state # "CLOSED" /\ state' = "CLOSED" /\ call' # call => earned' = HalfOpenMax

LEMMA RegisterStep ==
    ASSUME CountersInv, NEW error, Register(error), Remember(0)
    PROVE  CountersInv' /\ Rests /\ Earns
  <1>1. \/ state' = "OPEN" /\ openAge' = 0 /\ halfOpen' = 0
        \/ UNCHANGED <<state, openAge, halfOpen>>
    BY DEF Register
  <1> QED
    BY <1>1, BreakerAssumption DEF CountersInv, Ages, Remember, Opens, Rests, Earns

LEMMA SuccessStep ==
    ASSUME CountersInv, RecordSuccess, Remember(1)
    PROVE  CountersInv' /\ Rests /\ Earns
  BY BreakerAssumption
     DEF CountersInv, Ages, RecordSuccess, Remember, Opens, Rests, Earns, breakerVars

LEMMA ProbeFailureStep ==
    ASSUME CountersInv, RecordProbeFailure, Remember(0)
    PROVE  CountersInv' /\ Rests /\ Earns
  BY BreakerAssumption
     DEF CountersInv, Ages, RecordProbeFailure, Remember, Opens, Rests, Earns

LEMMA CheckStep ==
    ASSUME CountersInv, CheckAndCooldown, Remember(0)
    PROVE  CountersInv' /\ Rests /\ Earns
  BY BreakerAssumption
     DEF CountersInv, Ages, CheckAndCooldown, Remember, Opens, Rests, Earns

LEMMA QuietStep ==
    ASSUME CountersInv, UNCHANGED <<state, openAge, halfOpen, history>>
    PROVE  CountersInv' /\ Rests /\ Earns
  BY BreakerAssumption DEF CountersInv, Ages, history, Rests, Earns

LEMMA CountersStep ==
    ASSUME CountersInv, [Next]_vars
    PROVE  CountersInv' /\ Rests /\ Earns
  <1>1. CASE Tick
    <2>1. openAge' \in Nat /\ rested' \in Nat /\ (openAge <= rested => openAge' <= rested')
      BY <1>1, BreakerAssumption DEF CountersInv, Ages, Tick, Older
    <2> QED  BY <1>1, <2>1 DEF CountersInv, Ages, Tick, Rests, Earns
  <1>2. CASE Reset /\ Remember(0)
    BY <1>2, BreakerAssumption DEF CountersInv, Ages, Reset, Remember, Opens, Rests, Earns
  <1>3. CASE (Health \/ SoundnessChanges) /\ Remember(0)
    <2>1. UNCHANGED <<state, openAge, halfOpen, history>>
      BY <1>3 DEF CountersInv, Ages, Health, SoundnessChanges, Remember, Opens,
                  breakerVars, history
    <2> QED  BY <2>1, QuietStep
  <1>4. ASSUME NEW t \in Threads, Proceed(t) PROVE CountersInv' /\ Rests /\ Earns
    <2>1. CASE Succeed(t) /\ Remember(1)
      BY <2>1, SuccessStep DEF Succeed
    <2>2. ASSUME NEW error \in Errors, FailUnhealed(t, error), Remember(0)
          PROVE  CountersInv' /\ Rests /\ Earns
      BY <2>2, RegisterStep DEF FailUnhealed
    <2>3. ASSUME NEW error \in Errors, Fail(t, error), Remember(0)
          PROVE  CountersInv' /\ Rests /\ Earns
      BY <2>3, RegisterStep, ProbeFailureStep DEF Fail
    <2>4. CASE RegisterFailure(t) /\ Remember(0)
      BY <2>4, RegisterStep DEF RegisterFailure
    <2> QED  BY <1>4, <2>1, <2>2, <2>3, <2>4 DEF Proceed
  <1>5. ASSUME NEW t \in Threads, Entering(t) PROVE CountersInv' /\ Rests /\ Earns
    BY <1>5, CheckStep DEF Entering, Enter
  <1>6. ASSUME NEW t \in Threads, KernelFailing(t) PROVE CountersInv' /\ Rests /\ Earns
    BY <1>6, CheckStep DEF KernelFailing, KernelFails
  <1>7. CASE UNCHANGED vars
    BY <1>7, QuietStep DEF vars, breakerVars
  <1> QED  BY <1>1, <1>2, <1>3, <1>4, <1>5, <1>6, <1>7 DEF Next, Operating

LEMMA CountersInit == Init => CountersInv
  BY BreakerAssumption DEF Init, CountersInv, Ages

\* Each time the breaker has become OPEN it lets nothing through for more than
\* the cooldown (check_and_cooldown, record_probe_failure, and late failures that
\* are registered while it is open), whatever the threads do.
THEOREM CooldownAlwaysKept == Spec => CooldownIsKept
  <1>1. CountersInv /\ [Next]_vars => [Rests]_vars
    BY CountersStep
  <1>2. CountersInv /\ [Next]_vars => CountersInv'
    BY CountersStep
  <1> QED  BY <1>1, <1>2, CountersInit, PTL DEF Spec, CooldownIsKept, Rests

\* The breaker closes by itself only after as many nominal calls as it asks for
\* (record_success), none of which was healed.
THEOREM RecoveryAlwaysEarned == Spec => RecoveryIsEarned
  <1>1. CountersInv /\ [Next]_vars => [Earns]_vars
    BY CountersStep
  <1>2. CountersInv /\ [Next]_vars => CountersInv'
    BY CountersStep
  <1> QED  BY <1>1, <1>2, CountersInit, PTL DEF Spec, RecoveryIsEarned, Earns

-----------------------------------------------------------------------------
(* The weight within the window.  ClosedIsWithinThreshold becomes inductive  *)
(* with the types of the events, for Tick and Health only drop events at the *)
(* old end of the deque, and what is dropped weighs nothing less.            *)

Event == [age : Nat, weight : 1 .. 10]

Held == [stage : {"idle", "running", "registering"}, error : Errors \cup {"none"},
         admitted : {"none", "CLOSED", "HALF_OPEN", "OPEN"}]

Calls == {c \in [Threads -> Held] :
             \A t \in Threads : c[t].stage = "registering" => c[t].error \in Errors}

Typed == /\ events \in Seq(Event) /\ state \in {"CLOSED", "OPEN", "HALF_OPEN"}
         /\ call \in Calls

WindowInv == Typed /\ ClosedIsWithinThreshold

Units(es) == UNION {{i} \X (1 .. es[i].weight) : i \in 1 .. Len(es)}

LEMMA WeightsAreFinite ==
    ASSUME NEW es \in Seq(Event)
    PROVE  IsFiniteSet(Units(es)) /\ TotalWeight(es) = Cardinality(Units(es))
           /\ TotalWeight(es) \in Nat
  <1>1. IsFiniteSet((1 .. Len(es)) \X (1 .. 10))
    <2>1. Len(es) \in Int /\ 1 \in Int /\ 10 \in Int
      OBVIOUS
    <2>2. IsFiniteSet(1 .. Len(es)) /\ IsFiniteSet(1 .. 10)
      BY <2>1, FS_Interval
    <2> QED  BY <2>2, FS_Product
  <1>2. \A i \in 1 .. Len(es) : es[i].weight \in 1 .. 10
    <2>1. \A i \in 1 .. Len(es) : es[i] \in Event
      OBVIOUS
    <2> QED  BY <2>1 DEF Event
  <1>3. Units(es) \subseteq (1 .. Len(es)) \X (1 .. 10)
    <2> SUFFICES ASSUME NEW p \in Units(es) PROVE p \in (1 .. Len(es)) \X (1 .. 10)
      OBVIOUS
    <2>1. PICK i \in 1 .. Len(es) : p \in {i} \X (1 .. es[i].weight)
      BY DEF Units
    <2>2. PICK w : w = es[i].weight
      OBVIOUS
    <2>3. w \in 1 .. 10 /\ p \in {i} \X (1 .. w)
      BY <1>2, <2>1, <2>2
    <2>4. 1 .. w \subseteq 1 .. 10
      BY <2>3
    <2> QED  BY <2>1, <2>3, <2>4
  <1>4. IsFiniteSet(Units(es))
    BY <1>1, <1>3, FS_Subset
  <1> QED  BY <1>4, FS_CardinalityType DEF TotalWeight, Units

\* A sequence with the weights of the last events of another weighs no more.
LEMMA SuffixWeighsLess ==
    ASSUME NEW es \in Seq(Event), NEW fs \in Seq(Event), NEW n \in Nat,
           Len(es) + n <= Len(fs),
           \A i \in 1 .. Len(es) : es[i].weight = fs[i + n].weight
    PROVE  TotalWeight(es) <= TotalWeight(fs)
  <1> DEFINE f == [p \in Units(es) |-> <<p[1] + n, p[2]>>]
  <1>1. \A p \in Units(es) : /\ p[1] \in 1 .. Len(es) /\ p[2] \in 1 .. es[p[1]].weight
                             /\ p = <<p[1], p[2]>>
    BY DEF Units
  <1>2. ASSUME NEW p \in Units(es) PROVE f[p] \in Units(fs)
    <2>1. PICK i, k : i = p[1] /\ k = p[2]
      OBVIOUS
    <2>2. i \in 1 .. Len(es) /\ k \in 1 .. es[i].weight
      BY <1>1, <2>1
    <2>3. i + n \in 1 .. Len(fs) /\ k \in 1 .. fs[i + n].weight
      BY <2>2
    <2>4. <<i + n, k>> \in Units(fs)
      BY <2>3 DEF Units
    <2> QED  BY <2>1, <2>4
  <1>3. ASSUME NEW p \in Units(es), NEW q \in Units(es), f[p] = f[q] PROVE p = q
    <2>1. p[1] \in Nat /\ q[1] \in Nat
      BY <1>1
    <2>2. p[1] + n = q[1] + n /\ p[2] = q[2]
      BY <1>3
    <2>3. p[1] = q[1]
      BY <2>1, <2>2
    <2> QED  BY <1>1, <2>2, <2>3
  <1>4. f \in Injection(Units(es), Units(fs))
    <2>1. f \in [Units(es) -> Units(fs)]
      BY <1>2
    <2>2. \A p, q \in Units(es) : f[p] = f[q] => p = q
      BY <1>3
    <2> HIDE DEF f
    <2> QED  BY <2>1, <2>2 DEF Injection, IsInjective
  <1> HIDE DEF f
  <1>5. Cardinality(Units(es)) <= Cardinality(Units(fs))
    BY <1>4, WeightsAreFinite, FS_Injection
  <1> QED  BY <1>5, WeightsAreFinite

\* Where _prune_expired stops.
Expires(es, n) == /\ n \in 0 .. Len(es)
                  /\ \A i \in 1 .. n : es[i].age > Window
                  /\ n < Len(es) => es[n + 1].age <= Window

LEMMA PruneStops ==
    ASSUME NEW es \in Seq(Event)
    PROVE  /\ \E n : Expires(es, n) /\ Pruned(es) = SubSeq(es, n + 1, Len(es))
           /\ \A m, n : Expires(es, m) /\ Expires(es, n) => m = n
  <1>0. Len(es) \in Nat /\ \A i \in 1 .. Len(es) : es[i].age \in Nat
    <2>1. \A i \in 1 .. Len(es) : es[i] \in Event
      OBVIOUS
    <2> QED  BY <2>1 DEF Event
  <1>1. \E n : Expires(es, n)
    <2> DEFINE S == {k \in 0 .. Len(es) : k < Len(es) => es[k + 1].age <= Window}
               R == OpToRel(<, Nat)
    <2>1. S # {} /\ S \subseteq Nat
      <3>1. Len(es) \in S
        BY <1>0
      <3> QED  BY <3>1
    <2>2. PICK n \in S : \A p \in S : <<p, n>> \notin R
      <3>1. IsWellFoundedOn(R, Nat)
        BY NatLessThanWellFounded
      <3> HIDE DEF R, S
      <3> QED  BY <2>1, <3>1, WFMin
    <2>3. \A p \in S : ~(p < n)
      BY <2>1, <2>2 DEF OpToRel
    <2>4. ASSUME NEW i \in 1 .. n PROVE es[i].age > Window
      <3>1. n \in 0 .. Len(es)
        OBVIOUS
      <3>2. i - 1 \in 0 .. Len(es) /\ i - 1 < n /\ i - 1 < Len(es) /\ (i - 1) + 1 = i
        BY <1>0, <3>1
      <3>3. i - 1 \notin S
        BY <2>3, <3>2
      <3>4. ~(es[i].age <= Window)
        BY <3>2, <3>3
      <3>5. es[i].age \in Nat
        BY <1>0, <3>1
      <3> QED  BY <3>4, <3>5, BreakerAssumption
    <2> QED  BY <2>4 DEF Expires
  <1>2. \A m, n : Expires(es, m) /\ Expires(es, n) => m = n
    <2>0. ASSUME NEW m, NEW n, Expires(es, m), Expires(es, n), m < n PROVE FALSE
      <3>1. m \in 0 .. Len(es) /\ n \in 0 .. Len(es) /\ m + 1 \in 1 .. n /\ m < Len(es)
        BY <1>0, <2>0 DEF Expires
      <3>2. es[m + 1].age > Window /\ es[m + 1].age <= Window
        BY <2>0, <3>1 DEF Expires
      <3>3. es[m + 1].age \in Nat
        BY <1>0, <3>1
      <3> QED  BY <3>2, <3>3, BreakerAssumption
    <2>1. ASSUME NEW m, NEW n, Expires(es, m), Expires(es, n) PROVE m = n
      <3>1. m \in Nat /\ n \in Nat
        BY <1>0, <2>1 DEF Expires
      <3>2. ~(m < n) /\ ~(n < m)
        BY <2>0, <2>1
      <3> QED  BY <3>1, <3>2
    <2> QED  BY <2>1
  <1>3. Pruned(es) = SubSeq(es, (CHOOSE n : Expires(es, n)) + 1, Len(es))
    <2>1. (CHOOSE n : Expires(es, n)) =
             CHOOSE k \in 0 .. Len(es) :
                /\ \A i \in 1 .. k : es[i].age > Window
                /\ k < Len(es) => es[k + 1].age <= Window
      BY DEF Expires
    <2> QED  BY <2>1 DEF Pruned
  <1> QED  BY <1>1, <1>2, <1>3

LEMMA Suffix ==
    ASSUME NEW es \in Seq(Event), NEW m \in 0 .. Len(es)
    PROVE  /\ SubSeq(es, m + 1, Len(es)) \in Seq(Event)
           /\ Len(SubSeq(es, m + 1, Len(es))) = Len(es) - m
           /\ \A i \in 1 .. Len(es) - m : SubSeq(es, m + 1, Len(es))[i] = es[i + m]
  <1>1. Len(es) \in Nat /\ \A i \in 1 .. Len(es) : es[i] \in Event
    OBVIOUS
  <1>2. \A i \in m + 1 .. Len(es) : es[i] \in Event
    BY <1>1
  <1>3. m + 1 \in Int /\ Len(es) \in Int
    BY <1>1
  <1> DEFINE s == SubSeq(es, m + 1, Len(es))
  <1>4. /\ s \in Seq(Event)
        /\ Len(s) = IF m + 1 <= Len(es) THEN Len(es) - (m + 1) + 1 ELSE 0
        /\ \A i \in 1 .. Len(es) - (m + 1) + 1 : s[i] = es[(m + 1) + i - 1]
    BY <1>2, <1>3, SubSeqProperties
  <1> HIDE DEF s
  <1>5. PICK l \in Nat : l = Len(es)
    BY <1>1
  <1>6. Len(s) = l - m
    BY <1>4, <1>5
  <1>7. ASSUME NEW i \in 1 .. l - m PROVE s[i] = es[i + m]
    <2>1. i \in 1 .. l - (m + 1) + 1 /\ (m + 1) + i - 1 = i + m
      BY <1>5
    <2>2. s[i] = es[(m + 1) + i - 1]
      BY <1>4, <1>5, <2>1
    <2> QED  BY <2>1, <2>2
  <1>8. s \in Seq(Event) /\ Len(s) = Len(es) - m
        /\ \A i \in 1 .. Len(es) - m : s[i] = es[i + m]
    BY <1>4, <1>5, <1>6, <1>7
  <1> QED  BY <1>8 DEF s

\* What is left after pruning, of a deque whose events have aged or not.
LEMMA PrunedWeighsLess ==
    ASSUME NEW es \in Seq(Event), NEW fs \in Seq(Event), Len(fs) = Len(es),
           \A i \in 1 .. Len(es) : fs[i].weight = es[i].weight /\ fs[i].age >= es[i].age
    PROVE  /\ Pruned(es) \in Seq(Event)
           /\ TotalWeight(Pruned(es)) <= TotalWeight(es)
           /\ TotalWeight(Pruned(fs)) <= TotalWeight(Pruned(es))
  <1>0. /\ Len(es) \in Nat /\ Len(fs) \in Nat
        /\ \A i \in 1 .. Len(es) : es[i].age \in Nat /\ fs[i].age \in Nat
    <2>1. \A i \in 1 .. Len(es) : es[i] \in Event /\ fs[i] \in Event
      OBVIOUS
    <2> QED  BY <2>1 DEF Event
  <1>1. PICK m : Expires(es, m) /\ Pruned(es) = SubSeq(es, m + 1, Len(es))
    BY PruneStops
  <1>2. PICK n : Expires(fs, n) /\ Pruned(fs) = SubSeq(fs, n + 1, Len(fs))
    BY PruneStops
  <1>3. m \in 0 .. Len(es) /\ n \in 0 .. Len(es)
    BY <1>1, <1>2 DEF Expires
  <1>4. m <= n
    <2> SUFFICES ASSUME n < m PROVE FALSE
      BY <1>3
    <2>1. n + 1 \in 1 .. m /\ n + 1 \in 1 .. Len(es) /\ n < Len(fs)
      BY <1>0, <1>3
    <2>2. es[n + 1].age > Window /\ fs[n + 1].age <= Window /\ fs[n + 1].age >= es[n + 1].age
      BY <1>1, <1>2, <2>1 DEF Expires
    <2>3. es[n + 1].age \in Nat /\ fs[n + 1].age \in Nat
      BY <1>0, <2>1
    <2> QED  BY <2>2, <2>3, BreakerAssumption
  <1>5. /\ Pruned(es) \in Seq(Event) /\ Len(Pruned(es)) = Len(es) - m
        /\ \A i \in 1 .. Len(es) - m : Pruned(es)[i] = es[i + m]
    BY <1>1, <1>3, Suffix
  <1>6. /\ Pruned(fs) \in Seq(Event) /\ Len(Pruned(fs)) = Len(es) - n
        /\ \A i \in 1 .. Len(es) - n : Pruned(fs)[i] = fs[i + n]
    BY <1>0, <1>2, <1>3, Suffix
  <1>9. \A i \in 1 .. Len(Pruned(es)) : Pruned(es)[i].weight = es[i + m].weight
    BY <1>5
  <1>7. TotalWeight(Pruned(es)) <= TotalWeight(es)
    <2>1. m \in Nat /\ Len(Pruned(es)) + m <= Len(es)
      BY <1>0, <1>3, <1>5
    <2>2. Pruned(es) \in Seq(Event)
      BY <1>5
    <2> QED  BY <1>9, <2>1, <2>2, SuffixWeighsLess
  <1>8. TotalWeight(Pruned(fs)) <= TotalWeight(Pruned(es))
    <2>1. n - m \in Nat /\ Len(Pruned(fs)) + (n - m) <= Len(Pruned(es))
      BY <1>0, <1>3, <1>4, <1>5, <1>6
    <2>2. ASSUME NEW i \in 1 .. Len(Pruned(fs))
          PROVE  Pruned(fs)[i].weight = Pruned(es)[i + (n - m)].weight
      <3>1. /\ i \in 1 .. Len(es) - n /\ i + (n - m) \in 1 .. Len(es) - m
            /\ i + n \in 1 .. Len(es) /\ (i + (n - m)) + m = i + n
        BY <1>0, <1>3, <1>4, <1>6
      <3>2. Pruned(fs)[i] = fs[i + n] /\ Pruned(es)[i + (n - m)] = es[i + n]
        BY <1>5, <1>6, <3>1
      <3> QED  BY <3>1, <3>2
    <2> QED  BY <1>5, <1>6, <2>1, <2>2, SuffixWeighsLess
  <1> QED  BY <1>5, <1>7, <1>8

LEMMA PrunedIsLighter ==
    ASSUME NEW es \in Seq(Event)
    PROVE  /\ Pruned(es) \in Seq(Event)
           /\ TotalWeight(Pruned(es)) <= TotalWeight(es)
           /\ TotalWeight(Pruned(es)) \in Nat
  <1>1. \A i \in 1 .. Len(es) : es[i].weight = es[i].weight /\ es[i].age >= es[i].age
    <2>1. \A i \in 1 .. Len(es) : es[i] \in Event
      OBVIOUS
    <2> QED  BY <2>1 DEF Event
  <1>2. Pruned(es) \in Seq(Event) /\ TotalWeight(Pruned(es)) <= TotalWeight(es)
    BY <1>1, PrunedWeighsLess
  <1> QED  BY <1>2, WeightsAreFinite

LEMMA EventsAge ==
    ASSUME events \in Seq(Event), Tick
    PROVE  /\ events' \in Seq(Event)
           /\ TotalWeight(Pruned(events')) <= TotalWeight(Pruned(events))
  <1>1. Len(events) \in Nat /\ DOMAIN events = 1 .. Len(events)
        /\ \A i \in 1 .. Len(events) : events[i] \in Event
    OBVIOUS
  <1>2. events' = [i \in 1 .. Len(events) |-> [events[i] EXCEPT !.age = Older(@, Window)]]
    BY <1>1 DEF Tick
  <1>3. ASSUME NEW i \in 1 .. Len(events)
        PROVE  /\ events'[i] \in Event /\ events'[i].weight = events[i].weight
               /\ events'[i].age >= events[i].age
    <2>1. events'[i] = [events[i] EXCEPT !.age = Older(@, Window)] /\ events[i] \in Event
      BY <1>1, <1>2
    <2>2. events[i].age \in Nat /\ events[i].weight \in 1 .. 10
      BY <2>1 DEF Event
    <2>3. Older(events[i].age, Window) \in Nat
          /\ Older(events[i].age, Window) >= events[i].age
      BY <2>2, BreakerAssumption DEF Older
    <2> QED  BY <2>1, <2>2, <2>3 DEF Event
  <1>4. events' \in Seq(Event) /\ Len(events') = Len(events)
    <2>1. PICK l \in Nat : l = Len(events)
      BY <1>1
    <2>2. DOMAIN events' = 1 .. l
      BY <1>2, <2>1
    <2>3. events' \in [1 .. l -> Event]
      BY <1>2, <1>3, <2>1, <2>2
    <2> QED  BY <2>1, <2>2, <2>3, SeqDef, LenProperties
  <1>5. PICK fs : fs = events'
    OBVIOUS
  <1>6. TotalWeight(Pruned(fs)) <= TotalWeight(Pruned(events))
    BY <1>3, <1>4, <1>5, PrunedWeighsLess
  <1> QED  BY <1>4, <1>5, <1>6

LEMMA RegisterKeepsWindow ==
    ASSUME Typed, NEW error \in Errors, Register(error)
    PROVE  /\ events' \in Seq(Event) /\ state' \in {"CLOSED", "OPEN", "HALF_OPEN"}
           /\ ClosedIsWithinThreshold'
  <1> DEFINE e == [age |-> 0, weight |-> Weight[error]]
             live == Pruned(Append(events, e))
  <1>1. Weight[error] \in 1 .. 10
    BY ErrorsAssumption DEF Weight
  <1>2. Append(events, e) \in Seq(Event)
    <2>1. e \in Event
      BY <1>1 DEF Event
    <2> HIDE DEF e
    <2> QED  BY <2>1 DEF Typed
  <1>3. events' = live
        /\ IF TotalWeight(live) > Threshold
           THEN state' = "OPEN" /\ openAge' = 0 /\ halfOpen' = 0
           ELSE UNCHANGED <<state, openAge, halfOpen>>
    BY DEF Register
  <1> HIDE DEF e
  <1>4. PICK fs : fs = Append(events, e)
    OBVIOUS
  <1>5. live \in Seq(Event)
    BY <1>2, <1>4, PrunedIsLighter
  <1> HIDE DEF live
  <1>6. TotalWeight(live) \in Nat /\ TotalWeight(Pruned(live)) <= TotalWeight(live)
        /\ TotalWeight(Pruned(live)) \in Nat
    BY <1>5, PrunedIsLighter, WeightsAreFinite
  <1>7. CASE TotalWeight(live) > Threshold
    BY <1>3, <1>5, <1>7 DEF ClosedIsWithinThreshold
  <1>8. CASE ~(TotalWeight(live) > Threshold)
    <2>1. TotalWeight(Pruned(live)) <= Threshold
      BY <1>6, <1>8, BreakerAssumption
    <2> QED  BY <1>3, <1>5, <1>8, <2>1 DEF ClosedIsWithinThreshold, Typed
  <1> QED  BY <1>7, <1>8

LEMMA NothingWeighsNothing == TotalWeight(Pruned(<<>>)) = 0
  <1>1. Pruned(<<>>) = <<>>
    <2>1. PICK n : Expires(<<>>, n) /\ Pruned(<<>>) = SubSeq(<<>>, n + 1, Len(<<>>))
      <3>1. <<>> \in Seq(Event)
        OBVIOUS
      <3> QED  BY <3>1, PruneStops
    <2>2. Len(<<>>) = 0 /\ n = 0
      BY <2>1 DEF Expires
    <2> QED  BY <2>1, <2>2, SubSeqEmpty
  <1>2. Units(<<>>) = {}
    <2>1. 1 .. Len(<<>>) = {}
      OBVIOUS
    <2> QED  BY <2>1 DEF Units
  <1>3. TotalWeight(<<>>) = Cardinality(Units(<<>>))
    <2>1. <<>> \in Seq(Event)
      OBVIOUS
    <2> QED  BY <2>1, WeightsAreFinite
  <1>4. Cardinality(Units(<<>>)) = 0
    BY <1>2, FS_EmptySet
  <1> QED  BY <1>1, <1>3, <1>4

\* What the threads hold, after a step that changes the call of one.
LEMMA CallsStayTyped ==
    ASSUME Typed, NEW t \in Threads, NEW c, call' = [call EXCEPT ![t] = c],
           c \in Held,
           c.stage = "registering" => c.error \in Errors
    PROVE  call' \in Calls
  <1>1. call' \in [Threads -> Held]
    BY DEF Typed, Calls
  <1>2. \A u \in Threads : call'[u] = IF u = t THEN c ELSE call[u]
    BY DEF Typed, Calls
  <1> QED  BY <1>1, <1>2 DEF Typed, Calls

\* A step that leaves the weight within the window, and the threads typed.
LEMMA WindowKept ==
    ASSUME Typed, events' \in Seq(Event), state' \in {"CLOSED", "OPEN", "HALF_OPEN"},
           ClosedIsWithinThreshold', call' \in Calls
    PROVE  WindowInv'
  BY DEF WindowInv, Typed

LEMMA WindowInit == Init => WindowInv
  <1> SUFFICES ASSUME Init PROVE WindowInv
    OBVIOUS
  <1>1. events \in Seq(Event) /\ ClosedIsWithinThreshold
    BY NothingWeighsNothing, BreakerAssumption DEF Init, ClosedIsWithinThreshold
  <1> QED  BY <1>1 DEF Init, WindowInv, Typed, Calls, Held, Idle

\* The operations of the breaker that do not add to the window.
LEMMA OthersKeepWindow ==
    ASSUME WindowInv, RecordSuccess \/ RecordProbeFailure \/ CheckAndCooldown
    PROVE  /\ events' \in Seq(Event) /\ state' \in {"CLOSED", "OPEN", "HALF_OPEN"}
           /\ ClosedIsWithinThreshold'
  <1>1. events \in Seq(Event) /\ state \in {"CLOSED", "OPEN", "HALF_OPEN"}
    BY DEF WindowInv, Typed
  <1>2. \/ events' = events /\ state' \in {state, "OPEN", "HALF_OPEN"}
        \/ events' = <<>> /\ state' = "CLOSED"
    BY <1>1 DEF RecordSuccess, RecordProbeFailure, CheckAndCooldown, breakerVars
  <1>3. TotalWeight(Pruned(<<>>)) <= Threshold
    BY NothingWeighsNothing, BreakerAssumption
  <1>4. CASE events' = events /\ state' \in {state, "OPEN", "HALF_OPEN"}
    BY <1>1, <1>4 DEF WindowInv, ClosedIsWithinThreshold
  <1>5. CASE events' = <<>> /\ state' = "CLOSED"
    BY <1>3, <1>5 DEF ClosedIsWithinThreshold
  <1> QED  BY <1>2, <1>4, <1>5

LEMMA OperatingKeepsWindow ==
    ASSUME WindowInv, Reset \/ Health \/ SoundnessChanges
    PROVE  WindowInv'
  <1>1. Typed /\ events \in Seq(Event) /\ state \in {"CLOSED", "OPEN", "HALF_OPEN"}
    BY DEF WindowInv, Typed
  <1>2. call' \in Calls
    BY <1>1 DEF Reset, Health, SoundnessChanges, Typed, breakerVars
  <1>3. CASE Reset
    <2>1. events' = <<>> /\ state' = "CLOSED"
      BY <1>3 DEF Reset
    <2>2. ClosedIsWithinThreshold'
      BY <2>1, NothingWeighsNothing, BreakerAssumption DEF ClosedIsWithinThreshold
    <2> QED  BY <1>1, <1>2, <2>1, <2>2, WindowKept
  <1>4. CASE Health
    <2>1. PICK es : es = Pruned(events)
      OBVIOUS
    <2>2. events' = es /\ state' = state
      BY <1>4, <2>1 DEF Health
    <2>3. es \in Seq(Event)
      BY <1>1, <2>1, PrunedIsLighter
    <2>4. /\ TotalWeight(Pruned(es)) <= TotalWeight(es)
          /\ TotalWeight(es) \in Nat /\ TotalWeight(Pruned(es)) \in Nat
      BY <2>3, PrunedIsLighter, WeightsAreFinite
    <2>5. state = "CLOSED" => TotalWeight(es) <= Threshold
      BY <2>1 DEF WindowInv, ClosedIsWithinThreshold
    <2>6. state = "CLOSED" => TotalWeight(Pruned(es)) <= Threshold
      BY <2>4, <2>5, BreakerAssumption
    <2>7. ClosedIsWithinThreshold'
      BY <2>2, <2>6 DEF ClosedIsWithinThreshold
    <2> QED  BY <1>1, <1>2, <2>2, <2>3, <2>7, WindowKept
  <1>5. CASE SoundnessChanges
    <2>1. events' = events /\ state' = state
      BY <1>5 DEF SoundnessChanges, breakerVars
    <2>2. ClosedIsWithinThreshold'
      BY <2>1 DEF WindowInv, ClosedIsWithinThreshold
    <2> QED  BY <1>1, <1>2, <2>1, <2>2, WindowKept
  <1> QED  BY <1>3, <1>4, <1>5

LEMMA TickKeepsWindow ==
    ASSUME WindowInv, Tick
    PROVE  WindowInv'
  <1>1. Typed /\ events \in Seq(Event) /\ state' = state /\ call' = call
    BY DEF WindowInv, Typed, Tick
  <1>2. PICK es, fs : es = events /\ fs = events'
    OBVIOUS
  <1>3. /\ es \in Seq(Event) /\ fs \in Seq(Event)
        /\ TotalWeight(Pruned(fs)) <= TotalWeight(Pruned(es))
    BY <1>1, <1>2, EventsAge
  <1>4. TotalWeight(Pruned(es)) \in Nat /\ TotalWeight(Pruned(fs)) \in Nat
    BY <1>3, PrunedIsLighter
  <1>5. state = "CLOSED" => TotalWeight(Pruned(es)) <= Threshold
    BY <1>2 DEF WindowInv, ClosedIsWithinThreshold
  <1>6. state = "CLOSED" => TotalWeight(Pruned(fs)) <= Threshold
    BY <1>3, <1>4, <1>5, BreakerAssumption
  <1>7. ClosedIsWithinThreshold'
    BY <1>1, <1>2, <1>6 DEF ClosedIsWithinThreshold
  <1>8. call' \in Calls
    BY <1>1 DEF Typed
  <1> QED  BY <1>1, <1>2, <1>3, <1>7, <1>8, WindowKept DEF Typed

LEMMA WindowStep ==
    ASSUME WindowInv, [Next]_vars
    PROVE  WindowInv'
  <1>0. Typed /\ events \in Seq(Event) /\ state \in {"CLOSED", "OPEN", "HALF_OPEN"}
        /\ call \in Calls
    BY DEF WindowInv, Typed
  <1>1. Idle \in Held /\ Idle.stage # "registering"
    BY DEF Idle, Held
  <1>2. ASSUME NEW t \in Threads, Return(t)
        PROVE  call' \in Calls
    BY <1>0, <1>1, <1>2, CallsStayTyped DEF Return
  <1>3. CASE UNCHANGED vars
    BY <1>3 DEF vars, breakerVars, WindowInv, Typed, ClosedIsWithinThreshold
  <1>4. ASSUME NEW t \in Threads, NEW error \in Errors,
               FailUnhealed(t, error) \/ (RegisterFailure(t) /\ error = call[t].error)
        PROVE  WindowInv'
    <2>1. Register(error) /\ Return(t)
      BY <1>4 DEF FailUnhealed, RegisterFailure
    <2> QED  BY <1>0, <1>2, <2>1, RegisterKeepsWindow, WindowKept
  <1>5. ASSUME NEW t \in Threads, NEW error \in Errors, Fail(t, error) PROVE WindowInv'
    <2>1. CASE Register(error) /\ Return(t)
      BY <1>0, <1>2, <2>1, RegisterKeepsWindow, WindowKept
    <2>2. CASE /\ RecordProbeFailure
               /\ call' = [call EXCEPT ![t].stage = "registering", ![t].error = error]
      <3>1. PICK c : c = [call[t] EXCEPT !.stage = "registering", !.error = error]
        OBVIOUS
      <3>2. call' = [call EXCEPT ![t] = c]
        BY <1>0, <2>2, <3>1 DEF Calls, Held
      <3>3. c \in Held /\ c.error \in Errors
        BY <1>0, <3>1 DEF Calls, Held
      <3>4. call' \in Calls
        BY <1>0, <3>2, <3>3, CallsStayTyped
      <3> QED  BY <1>0, <2>2, <3>4, OthersKeepWindow, WindowKept
    <2> QED  BY <1>5, <2>1, <2>2 DEF Fail
  <1>6. ASSUME NEW t \in Threads, Succeed(t) PROVE WindowInv'
    BY <1>0, <1>2, <1>6, OthersKeepWindow, WindowKept DEF Succeed
  <1>7. ASSUME NEW t \in Threads, NEW c, call' = [call EXCEPT ![t] = c], CheckAndCooldown,
               c \in Held, c.stage = "registering" => c.error \in Errors
        PROVE  WindowInv'
    <2>1. call' \in Calls
      BY <1>0, <1>7, CallsStayTyped
    <2> QED  BY <1>0, <1>7, <2>1, OthersKeepWindow, WindowKept
  <1>8. ASSUME NEW t \in Threads, Enter(t) PROVE WindowInv'
    <2>1. state' \in {"CLOSED", "OPEN", "HALF_OPEN"} /\ CheckAndCooldown
      BY <1>0, <1>8 DEF Enter, CheckAndCooldown
    <2>2. PICK c : c = IF state' = "OPEN" THEN Idle
                       ELSE [Idle EXCEPT !.stage = "running", !.admitted = state']
      OBVIOUS
    <2>3. c \in Held /\ c.stage # "registering"
      BY <2>1, <2>2 DEF Idle, Held
    <2> QED  BY <1>7, <1>8, <2>1, <2>2, <2>3 DEF Enter
  <1>9. ASSUME NEW t \in Threads, NEW error \in Errors, KernelFails(t, error)
        PROVE  WindowInv'
    <2>1. CheckAndCooldown
      BY <1>9 DEF KernelFails
    <2>2. PICK c : c = IF state' = "OPEN" THEN Idle
                       ELSE [Idle EXCEPT !.stage = "registering", !.error = error]
      OBVIOUS
    <2>3. c \in Held /\ (c.stage = "registering" => c.error \in Errors)
      BY <2>2 DEF Idle, Held
    <2> QED  BY <1>7, <1>9, <2>1, <2>2, <2>3 DEF KernelFails
  <1>10. ASSUME NEW t \in Threads, Proceed(t) PROVE WindowInv'
    <2>1. CASE \E error \in Errors : FailUnhealed(t, error) \/ Fail(t, error)
      BY <1>4, <1>5, <2>1
    <2>2. CASE RegisterFailure(t)
      <3>1. call[t].error \in Errors
        BY <1>0, <2>2 DEF RegisterFailure, Calls
      <3> QED  BY <1>4, <2>2, <3>1
    <2> QED  BY <1>6, <1>10, <2>1, <2>2 DEF Proceed
  <1> QED
    BY <1>3, <1>8, <1>9, <1>10, TickKeepsWindow, OperatingKeepsWindow
       DEF Next, Operating, Entering, KernelFailing

\* A closed breaker has not seen more than its threshold within the window
\* (register_healing_event opens it under the same lock that adds the event, and
\* record_success and reset clear the events with the state), for any threads,
\* any interleaving of their sections and any weights and times.
THEOREM ClosedAlwaysWithinThreshold == Spec => []ClosedIsWithinThreshold
  <1>1. WindowInv => ClosedIsWithinThreshold
    BY DEF WindowInv
  <1>2. WindowInv /\ [Next]_vars => WindowInv'
    BY WindowStep
  <1> QED  BY <1>1, <1>2, WindowInit, PTL DEF Spec
=============================================================================

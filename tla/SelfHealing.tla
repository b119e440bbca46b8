----------------------------- MODULE SelfHealing -----------------------------
(***************************************************************************)
(* The self-healing engine of the QOMN kernel: the decorator self_healing  *)
(* in several threads, the one WeightedCircuitBreaker they all share, and  *)
(* _healing_wrapper of the kernel, which shares it too.  One action per    *)
(* section under the breaker's lock.                                       *)
(*                                                                         *)
(* Time is in ticks, and what the code keeps as a time is kept as an age,  *)
(* which stops to matter, and to grow, beyond the interval it is compared  *)
(* with.  Which value is answered for a failed call, of the three tiers, is*)
(* a function of that call, and left out; and with it the LruCache.        *)
(***************************************************************************)
EXTENDS Naturals, Sequences, FiniteSets

CONSTANTS
    Threads,
    Errors,      \* what a function may raise, of those of ERROR_WEIGHTS
    Threshold, Window, Cooldown, HalfOpenMax,  \* of the breaker; in ticks
    MaxEvents    \* bound: events in the window at a time

ASSUME BreakerAssumption ==
    /\ Threshold \in Nat /\ Window \in Nat /\ Cooldown \in Nat
    /\ HalfOpenMax \in Nat \ {0} /\ MaxEvents \in Nat

\* ERROR_WEIGHTS, one error of each severity and those that are told apart.
Weight == [ZeroDivisionError |-> 5, ValueError |-> 3, IndexError |-> 1,
           SafetyCriticalFailure |-> 10, NominalPhysicsViolation |-> 5]

ASSUME ErrorsAssumption == Errors \subseteq DOMAIN Weight

VARIABLES
    state, openAge, events, halfOpen,  \* of the breaker: state, open_time, _events,
                                       \* half_open_count
    call,     \* per thread: its stage, its error, and what the check returned
              \* (state_at_check)
    sound,    \* what the functions compute on is in order: none of them fails
    \* history, since the breaker last became OPEN:
    rested,   \* ticks
    earned    \* calls that ended nominally

breakerVars == <<state, openAge, events, halfOpen>>
history == <<rested, earned>>
vars == <<breakerVars, call, sound, history>>

Idle == [stage |-> "idle", error |-> "none", admitted |-> "none"]

Init == /\ state = "CLOSED" /\ openAge = 0 /\ events = <<>> /\ halfOpen = 0
        /\ call = [t \in Threads |-> Idle]
        /\ sound = TRUE
        /\ rested = 0 /\ earned = 0

-----------------------------------------------------------------------------
(* WeightedCircuitBreaker, each operation under its lock.                  *)

\* _prune_expired, and the sum it returns, counted in units of weight.
Pruned(es) ==
    LET n == CHOOSE k \in 0 .. Len(es) :
                /\ \A i \in 1 .. k : es[i].age > Window
                /\ k < Len(es) => es[k + 1].age <= Window
    IN  SubSeq(es, n + 1, Len(es))

TotalWeight(es) ==
    Cardinality(UNION {{i} \X (1 .. es[i].weight) : i \in 1 .. Len(es)})

\* register_healing_event
Register(error) ==
    LET live == Pruned(Append(events, [age |-> 0, weight |-> Weight[error]]))
    IN  /\ events' = live
        /\ IF TotalWeight(live) > Threshold
           THEN state' = "OPEN" /\ openAge' = 0 /\ halfOpen' = 0
           ELSE UNCHANGED <<state, openAge, halfOpen>>

\* Mutated form of RecordSuccess: the events of the failure are kept.
RecordSuccessKeepingEvents ==
    IF state # "HALF_OPEN" THEN UNCHANGED breakerVars
    ELSE /\ IF halfOpen + 1 >= HalfOpenMax
            THEN state' = "CLOSED" /\ halfOpen' = 0
            ELSE halfOpen' = halfOpen + 1 /\ UNCHANGED state
         /\ UNCHANGED <<openAge, events>>

\* Mutated form of RecordSuccess: one success less is asked for.
RecordSuccessOneLess ==
    IF state # "HALF_OPEN" THEN UNCHANGED breakerVars
    ELSE /\ IF halfOpen + 1 >= HalfOpenMax - 1
            THEN state' = "CLOSED" /\ events' = <<>> /\ halfOpen' = 0
            ELSE halfOpen' = halfOpen + 1 /\ UNCHANGED <<state, events>>
         /\ UNCHANGED openAge

\* record_success
RecordSuccess ==
    IF state # "HALF_OPEN" THEN UNCHANGED breakerVars
    ELSE /\ IF halfOpen + 1 >= HalfOpenMax
            THEN state' = "CLOSED" /\ events' = <<>> /\ halfOpen' = 0
            ELSE halfOpen' = halfOpen + 1 /\ UNCHANGED <<state, events>>
         /\ UNCHANGED openAge

\* record_probe_failure
RecordProbeFailure ==
    /\ IF state = "HALF_OPEN" THEN state' = "OPEN" /\ openAge' = 0 /\ halfOpen' = 0
       ELSE UNCHANGED <<state, openAge, halfOpen>>
    /\ UNCHANGED events

\* Mutated form of CheckAndCooldown: every probe begins to count anew.
CheckAndRestart ==
    /\ IF state = "HALF_OPEN" \/ (state = "OPEN" /\ openAge > Cooldown)
       THEN state' = "HALF_OPEN" /\ halfOpen' = 0
       ELSE UNCHANGED <<state, halfOpen>>
    /\ UNCHANGED <<openAge, events>>

\* check_and_cooldown, which returns whether state' is OPEN, and state'.
CheckAndCooldown ==
    /\ IF state = "OPEN" /\ openAge > Cooldown
       THEN state' = "HALF_OPEN" /\ halfOpen' = 0
       ELSE UNCHANGED <<state, halfOpen>>
    /\ UNCHANGED <<openAge, events>>

-----------------------------------------------------------------------------
(* The wrapper of self_healing.                                            *)

Return(t) == call' = [call EXCEPT ![t] = Idle]

\* Not all that may fail does at once (bound MaxEvents).
MayFail ==
    /\ ~sound
    /\ Len(Pruned(events))
         + Cardinality({t \in Threads : call[t].stage = "registering"}) < MaxEvents

\* The breaker is checked: if it is open a default is answered, tier 3.
Enter(t) ==
    /\ call[t].stage = "idle"
    /\ CheckAndCooldown
    /\ call' = [call EXCEPT ![t] =
         IF state' = "OPEN" THEN Idle
         ELSE [Idle EXCEPT !.stage = "running", !.admitted = state']]
    /\ UNCHANGED sound

\* The function returned what its validator accepts.
Succeed(t) ==
    /\ call[t].stage = "running"
    /\ RecordSuccess
    /\ Return(t)
    /\ UNCHANGED sound

\* The validator rejects the value, or the failure is none that is healed.
FailUnhealed(t, error) ==
    /\ call[t].stage = "running" /\ MayFail
    /\ error \in {"NominalPhysicsViolation", "SafetyCriticalFailure"}
    /\ Register(error)
    /\ Return(t)
    /\ UNCHANGED sound

\* The function raises: of a probe, the failure is recorded first.
Fail(t, error) ==
    /\ call[t].stage = "running" /\ MayFail
    /\ error \notin {"NominalPhysicsViolation", "SafetyCriticalFailure"}
    /\ IF call[t].admitted = "HALF_OPEN"
       THEN /\ RecordProbeFailure
            /\ call' = [call EXCEPT ![t].stage = "registering", ![t].error = error]
       ELSE Register(error) /\ Return(t)
    /\ UNCHANGED sound

-----------------------------------------------------------------------------
(* _healing_wrapper: a method of the kernel that fails asks the breaker    *)
(* after the fact, and registers what it is not told is open.              *)

KernelFails(t, error) ==
    /\ call[t].stage = "idle" /\ MayFail
    /\ error \notin {"NominalPhysicsViolation", "SafetyCriticalFailure"}
    /\ CheckAndCooldown
    /\ call' = [call EXCEPT ![t] =
         IF state' = "OPEN" THEN Idle
         ELSE [Idle EXCEPT !.stage = "registering", !.error = error]]
    /\ UNCHANGED sound

\* The second section of a failed probe, and of a failed method of the kernel.
RegisterFailure(t) ==
    /\ call[t].stage = "registering"
    /\ Register(call[t].error)
    /\ Return(t)
    /\ UNCHANGED sound

-----------------------------------------------------------------------------
\* POST /self-healing/reset
Reset ==
    /\ state' = "CLOSED" /\ events' = <<>> /\ halfOpen' = 0
    /\ UNCHANGED <<openAge, call, sound>>

\* GET /self-healing/health prunes as it sums.
Health ==
    /\ events' = Pruned(events)
    /\ UNCHANGED <<state, openAge, halfOpen, call, sound>>

\* What the functions compute on breaks, and is repaired.
SoundnessChanges == sound' = ~sound /\ UNCHANGED <<breakerVars, call>>

Older(age, limit) == IF age > limit THEN age ELSE age + 1

Tick ==
    /\ openAge' = Older(openAge, Cooldown)
    /\ events' = [i \in DOMAIN events |->
                    [events[i] EXCEPT !.age = Older(@, Window)]]
    /\ rested' = Older(rested, Cooldown)
    /\ UNCHANGED <<state, halfOpen, call, sound, earned>>

-----------------------------------------------------------------------------
Opens == state # "OPEN" /\ state' = "OPEN"

\* The history of what every action but Tick does.
Remember(successes) ==
    /\ rested' = IF Opens THEN 0 ELSE rested
    /\ earned' = IF Opens THEN 0
                 ELSE IF earned < HalfOpenMax THEN earned + successes ELSE earned

Proceed(t) ==
    \/ /\ \/ \E error \in Errors : FailUnhealed(t, error) \/ Fail(t, error)
          \/ RegisterFailure(t)
       /\ Remember(0)
    \/ Succeed(t) /\ Remember(1)

Entering(t) == Enter(t) /\ Remember(0)

KernelFailing(t) == (\E error \in Errors : KernelFails(t, error)) /\ Remember(0)

Operating == (Reset \/ Health \/ SoundnessChanges) /\ Remember(0)

Next == \/ Tick \/ Operating
        \/ \E t \in Threads : Proceed(t) \/ Entering(t) \/ KernelFailing(t)

\* Time passes, the functions end, and decorated functions go on being called.
Spec == /\ Init /\ [][Next]_vars
        /\ WF_vars(Tick)
        /\ \A t \in Threads : WF_vars(Proceed(t)) /\ WF_vars(Entering(t))

-----------------------------------------------------------------------------
\* A closed breaker has not seen more than its threshold within the window,
\* whichever threads registered, probed and closed it (the events are cleared
\* with the state, and only then).
ClosedIsWithinThreshold ==
    state = "CLOSED" => TotalWeight(Pruned(events)) <= Threshold

\* The breaker rests for more than the cooldown each time it has become OPEN,
\* by its threshold or by a failed probe, before a call is let through.
CooldownIsKept == [][state = "OPEN" /\ state' = "HALF_OPEN" => rested > Cooldown]_vars

\* The breaker closes by itself only after as many calls ended nominally since
\* it last became OPEN as it asks for: a healed call is no success.
RecoveryIsEarned ==
    [][state # "CLOSED" /\ state' = "CLOSED" /\ call' # call => earned' = HalfOpenMax]_vars

\* Once nothing fails any more the breaker closes: no interleaving of stale
\* failures, probes and cooldowns keeps it open for ever.
Recovers == sound ~> (state = "CLOSED" \/ ~sound)

=============================================================================

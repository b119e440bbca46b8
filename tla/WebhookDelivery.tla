--------------------------- MODULE WebhookDelivery ---------------------------
(***************************************************************************)
(* fireai/infrastructure/webhook_service.py: events are posted to the      *)
(* subscribers' endpoints by a pool of threads per event, with retries, a  *)
(* time limit for all of them together, and a dead-letter queue that can   *)
(* be replayed.  One RLock guards the subscriptions and the queue, for one *)
(* operation at a time; the posts themselves are made outside it.          *)
(*                                                                         *)
(* The service's EventBus is always absent: __init__ asks InMemoryEventBus *)
(* for a get_instance it does not have.  A delivery is an event, a         *)
(* subscription and who makes it, the pool or the synchronous fallback.    *)
(* The order in which a pool begins deliveries is left open, the waits     *)
(* between attempts are as long as any, and payloads and signatures are    *)
(* left out, as is the delivery history, which nothing in src/ decides on. *)
(***************************************************************************)
EXTENDS Naturals, Sequences, FiniteSets

CONSTANTS
    Ids,           \* subscription ids
    Types,         \* event types
    Hosts,         \* hosts of endpoints
    Address,       \* what each host resolves to
    AllowHttp,     \* allow_http: development
    AllowedHosts,  \* allowed_hosts; empty allows all
    Offers,        \* the subscriptions callers try to register
    MaxRetries,    \* max_retries
    PoolSize,      \* workers of a pool at most (10)
    DlqMax,        \* dlq_max_size
    Publishers,    \* threads that publish
    Replayers,     \* threads that replay
    None,
    MaxEvents,     \* bound: events published in one behaviour
    MaxReplays,    \* bound: replays in one behaviour
    MaxChanges,    \* bound: registrations, removals and clearings in one behaviour
    MaxFailures,   \* bound: pools that fail in one behaviour
    MaxLost        \* bound: answers of an endpoint that are lost, per event

Addresses == {"public", "private", "loopback", "unresolved"}
Subscriptions == [id : Ids, scheme : {"http", "https", "ftp"}, host : Hosts,
                  secret : BOOLEAN,  \* of 32 characters at least
                  active : BOOLEAN, types : SUBSET (Types \union {"other"})]

ASSUME OffersAssumption == /\ Address \in [Hosts -> Addresses]
                           /\ AllowHttp \in BOOLEAN /\ AllowedHosts \subseteq Hosts
                           /\ Offers \subseteq Subscriptions
ASSUME SizesAssumption == MaxRetries \in Nat \ {0} /\ PoolSize \in Nat \ {0} /\ DlqMax \in Nat
ASSUME ThreadsAssumption == IsFiniteSet(Replayers)
ASSUME BoundsAssumption == MaxEvents \in Nat /\ MaxReplays \in Nat
                           /\ MaxChanges \in Nat /\ MaxFailures \in Nat /\ MaxLost \in Nat

Events == 1 .. MaxEvents
Deliveries == [event : Events, to : Ids, by : {"pool", "caller"}]

ASSUME NoneAssumption == None \notin Deliveries

VARIABLES
    subs,      \* _subscriptions
    pub,       \* the publish_event of each publisher
    task,      \* the _deliver_with_retry of each delivery
    dlq,       \* _dlq
    replay,    \* the replay_dead_letter of each replayer
    events, replays, changes,  \* events, replays and changes so far
    matched,   \* history: the subscriptions each event was for
    fellBack,  \* history: events whose pool failed
    timedOut,  \* history: events whose time was up
    gone,      \* history: how dead letters left the queue for good
    accepted,  \* history: how often each endpoint accepted each event
    lost       \* history: how often the answer to that did not arrive

bounds == <<events, replays, changes>>
history == <<matched, fellBack, timedOut, gone, accepted, lost>>
vars == <<subs, pub, task, dlq, replay, bounds, history>>

NotPublishing == [at |-> "idle", event |-> 0, todo |-> {}, doing |-> None]
NotReplaying == [at |-> "idle", index |-> 0, entry |-> None]

Init == /\ subs = [i \in {} |-> None]
        /\ pub = [p \in Publishers |-> NotPublishing]
        /\ task = [d \in Deliveries |-> [at |-> "none", tries |-> 0, sub |-> None]]
        /\ dlq = <<>>
        /\ replay = [r \in Replayers |-> NotReplaying]
        /\ events = 0 /\ replays = 0 /\ changes = 0
        /\ matched = [e \in Events |-> {}]
        /\ fellBack = {} /\ timedOut = {}
        /\ gone = [d \in Deliveries |-> "no"]
        /\ accepted = [e \in Events |-> [i \in Ids |-> 0]]
        /\ lost = [e \in Events |-> [i \in Ids |-> 0]]

-----------------------------------------------------------------------------
(* Subscriptions                                                           *)

\* _validate_subscription raises ValueError
Refused(s) == \/ s.scheme \notin {"http", "https"}
              \/ s.scheme = "http" /\ ~AllowHttp
              \/ AllowedHosts # {} /\ s.host \notin AllowedHosts
              \/ Address[s.host] = "private"
              \/ Address[s.host] = "loopback" /\ ~AllowHttp
              \/ ~s.secret

\* _check_ssrf_url: no post is made, loopback or not
Blocked(s) == Address[s.host] \in {"private", "loopback"}

Matches(s, type) == s.active /\ (s.types = {} \/ type \in s.types)

Subscribe(s) ==
    /\ changes < MaxChanges
    /\ changes' = changes + 1
    /\ ~Refused(s)
    /\ subs' = [i \in DOMAIN subs \union {s.id} |-> IF i = s.id THEN s ELSE subs[i]]
    /\ UNCHANGED <<pub, task, dlq, replay, events, replays, history>>

Unsubscribe(i) ==
    /\ changes < MaxChanges
    /\ changes' = changes + 1
    /\ i \in DOMAIN subs
    /\ subs' = [j \in DOMAIN subs \ {i} |-> subs[j]]
    /\ UNCHANGED <<pub, task, dlq, replay, events, replays, history>>

-----------------------------------------------------------------------------
(* publish_event                                                           *)

Pooled(e, i) == [event |-> e, to |-> i, by |-> "pool"]
Direct(e, i) == [event |-> e, to |-> i, by |-> "caller"]

Ended(d) == task[d].at \in {"delivered", "dead", "cancelled", "raised"}
Running(d) == task[d].at \in {"trying", "exhausted"}

At(p, stage) == pub[p].at = stage

\* The subscriptions that match, under the lock; with none, the call is over.
Publish(p, type) ==
    LET e == events + 1
        found == {i \in DOMAIN subs : Matches(subs[i], type)} IN
    /\ At(p, "idle") /\ events < MaxEvents
    /\ events' = e
    /\ matched' = [matched EXCEPT ![e] = found]
    /\ IF found = {} THEN UNCHANGED <<pub, task>>
       ELSE /\ pub' = [pub EXCEPT ![p] = [at |-> "submit", event |-> e,
                                          todo |-> found, doing |-> None]]
            \* the frozen subscriptions the call goes on with
            /\ task' = [d \in Deliveries |-> IF d.event = e /\ d.to \in found
                                             THEN [task[d] EXCEPT !.sub = subs[d.to]]
                                             ELSE task[d]]
    /\ UNCHANGED <<subs, dlq, replay, replays, changes, fellBack, timedOut, gone, accepted, lost>>

Submit(p) ==
    /\ At(p, "submit")
    /\ \E i \in pub[p].todo :
         /\ task' = [task EXCEPT ![Pooled(pub[p].event, i)].at = "queued"]
         /\ pub' = [pub EXCEPT ![p].todo = @ \ {i},
                               ![p].at = IF pub[p].todo = {i} THEN "wait" ELSE "submit"]
    /\ UNCHANGED <<subs, dlq, replay, bounds, history>>

\* No thread can be started for a delivery.  By then it is in the pool's queue,
\* and threads of the pool that run already will get to it; so they will to
\* those submitted before, for the pool is not shut down.
SubmitFails(p) ==
    LET e == pub[p].event IN
    /\ At(p, "submit") /\ Cardinality(fellBack) < MaxFailures
    /\ \E i \in pub[p].todo :
         task' = IF pub[p].todo = matched[e] THEN task
                 ELSE [task EXCEPT ![Pooled(e, i)].at = "queued"]
    /\ pub' = [pub EXCEPT ![p].at = "fallback", ![p].todo = matched[e]]
    /\ fellBack' = fellBack \union {e}
    /\ UNCHANGED <<subs, dlq, replay, bounds, matched, timedOut, gone, accepted, lost>>

\* as_completed has seen all of them; what one of them raised is only logged.
AllDone(p) ==
    /\ At(p, "wait")
    /\ \A i \in matched[pub[p].event] : Ended(Pooled(pub[p].event, i))
    /\ pub' = [pub EXCEPT ![p] = NotPublishing]
    /\ UNCHANGED <<subs, task, dlq, replay, bounds, history>>

\* FuturesTimeoutError after 60 s, although some are not done
TimeOut(p) ==
    /\ At(p, "wait")
    /\ \E i \in matched[pub[p].event] : ~Ended(Pooled(pub[p].event, i))
    /\ pub' = [pub EXCEPT ![p].at = "cancel", ![p].todo = matched[pub[p].event]]
    /\ timedOut' = timedOut \union {pub[p].event}
    /\ UNCHANGED <<subs, task, dlq, replay, bounds, matched, fellBack, gone, accepted, lost>>

\* Mutated form of Cancel: a delivery that runs is cancelled as well.
CancelRunning(p) ==
    /\ At(p, "cancel")
    /\ \E i \in pub[p].todo :
         LET d == Pooled(pub[p].event, i) IN
         /\ task' = IF ~Ended(d) THEN [task EXCEPT ![d].at = "cancelled"] ELSE task
         /\ pub' = IF pub[p].todo = {i} THEN [pub EXCEPT ![p] = NotPublishing]
                   ELSE [pub EXCEPT ![p].todo = @ \ {i}]
    /\ UNCHANGED <<subs, dlq, replay, bounds, history>>

\* Future.cancel: only what no thread has begun can be cancelled.  The rest goes
\* on after the call has returned.
Cancel(p) ==
    /\ At(p, "cancel")
    /\ \E i \in pub[p].todo :
         LET d == Pooled(pub[p].event, i) IN
         /\ task' = IF task[d].at = "queued" THEN [task EXCEPT ![d].at = "cancelled"] ELSE task
         /\ pub' = IF pub[p].todo = {i} THEN [pub EXCEPT ![p] = NotPublishing]
                   ELSE [pub EXCEPT ![p].todo = @ \ {i}]
    /\ UNCHANGED <<subs, dlq, replay, bounds, history>>

\* The synchronous fallback: to every matching subscription, one after the other
FallBackTo(p) ==
    /\ At(p, "fallback")
    /\ pub[p].doing # None => task[pub[p].doing].at \in {"delivered", "dead"}
    /\ IF pub[p].todo = {}
       THEN pub' = [pub EXCEPT ![p] = NotPublishing] /\ UNCHANGED task
       ELSE \E i \in pub[p].todo :
              /\ pub' = [pub EXCEPT ![p].todo = @ \ {i},
                                    ![p].doing = Direct(pub[p].event, i)]
              /\ task' = [task EXCEPT ![Direct(pub[p].event, i)].at = "trying"]
    /\ UNCHANGED <<subs, dlq, replay, bounds, history>>

\* What a delivery raises in the fallback leaves publish_event, and with it the
\* subscribers that were still to come.
FallBackRaises(p) ==
    /\ At(p, "fallback")
    /\ pub[p].doing # None /\ task[pub[p].doing].at = "raised"
    /\ pub' = [pub EXCEPT ![p] = NotPublishing]
    /\ UNCHANGED <<subs, task, dlq, replay, bounds, history>>

-----------------------------------------------------------------------------
(* _deliver_with_retry                                                     *)

\* A thread of the pool takes a delivery.
Take(d) ==
    /\ task[d].at = "queued"
    /\ Cardinality({c \in Deliveries : /\ c.event = d.event /\ c.by = "pool"
                                       /\ Running(c)}) < PoolSize
    /\ task' = [task EXCEPT ![d].at = "trying"]
    /\ UNCHANGED <<subs, pub, dlq, replay, bounds, history>>

\* Before the first attempt: json.dumps refuses the event's data, or the signature
\* cannot be made of the secret.
Raises(d) ==
    /\ task[d].at = "trying" /\ task[d].tries = 0
    /\ task' = [task EXCEPT ![d].at = "raised"]
    /\ UNCHANGED <<subs, pub, dlq, replay, bounds, history>>

Reaches(d) == ~Blocked(task[d].sub) /\ Address[task[d].sub.host] = "public"

\* Mutated form of Delivered: the loop goes on after a success.
DeliveredAgain(d) ==
    /\ task[d].at = "trying" /\ Reaches(d)
    /\ task' = [task EXCEPT ![d].tries = @ + 1,
                            ![d].at = IF task[d].tries + 1 < MaxRetries THEN "trying"
                                      ELSE "delivered"]
    /\ accepted' = [accepted EXCEPT ![d.event][d.to] = @ + 1]
    /\ UNCHANGED <<subs, pub, dlq, replay, bounds, matched, fellBack, timedOut, gone, lost>>

\* An attempt that the endpoint answers with 2xx
Delivered(d) ==
    /\ task[d].at = "trying" /\ Reaches(d)
    /\ task' = [task EXCEPT ![d].at = "delivered", ![d].tries = @ + 1]
    /\ accepted' = [accepted EXCEPT ![d.event][d.to] = @ + 1]
    /\ UNCHANGED <<subs, pub, dlq, replay, bounds, matched, fellBack, timedOut, gone, lost>>

\* The loop after an attempt without success
Retry(d) == task' = [task EXCEPT ![d].tries = @ + 1,
                                 ![d].at = IF task[d].tries + 1 < MaxRetries THEN "trying"
                                           ELSE "exhausted"]

\* One that the endpoint accepts, but its answer is lost, late or cannot be read: a
\* failed attempt like any other.
AnswerLost(d) ==
    /\ task[d].at = "trying" /\ Reaches(d) /\ lost[d.event][d.to] < MaxLost
    /\ Retry(d)
    /\ accepted' = [accepted EXCEPT ![d.event][d.to] = @ + 1]
    /\ lost' = [lost EXCEPT ![d.event][d.to] = @ + 1]
    /\ UNCHANGED <<subs, pub, dlq, replay, bounds, matched, fellBack, timedOut, gone>>

\* Mutated form of AttemptFails: the attempts are not counted.
AttemptFailsUncounted(d) ==
    /\ task[d].at = "trying"
    /\ task' = [task EXCEPT ![d].tries = 1]
    /\ UNCHANGED <<subs, pub, dlq, replay, bounds, history>>

\* One that fails: blocked, refused, redirected, or never taken by the endpoint
AttemptFails(d) ==
    /\ task[d].at = "trying"
    /\ Retry(d)
    /\ UNCHANGED <<subs, pub, dlq, replay, bounds, history>>

\* The entries at i .. Len(q) of q
From(q, i) == SubSeq(q, i, Len(q))

\* q[-n:] when q is longer than n: for n = 0 that is all of q
Newest(q, n) == IF n = 0 \/ Len(q) <= n THEN q ELSE From(q, Len(q) - n + 1)

\* All attempts failed: the delivery is appended to the dead-letter queue, which is
\* then cut to its size.  (The audit record that should follow never is: add_event
\* is called on the class, and the TypeError is caught.)
DeadLetter(d) ==
    LET all == Append(dlq, d)
        kept == Newest(all, DlqMax)
        out == {all[i] : i \in 1 .. Len(all) - Len(kept)} IN
    /\ task[d].at = "exhausted"
    /\ task' = [task EXCEPT ![d].at = "dead"]
    /\ dlq' = kept
    /\ gone' = [c \in Deliveries |-> IF c \in out THEN "evicted" ELSE gone[c]]
    /\ UNCHANGED <<subs, pub, replay, bounds, matched, fellBack, timedOut, accepted, lost>>

-----------------------------------------------------------------------------
(* replay_dead_letter and clear_dead_letter_queue                          *)

\* Mutated form of ReplayTake: the entry is read, and removed later.
ReplayReads(r, i) ==
    /\ replay[r].at = "idle" /\ replays < MaxReplays
    /\ i \in DOMAIN dlq
    /\ replays' = replays + 1
    /\ replay' = [replay EXCEPT ![r] = [at |-> "look", index |-> i, entry |-> dlq[i]]]
    /\ UNCHANGED <<subs, pub, task, dlq, events, changes, history>>

\* The entry is taken out of the queue, under the lock.
ReplayTake(r, i) ==
    /\ replay[r].at = "idle" /\ replays < MaxReplays
    /\ i \in DOMAIN dlq
    /\ replays' = replays + 1
    /\ replay' = [replay EXCEPT ![r] = [at |-> "look", index |-> i, entry |-> dlq[i]]]
    /\ dlq' = SubSeq(dlq, 1, i - 1) \o From(dlq, i + 1)
    /\ UNCHANGED <<subs, pub, task, events, changes, history>>

\* get_subscription: the one registered by now under the entry's id
ReplayLook(r) ==
    LET i == replay[r].entry.to
        usable == i \in DOMAIN subs /\ subs[i].active IN
    /\ replay[r].at = "look"
    /\ \/ ~usable /\ replay' = [replay EXCEPT ![r].at = "back"]
       \/ usable /\ Address[subs[i].host] = "public"
                 /\ replay' = [replay EXCEPT ![r].at = "post"]
       \/ usable /\ Address[subs[i].host] # "public"
                 /\ replay' = [replay EXCEPT ![r].at = "back"]
    /\ UNCHANGED <<subs, pub, task, dlq, bounds, history>>

\* The one post succeeds, and the entry is not put back.
ReplaySucceeds(r) ==
    LET d == replay[r].entry IN
    /\ replay[r].at = "post"
    /\ replay' = [replay EXCEPT ![r] = NotReplaying]
    /\ gone' = [gone EXCEPT ![d] = "replayed"]
    /\ accepted' = [accepted EXCEPT ![d.event][d.to] = @ + 1]
    /\ UNCHANGED <<subs, pub, task, dlq, bounds, matched, fellBack, timedOut, lost>>

\* It is accepted, but the answer is lost.
ReplayAnswerLost(r) ==
    LET d == replay[r].entry IN
    /\ replay[r].at = "post" /\ lost[d.event][d.to] < MaxLost
    /\ replay' = [replay EXCEPT ![r].at = "back"]
    /\ accepted' = [accepted EXCEPT ![d.event][d.to] = @ + 1]
    /\ lost' = [lost EXCEPT ![d.event][d.to] = @ + 1]
    /\ UNCHANGED <<subs, pub, task, dlq, bounds, matched, fellBack, timedOut, gone>>

ReplayFails(r) ==
    /\ replay[r].at = "post"
    /\ replay' = [replay EXCEPT ![r].at = "back"]
    /\ UNCHANGED <<subs, pub, task, dlq, bounds, history>>

\* insert at the old index, whatever the queue has become; nothing is evicted
PutBack(r) ==
    LET i == IF replay[r].index <= Len(dlq) THEN replay[r].index ELSE Len(dlq) + 1 IN
    /\ replay[r].at = "back"
    /\ dlq' = SubSeq(dlq, 1, i - 1) \o <<replay[r].entry>> \o From(dlq, i)
    /\ replay' = [replay EXCEPT ![r] = NotReplaying]
    /\ UNCHANGED <<subs, pub, task, bounds, history>>

Clear ==
    /\ changes < MaxChanges
    /\ changes' = changes + 1
    /\ dlq # <<>>
    /\ dlq' = <<>>
    /\ gone' = [d \in Deliveries |-> IF \E i \in DOMAIN dlq : dlq[i] = d THEN "cleared"
                                     ELSE gone[d]]
    /\ UNCHANGED <<subs, pub, task, replay, events, replays, matched, fellBack, timedOut, accepted, lost>>

Deliver(d) == \/ Take(d) \/ Raises(d) \/ Delivered(d) \/ AnswerLost(d)
              \/ AttemptFails(d) \/ DeadLetter(d)
Replay(r) == \/ ReplayLook(r) \/ ReplaySucceeds(r) \/ ReplayAnswerLost(r)
             \/ ReplayFails(r) \/ PutBack(r)
GoOn(p) == \/ Submit(p) \/ AllDone(p) \/ TimeOut(p) \/ Cancel(p)
           \/ FallBackTo(p) \/ FallBackRaises(p)

Next == \/ \E s \in Offers : Subscribe(s)
        \/ \E i \in Ids : Unsubscribe(i)
        \/ \E p \in Publishers, type \in Types : Publish(p, type)
        \/ \E p \in Publishers : GoOn(p) \/ SubmitFails(p)
        \/ \E d \in Deliveries : Deliver(d)
        \/ \E r \in Replayers, i \in DOMAIN dlq : ReplayTake(r, i)
        \/ \E r \in Replayers : Replay(r)
        \/ Clear

\* Threads are scheduled, a post is answered or times out (timeout_seconds), and
\* as_completed does not wait longer than its limit.  Less is assumed than the
\* scheduler gives: of all that publish, deliver or replay, one goes on at a time.
Spec == /\ Init /\ [][Next]_vars
        /\ WF_vars(\E p \in Publishers : GoOn(p))
        /\ WF_vars(\E d \in Deliveries : Deliver(d))
        /\ WF_vars(\E r \in Replayers : Replay(r))

-----------------------------------------------------------------------------
(* Properties                                                              *)

Places(d) == {<<"queue", i>> : i \in {j \in DOMAIN dlq : dlq[j] = d}}
    \union {<<"replay", r>> : r \in {q \in Replayers : replay[q].entry = d}}
    \union {<<"gone", g>> : g \in {gone[d]} \ {"no"}}

\* A delivery that failed for good is in one place: once in the dead-letter queue, in
\* one replay, or gone for one reason; and no other delivery is in any
\* (webhook_service.py:707, 998, 1042), however replays, evictions and clearings meet.
OnePlaceEach ==
    \A d \in Deliveries : /\ task[d].at = "dead" <=> Places(d) # {}
                          /\ \A x, y \in Places(d) : x = y

Publishing(e) == \E p \in Publishers : pub[p].event = e

\* When publish_event is over, each subscription the event was for has a delivery that
\* is under way, delivered or dead-lettered, with three exceptions: time ran out
\* (webhook_service.py:562) before anything was tried; its own delivery raised (634)
\* before anything was tried; another's raised in the fallback (584) and ended it.
NobodyForgotten ==
    \A e \in 1 .. events : ~Publishing(e) =>
        \A i \in matched[e] :
            \/ \E d \in {Pooled(e, i), Direct(e, i)} :
                  \/ Running(d) \/ task[d].at \in {"delivered", "dead"}
                  \/ task[d].at = "raised" /\ task[d].tries = 0
            \/ /\ e \in timedOut /\ task[Pooled(e, i)].at = "cancelled"
               /\ task[Pooled(e, i)].tries = 0
            \/ e \in fellBack /\ \E j \in matched[e] : task[Direct(e, j)].at = "raised"

\* Deliveries are made again only in the dark: an endpoint accepts an event again, in a
\* retry or in a replay, only if the answer to none of the times before has arrived,
\* and once more where the fallback delivers beside the pool (webhook_service.py:584).
AcceptedAgainOnlyUnanswered ==
    [][\A e \in Events, i \in Ids : accepted'[e][i] # accepted[e][i] =>
           accepted[e][i] < lost[e][i] + IF e \in fellBack THEN 2 ELSE 1]_vars

Replaying == {r \in Replayers : replay[r].at # "idle"}

\* Replays put their entries back without evicting any (webhook_service.py:1042): the
\* queue exceeds dlq_max_size by no more than the replays there can be at a time.
\* (A dlq_max_size of 0 is no limit at all.)
ExcessBounded ==
    DlqMax > 0 => Len(dlq) + Cardinality(Replaying) <= DlqMax + Cardinality(Replayers)

\* publish_event returns, and every delivery and every replay comes to an end: once
\* no more calls are made, nothing goes on.
CallsReturn ==
    <>[](/\ \A p \in Publishers : pub[p].at = "idle"
         /\ \A d \in Deliveries : task[d].at \in {"none", "delivered", "dead", "cancelled", "raised"}
         /\ \A r \in Replayers : replay[r].at = "idle")
=============================================================================

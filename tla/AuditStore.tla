----------------------------- MODULE AuditStore -----------------------------
(***************************************************************************)
(* fireai/core/audit_store.py: the hash-chained audit log, a SQLite table  *)
(* that only add_event writes.  Several worker processes (uvicorn starts   *)
(* four in the Docker image) open the same file; each has its own          *)
(* _chain_lock, its own development HMAC key and its own ECDSA signer, and *)
(* runs several threads.  A worker may stop at any point and be replaced.  *)
(*                                                                         *)
(* A record's current_hash is abstracted to a number never used before:    *)
(* the hash covers the timestamp and the details, so no two differ only by *)
(* chance.  UPDATE and DELETE are refused by triggers, so the table only   *)
(* grows; a :memory: database, private to its process, is not modelled.    *)
(***************************************************************************)
EXTENDS Naturals, Sequences, FiniteSets

CONSTANTS
    Procs,        \* worker processes
    Threads,      \* the threads of all processes
    ProcOf,       \* the process of each thread
    Verifiers,    \* the threads that also call verify_chain
    NoThread,     \* the holder of a free lock
    EnvKey,       \* AUDIT_HMAC_KEY is set; otherwise each process draws a key
    Ecdsa,        \* AUDIT_ECDSA_KEY_PEM is set and the library is installed
    MaxFresh,     \* bound: hashes and keys drawn in one behaviour
    MaxStops      \* bound: worker stops in one behaviour

ASSUME ProcOfAssumption == ProcOf \in [Threads -> Procs]
ASSUME NoThreadAssumption == NoThread \notin Threads
ASSUME KeysAssumption == EnvKey \in BOOLEAN /\ Ecdsa \in BOOLEAN
ASSUME BoundsAssumption == MaxFresh \in Nat /\ MaxStops \in Nat

Genesis == 0      \* previous_hash of the first record
NoKey == 0        \* no development key drawn yet

VARIABLES
    log,      \* the audit_log table, in order of id
    lock,     \* _chain_lock of each process: the thread that holds it
    key,      \* _DEV_HMAC_KEY of each process
    parses,   \* AUDIT_ECDSA_KEY_PEM, the same for all workers, is a key
    signer,   \* _ecdsa_initialized and _ecdsa_signing_key of each process
    refused,  \* history: the hashes whose sk.sign raised
    pc,       \* where each thread is in its call
    prev, hash, mac, sig,  \* each thread's add_event: previous_hash, current_hash,
                           \* the key of the HMAC, whether there is an ECDSA signature
    answer,   \* what each thread's last verify_chain answered
    scanned,  \* over how many records
    fresh,    \* hashes and keys drawn so far
    stops     \* workers stopped so far

record == <<prev, hash, mac, sig>>
verdict == <<answer, scanned>>
ecdsa == <<parses, signer, refused>>
vars == <<log, lock, key, ecdsa, pc, record, verdict, fresh, stops>>

Row == [proc : Procs, prev : 0 .. MaxFresh, hash : 1 .. MaxFresh,
        key : 0 .. MaxFresh, sig : BOOLEAN]

Init == /\ log = <<>>
        /\ lock = [p \in Procs |-> NoThread]
        /\ key = [p \in Procs |-> NoKey]
        /\ parses \in BOOLEAN
        /\ signer = [p \in Procs |-> "new"]
        /\ refused = {}
        /\ pc = [t \in Threads |-> "idle"]
        /\ prev = [t \in Threads |-> Genesis]
        /\ hash = [t \in Threads |-> 0]
        /\ mac = [t \in Threads |-> NoKey]
        /\ sig = [t \in Threads |-> FALSE]
        /\ answer = [t \in Threads |-> "none"]
        /\ scanned = [t \in Threads |-> 0]
        /\ fresh = 0
        /\ stops = 0

Goto(t, stage) == pc' = [pc EXCEPT ![t] = stage]

\* The call is over, and with it its local variables.
Forget(ts) ==
    /\ prev' = [t \in Threads |-> IF t \in ts THEN Genesis ELSE prev[t]]
    /\ hash' = [t \in Threads |-> IF t \in ts THEN 0 ELSE hash[t]]
    /\ mac' = [t \in Threads |-> IF t \in ts THEN NoKey ELSE mac[t]]
    /\ sig' = [t \in Threads |-> sig[t] /\ t \notin ts]

\* Mutated form of Acquire: the call does not wait for the lock.
AcquireFree(t) ==
    /\ pc[t] \in {"add", "verify"}
    /\ lock' = [lock EXCEPT ![ProcOf[t]] = t]
    /\ Goto(t, IF pc[t] = "add" THEN "read" ELSE "scan")
    /\ UNCHANGED <<log, key, ecdsa, record, verdict, fresh, stops>>

\* with _chain_lock
Acquire(t) ==
    /\ pc[t] \in {"add", "verify"}
    /\ lock[ProcOf[t]] = NoThread
    /\ lock' = [lock EXCEPT ![ProcOf[t]] = t]
    /\ Goto(t, IF pc[t] = "add" THEN "read" ELSE "scan")
    /\ UNCHANGED <<log, key, ecdsa, record, verdict, fresh, stops>>

Release(t) == lock' = [lock EXCEPT ![ProcOf[t]] = NoThread]

-----------------------------------------------------------------------------
(* add_event                                                               *)

CallAdd(t) ==
    /\ pc[t] = "idle"
    /\ fresh < MaxFresh
    /\ Goto(t, "add")
    /\ UNCHANGED <<log, lock, key, ecdsa, record, verdict, fresh, stops>>

LastHash == IF log = <<>> THEN Genesis ELSE log[Len(log)].hash

\* _get_last_hash
ReadLast(t) ==
    /\ pc[t] = "read"
    /\ prev' = [prev EXCEPT ![t] = LastHash]
    /\ Goto(t, "hash")
    /\ UNCHANGED <<log, lock, key, ecdsa, hash, mac, sig, verdict, fresh, stops>>

\* json.dumps and _compute_hash
Hash(t) ==
    /\ pc[t] = "hash"
    /\ fresh < MaxFresh
    /\ fresh' = fresh + 1
    /\ hash' = [hash EXCEPT ![t] = fresh + 1]
    /\ Goto(t, "hmac")
    /\ UNCHANGED <<log, lock, key, ecdsa, prev, mac, sig, verdict, stops>>

\* Mutated form of GetKey: the development key is not kept.
GetKeyAnew(p) ==
    IF EnvKey THEN UNCHANGED <<key, fresh>>
    ELSE /\ fresh < MaxFresh
         /\ fresh' = fresh + 1
         /\ key' = [key EXCEPT ![p] = fresh + 1]

\* _get_hmac_key: with no key in the environment the process draws one, once.
GetKey(p) ==
    IF EnvKey \/ key[p] # NoKey THEN UNCHANGED <<key, fresh>>
    ELSE /\ fresh < MaxFresh
         /\ fresh' = fresh + 1
         /\ key' = [key EXCEPT ![p] = fresh + 1]

\* _compute_signature
SignHmac(t) ==
    /\ pc[t] = "hmac"
    /\ GetKey(ProcOf[t])
    /\ mac' = [mac EXCEPT ![t] = key'[ProcOf[t]]]
    /\ Goto(t, "ecdsa")
    /\ UNCHANGED <<log, lock, ecdsa, prev, hash, sig, verdict, stops>>

\* sk.sign, whose exception _compute_ecdsa_signature swallows.
Sign(t) == \/ /\ sig' = [sig EXCEPT ![t] = TRUE]
              /\ UNCHANGED refused
           \/ /\ sig' = [sig EXCEPT ![t] = FALSE]
              /\ refused' = refused \cup {hash[t]}

\* _get_ecdsa_signer has answered None.
NoSigner(t) == /\ sig' = [sig EXCEPT ![t] = FALSE]
               /\ UNCHANGED refused

\* _compute_ecdsa_signature: _get_ecdsa_signer marks itself initialised before it
\* has loaded the key, and answers None to whoever looks in between.
SignEcdsa(t) ==
    LET p == ProcOf[t] IN
    /\ pc[t] = "ecdsa"
    /\ IF Ecdsa /\ signer[p] = "ready" THEN Sign(t) ELSE NoSigner(t)
    /\ IF Ecdsa /\ signer[p] = "new"
       THEN /\ signer' = [signer EXCEPT ![p] = "loading"]
            /\ Goto(t, "load")
       ELSE /\ Goto(t, "insert")
            /\ UNCHANGED signer
    /\ UNCHANGED <<log, lock, key, parses, prev, hash, mac, verdict, fresh, stops>>

\* The loader reads the key and signs.  A key that cannot be read is a warning in
\* the log, and the process signs nothing from then on.
LoadEcdsa(t) ==
    /\ pc[t] = "load"
    /\ signer' = [signer EXCEPT ![ProcOf[t]] = IF parses THEN "ready" ELSE "broken"]
    /\ IF parses THEN Sign(t) ELSE NoSigner(t)
    /\ Goto(t, "insert")
    /\ UNCHANGED <<log, lock, key, parses, prev, hash, mac, verdict, fresh, stops>>

\* INSERT and commit, then the lock is released on the way out.
Insert(t) ==
    /\ pc[t] = "insert"
    /\ log' = Append(log, [proc |-> ProcOf[t], prev |-> prev[t], hash |-> hash[t],
                           key |-> mac[t], sig |-> sig[t]])
    /\ Goto(t, "leave")
    /\ UNCHANGED <<lock, key, ecdsa, record, verdict, fresh, stops>>

Leave(t) ==
    /\ pc[t] = "leave"
    /\ Release(t)
    /\ Forget({t})
    /\ Goto(t, "idle")
    /\ UNCHANGED <<log, key, ecdsa, verdict, fresh, stops>>

\* Mutated form of Raise: the exception leaves with the lock held.
RaiseLocked(t) ==
    /\ pc[t] \in {"read", "hash", "hmac", "insert", "scan", "judge"}
    /\ Forget({t})
    /\ Goto(t, "idle")
    /\ UNCHANGED <<log, lock, key, ecdsa, verdict, fresh, stops>>

\* Any of these steps may raise: SQLite is locked by another process or its file
\* cannot be opened, the details are not JSON, the key is refused.  verify_chain
\* asks for the key when it has given the lock back.
Raise(t) ==
    /\ pc[t] \in {"read", "hash", "hmac", "insert", "scan", "judge"}
    /\ IF pc[t] = "judge" THEN UNCHANGED lock ELSE Release(t)
    /\ Forget({t})
    /\ Goto(t, "idle")
    /\ UNCHANGED <<log, key, ecdsa, verdict, fresh, stops>>

-----------------------------------------------------------------------------
(* verify_chain                                                            *)

CallVerify(t) ==
    /\ pc[t] = "idle"
    /\ t \in Verifiers
    /\ answer[t] = "none"
    /\ Goto(t, "verify")
    /\ UNCHANGED <<log, lock, key, ecdsa, record, verdict, fresh, stops>>

\* The rows are fetched under the lock; the table only grows, so that their
\* number tells which ones they were.
Scan(t) ==
    /\ pc[t] = "scan"
    /\ scanned' = [scanned EXCEPT ![t] = Len(log)]
    /\ Release(t)
    /\ IF log = <<>>
       THEN answer' = [answer EXCEPT ![t] = "valid"] /\ Goto(t, "idle")
       ELSE UNCHANGED answer /\ Goto(t, "judge")
    /\ UNCHANGED <<log, key, ecdsa, record, fresh, stops>>

\* Each row's own hash is right, as nobody altered it; each row's signature must
\* have been made with this process's key.  previous_hash is compared with nothing.
Judge(t) ==
    LET k == key'[ProcOf[t]] IN
    /\ pc[t] = "judge"
    /\ GetKey(ProcOf[t])
    /\ answer' = [answer EXCEPT ![t] = IF \A i \in 1 .. scanned[t] : log[i].key = k
                                       THEN "valid" ELSE "tampered"]
    /\ Goto(t, "idle")
    /\ UNCHANGED <<log, lock, ecdsa, record, scanned, stops>>

-----------------------------------------------------------------------------
\* A worker is stopped (a crash, or --limit-max-requests) and replaced: what it
\* had not committed is gone, and so are its lock, its key and its signer.
Stop(p) ==
    /\ stops < MaxStops
    /\ stops' = stops + 1
    /\ lock' = [lock EXCEPT ![p] = NoThread]
    /\ key' = [key EXCEPT ![p] = NoKey]
    /\ signer' = [signer EXCEPT ![p] = "new"]
    /\ pc' = [t \in Threads |-> IF ProcOf[t] = p THEN "idle" ELSE pc[t]]
    /\ Forget({t \in Threads : ProcOf[t] = p})
    /\ answer' = [t \in Threads |-> IF ProcOf[t] = p THEN "none" ELSE answer[t]]
    /\ scanned' = [t \in Threads |-> IF ProcOf[t] = p THEN 0 ELSE scanned[t]]
    /\ UNCHANGED <<log, parses, refused, fresh>>

Step(t) == \/ Acquire(t)
           \/ ReadLast(t) \/ Hash(t) \/ SignHmac(t) \/ SignEcdsa(t) \/ LoadEcdsa(t)
           \/ Insert(t) \/ Leave(t) \/ Raise(t)
           \/ Scan(t) \/ Judge(t)

Next == \/ \E t \in Threads : CallAdd(t) \/ CallVerify(t) \/ Step(t)
        \/ \E p \in Procs : Stop(p)

Spec == Init /\ [][Next]_vars /\ \A t \in Threads : WF_vars(Step(t))

-----------------------------------------------------------------------------
(* Properties.                                                             *)

TypeOK ==
    /\ log \in Seq(Row)
    /\ lock \in [Procs -> Threads \cup {NoThread}]
    /\ key \in [Procs -> 0 .. MaxFresh]
    /\ parses \in BOOLEAN
    /\ signer \in [Procs -> {"new", "loading", "ready", "broken"}]
    /\ refused \in SUBSET (0 .. MaxFresh)
    /\ pc \in [Threads -> {"idle", "add", "read", "hash", "hmac", "ecdsa", "load",
                           "insert", "leave", "verify", "scan", "judge"}]
    /\ prev \in [Threads -> 0 .. MaxFresh]
    /\ hash \in [Threads -> 0 .. MaxFresh]
    /\ mac \in [Threads -> 0 .. MaxFresh]
    /\ sig \in [Threads -> BOOLEAN]
    /\ answer \in [Threads -> {"none", "valid", "tampered"}]
    /\ scanned \in [Threads -> 0 .. Len(log)]
    /\ fresh \in 0 .. MaxFresh
    /\ stops \in 0 .. MaxStops

HashAt(rows, j) == IF j = 0 THEN Genesis ELSE rows[j].hash

\* A record put at position i by process p with this previous_hash links to an
\* earlier one, or to GENESIS, and not past a record of its own process.
LinksPastOthersOnly(rows, i, link, p) ==
    \E j \in 0 .. i - 1 : /\ link = HashAt(rows, j)
                           /\ \A k \in j + 1 .. i - 1 : rows[k].proc # p

\* _chain_lock keeps the threads of a process from forking the chain: each record
\* links to GENESIS or to an earlier record, and every record in between was
\* written by another process.  A process alone writes a linear chain, across
\* restarts, failed calls and concurrent verifications.
ForksOnlyAcrossProcesses ==
    \A i \in 1 .. Len(log) : LinksPastOthersOnly(log, i, log[i].prev, log[i].proc)

\* With an ECDSA key configured a record goes without a signature only if the key
\* cannot be read at all or if signing this very record failed: never because
\* _get_ecdsa_signer answers None while another thread is loading the key, and
\* never because an earlier signature failed.
UnsignedOnlyByFailure ==
    Ecdsa /\ parses => \A i \in 1 .. Len(log) : log[i].sig \/ log[i].hash \in refused

\* verify_chain raises no false alarm over what this code wrote: records are only
\* called tampered when one was signed with a development key that another process
\* drew, or this one before it was restarted.
NoFalseAlarm ==
    \A t \in Threads : answer[t] = "tampered" =>
        \E i \in 1 .. scanned[t] :
            /\ ~EnvKey
            /\ log[i].key # key[ProcOf[t]]
            /\ log[i].proc # ProcOf[t] \/ stops > 0

\* The chain lock is always given back: no step that raises, and no worker that is
\* stopped, leaves the other threads of the process waiting for ever.
LockReturns == \A t \in Threads : (lock[ProcOf[t]] = t) ~> (lock[ProcOf[t]] # t)

=============================================================================

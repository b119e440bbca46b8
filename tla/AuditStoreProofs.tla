-------------------------- MODULE AuditStoreProofs --------------------------
(***************************************************************************)
(* Theorems about AuditStore for every number of worker processes, every   *)
(* assignment of threads to them and every key configuration.              *)
(***************************************************************************)
EXTENDS AuditStore, SequenceTheorems, TLAPS

USE ProcOfAssumption, NoThreadAssumption, BoundsAssumption, KeysAssumption

\* A record that is past _compute_hash has a hash; without this the type of the
\* table would not be preserved by the INSERT.
Hashed == \A t \in Threads : pc[t] \in {"hmac", "ecdsa", "load", "insert"} => hash[t] # 0

\* What GetKey leaves behind is a key and a counter of the right type.
LEMMA GetKeyType ==
    ASSUME TypeOK, NEW p \in Procs, GetKey(p)
    PROVE  key' \in [Procs -> 0 .. MaxFresh] /\ fresh' \in 0 .. MaxFresh
  <1>1. CASE EnvKey \/ key[p] # NoKey
    <2>1. key' = key /\ fresh' = fresh
      BY <1>1 DEF GetKey
    <2> QED  BY <2>1 DEF TypeOK
  <1>2. CASE ~(EnvKey \/ key[p] # NoKey)
    <2>1. fresh < MaxFresh /\ fresh' = fresh + 1 /\ key' = [key EXCEPT ![p] = fresh + 1]
      BY <1>2 DEF GetKey
    <2> QED  BY <2>1 DEF TypeOK
  <1> QED  BY <1>1, <1>2

LEMMA LastHashType ==
    ASSUME log \in Seq(Row)
    PROVE  LastHash \in 0 .. MaxFresh
  <1>1. CASE log = <<>>
    BY <1>1 DEF LastHash, Genesis
  <1>2. CASE log # <<>>
    <2>1. Len(log) \in 1 .. Len(log)
      BY <1>2
    <2>2. log[Len(log)] \in Row
      BY <2>1
    <2> QED  BY <1>2, <2>2 DEF LastHash, Row
  <1> QED  BY <1>1, <1>2

LEMMA ForgetType ==
    ASSUME TypeOK, NEW ts, Forget(ts)
    PROVE  /\ prev' \in [Threads -> 0 .. MaxFresh]
           /\ hash' \in [Threads -> 0 .. MaxFresh]
           /\ mac' \in [Threads -> 0 .. MaxFresh]
           /\ sig' \in [Threads -> BOOLEAN]
  BY DEF Forget, TypeOK, Genesis, NoKey

\* Signing or not, the signature and the history have the right type.
LEMMA SignType ==
    ASSUME TypeOK, NEW t \in Threads, Sign(t) \/ NoSigner(t)
    PROVE  sig' \in [Threads -> BOOLEAN] /\ refused' \in SUBSET (0 .. MaxFresh)
  <1>1. hash[t] \in 0 .. MaxFresh
    BY DEF TypeOK
  <1> QED  BY <1>1 DEF Sign, NoSigner, TypeOK

\* The variables of the log keep their shape.
LEMMA TypeInductive ==
    ASSUME TypeOK, Hashed, [Next]_vars
    PROVE  TypeOK' /\ Hashed'
  <1>1. CASE UNCHANGED vars
    BY <1>1 DEF TypeOK, Hashed, vars, record, verdict, ecdsa
  <1>2. ASSUME NEW t \in Threads, CallAdd(t) PROVE TypeOK' /\ Hashed'
    BY <1>2 DEF CallAdd, Goto, TypeOK, Hashed, record, verdict, ecdsa
  <1>3. ASSUME NEW t \in Threads, CallVerify(t) PROVE TypeOK' /\ Hashed'
    BY <1>3 DEF CallVerify, Goto, TypeOK, Hashed, record, verdict, ecdsa
  <1>4. ASSUME NEW t \in Threads, Acquire(t) PROVE TypeOK' /\ Hashed'
    BY <1>4 DEF Acquire, Goto, TypeOK, Hashed, record, verdict, ecdsa
  <1>5. ASSUME NEW t \in Threads, ReadLast(t) PROVE TypeOK' /\ Hashed'
    <2>1. LastHash \in 0 .. MaxFresh
      BY LastHashType DEF TypeOK
    <2> QED  BY <1>5, <2>1 DEF ReadLast, Goto, TypeOK, Hashed, verdict, ecdsa
  <1>6. ASSUME NEW t \in Threads, Hash(t) PROVE TypeOK' /\ Hashed'
    BY <1>6 DEF Hash, Goto, TypeOK, Hashed, verdict, ecdsa
  <1>7. ASSUME NEW t \in Threads, SignHmac(t) PROVE TypeOK' /\ Hashed'
    <2>1. key' \in [Procs -> 0 .. MaxFresh] /\ fresh' \in 0 .. MaxFresh
      BY <1>7, GetKeyType DEF SignHmac
    <2> QED  BY <1>7, <2>1 DEF SignHmac, Goto, TypeOK, Hashed, verdict, ecdsa
  <1>8. ASSUME NEW t \in Threads, SignEcdsa(t) PROVE TypeOK' /\ Hashed'
    <2>1. sig' \in [Threads -> BOOLEAN] /\ refused' \in SUBSET (0 .. MaxFresh)
      BY <1>8, SignType DEF SignEcdsa
    <2>2. signer' \in [Procs -> {"new", "loading", "ready", "broken"}]
      <3>1. signer' = signer \/ signer' = [signer EXCEPT ![ProcOf[t]] = "loading"]
        BY <1>8 DEF SignEcdsa
      <3>2. signer \in [Procs -> {"new", "loading", "ready", "broken"}]
        BY DEF TypeOK
      <3> QED  BY <3>1, <3>2
    <2>3. CASE Goto(t, "load")
      BY <1>8, <2>1, <2>2, <2>3 DEF SignEcdsa, Goto, TypeOK, Hashed, verdict, ecdsa
    <2>4. CASE Goto(t, "insert")
      BY <1>8, <2>1, <2>2, <2>4 DEF SignEcdsa, Goto, TypeOK, Hashed, verdict, ecdsa
    <2> QED  BY <1>8, <2>3, <2>4 DEF SignEcdsa
  <1>9. ASSUME NEW t \in Threads, LoadEcdsa(t) PROVE TypeOK' /\ Hashed'
    <2>1. sig' \in [Threads -> BOOLEAN] /\ refused' \in SUBSET (0 .. MaxFresh)
      BY <1>9, SignType DEF LoadEcdsa
    <2>2. signer' \in [Procs -> {"new", "loading", "ready", "broken"}]
      BY <1>9 DEF LoadEcdsa, TypeOK
    <2>3. /\ pc[t] = "load" /\ pc' = [pc EXCEPT ![t] = "insert"]
          /\ UNCHANGED <<log, lock, key, parses, prev, hash, mac, answer, scanned, fresh, stops>>
      BY <1>9 DEF LoadEcdsa, Goto, verdict
    <2> QED  BY <2>1, <2>2, <2>3 DEF TypeOK, Hashed
  <1>10. ASSUME NEW t \in Threads, Insert(t) PROVE TypeOK' /\ Hashed'
    <2> DEFINE row == [proc |-> ProcOf[t], prev |-> prev[t], hash |-> hash[t],
                       key |-> mac[t], sig |-> sig[t]]
    <2>1. row \in Row
      BY <1>10 DEF Insert, Hashed, TypeOK, Row
    <2>2. log' = Append(log, row)
      BY <1>10 DEF Insert
    <2> HIDE DEF row
    <2>3. log' \in Seq(Row) /\ Len(log') = Len(log) + 1
      BY <2>1, <2>2 DEF TypeOK
    <2>4. scanned' \in [Threads -> 0 .. Len(log')]
      BY <1>10, <2>3 DEF Insert, TypeOK, verdict, ecdsa
    <2> QED  BY <1>10, <2>3, <2>4 DEF Insert, Goto, TypeOK, Hashed, record, verdict, ecdsa
  <1>11. ASSUME NEW t \in Threads, Leave(t) PROVE TypeOK' /\ Hashed'
    BY <1>11, ForgetType DEF Leave, Release, Forget, Goto, TypeOK, Hashed, verdict, ecdsa
  <1>12. ASSUME NEW t \in Threads, Raise(t) PROVE TypeOK' /\ Hashed'
    <2>1. lock' \in [Procs -> Threads \cup {NoThread}]
      BY <1>12 DEF Raise, Release, TypeOK
    <2>2. /\ prev' \in [Threads -> 0 .. MaxFresh]
          /\ hash' \in [Threads -> 0 .. MaxFresh]
          /\ mac' \in [Threads -> 0 .. MaxFresh]
          /\ sig' \in [Threads -> BOOLEAN]
          /\ \A u \in Threads : u # t => hash'[u] = hash[u]
      BY <1>12, ForgetType DEF Raise, Forget
    <2>3. /\ pc' = [pc EXCEPT ![t] = "idle"]
          /\ UNCHANGED <<log, key, parses, signer, refused, answer, scanned, fresh, stops>>
      BY <1>12 DEF Raise, Goto, verdict, ecdsa
    <2> QED  BY <2>1, <2>2, <2>3 DEF TypeOK, Hashed
  <1>13. ASSUME NEW t \in Threads, Scan(t) PROVE TypeOK' /\ Hashed'
    <2>1. /\ answer' \in [Threads -> {"none", "valid", "tampered"}]
          /\ Goto(t, "idle") \/ Goto(t, "judge")
      BY <1>13 DEF Scan, TypeOK
    <2>2. /\ scanned' \in [Threads -> 0 .. Len(log)]
          /\ lock' \in [Procs -> Threads \cup {NoThread}]
      BY <1>13 DEF Scan, Release, TypeOK
    <2>3. UNCHANGED <<log, key, parses, signer, refused, prev, hash, mac, sig, fresh, stops>>
      BY <1>13 DEF Scan, record, ecdsa
    <2> QED  BY <2>1, <2>2, <2>3 DEF Goto, TypeOK, Hashed
  <1>14. ASSUME NEW t \in Threads, Judge(t) PROVE TypeOK' /\ Hashed'
    <2>1. key' \in [Procs -> 0 .. MaxFresh] /\ fresh' \in 0 .. MaxFresh
      BY <1>14, GetKeyType DEF Judge
    <2> QED  BY <1>14, <2>1 DEF Judge, Goto, TypeOK, Hashed, record, ecdsa
  <1>15. ASSUME NEW p \in Procs, Stop(p) PROVE TypeOK' /\ Hashed'
    <2> DEFINE ts == {t \in Threads : ProcOf[t] = p}
    <2>1. Forget(ts)
      BY <1>15 DEF Stop
    <2>2. /\ prev' \in [Threads -> 0 .. MaxFresh]
          /\ hash' \in [Threads -> 0 .. MaxFresh]
          /\ mac' \in [Threads -> 0 .. MaxFresh]
          /\ sig' \in [Threads -> BOOLEAN]
      BY <2>1, ForgetType
    <2>3. /\ lock' \in [Procs -> Threads \cup {NoThread}]
          /\ key' \in [Procs -> 0 .. MaxFresh]
          /\ signer' \in [Procs -> {"new", "loading", "ready", "broken"}]
          /\ parses' = parses /\ refused' = refused
          /\ log' = log /\ fresh' = fresh /\ stops' \in 0 .. MaxStops
      BY <1>15 DEF Stop, TypeOK, NoKey
    <2>4. /\ answer' \in [Threads -> {"none", "valid", "tampered"}]
          /\ scanned' \in [Threads -> 0 .. Len(log)]
      BY <1>15 DEF Stop, TypeOK
    <2>5. pc' = [t \in Threads |-> IF ProcOf[t] = p THEN "idle" ELSE pc[t]]
      BY <1>15 DEF Stop
    <2>6. \A t \in Threads : ProcOf[t] # p => hash'[t] = hash[t]
      BY <2>1 DEF Forget
    <2> HIDE DEF ts
    <2>7. TypeOK'
      BY <2>2, <2>3, <2>4, <2>5 DEF TypeOK
    <2>8. Hashed'
      BY <2>5, <2>6 DEF Hashed
    <2> QED  BY <2>7, <2>8
  <1> QED
    BY <1>1, <1>2, <1>3, <1>4, <1>5, <1>6, <1>7, <1>8, <1>9, <1>10, <1>11, <1>12,
       <1>13, <1>14, <1>15 DEF Next, Step

THEOREM AuditTypeCorrect == Spec => []TypeOK
  <1>1. Init => TypeOK /\ Hashed
    BY DEF Init, TypeOK, Hashed, Genesis, NoKey
  <1>2. TypeOK /\ Hashed /\ [Next]_vars => TypeOK' /\ Hashed'
    BY TypeInductive
  <1> QED  BY <1>1, <1>2, PTL DEF Spec

-----------------------------------------------------------------------------
(* Mutual exclusion within a process.                                      *)

Inside == {"read", "hash", "hmac", "ecdsa", "load", "insert", "leave", "scan"}

\* A thread in the lock section is the one its process's lock names.
Held == \A t \in Threads : pc[t] \in Inside => lock[ProcOf[t]] = t

\* The steps that change pc of one thread only and leave the lock alone.
LEMMA HeldInside ==
    ASSUME TypeOK, Held, NEW t \in Threads, NEW stage, Goto(t, stage),
           UNCHANGED lock, pc[t] \in Inside \/ stage \notin Inside
    PROVE  Held'
  BY DEF Goto, TypeOK, Held

\* The steps that give the lock back.
LEMMA HeldReleased ==
    ASSUME TypeOK, Held, NEW t \in Threads, NEW stage, Goto(t, stage),
           Release(t), pc[t] \in Inside, stage \notin Inside
    PROVE  Held'
  BY DEF Goto, Release, TypeOK, Held

LEMMA HeldInductive ==
    ASSUME TypeOK, Held, [Next]_vars
    PROVE  Held'
  <1>1. CASE UNCHANGED vars
    BY <1>1 DEF Held, vars
  <1>2. ASSUME NEW t \in Threads, CallAdd(t) \/ CallVerify(t) PROVE Held'
    BY <1>2, HeldInside DEF CallAdd, CallVerify, Inside
  <1>3. ASSUME NEW t \in Threads, Acquire(t) PROVE Held'
    BY <1>3 DEF Acquire, Goto, TypeOK, Held, Inside
  <1>4. ASSUME NEW t \in Threads, \/ ReadLast(t) \/ Hash(t) \/ SignHmac(t) \/ LoadEcdsa(t)
                                  \/ Insert(t)
        PROVE  Held'
    BY <1>4, HeldInside DEF ReadLast, Hash, SignHmac, LoadEcdsa, Insert, Inside
  <1>5. ASSUME NEW t \in Threads, SignEcdsa(t) PROVE Held'
    <2>1. Goto(t, "load") \/ Goto(t, "insert")
      BY <1>5 DEF SignEcdsa
    <2> QED  BY <1>5, <2>1, HeldInside DEF SignEcdsa, Inside
  <1>6. ASSUME NEW t \in Threads, Leave(t) \/ Raise(t) PROVE Held'
    <2>1. CASE pc[t] = "judge"
      BY <1>6, <2>1, HeldInside DEF Leave, Raise, Inside
    <2>2. CASE pc[t] # "judge"
      BY <1>6, <2>2, HeldReleased DEF Leave, Raise, Inside
    <2> QED  BY <2>1, <2>2
  <1>7. ASSUME NEW t \in Threads, Scan(t) PROVE Held'
    <2>1. Goto(t, "idle") \/ Goto(t, "judge")
      BY <1>7 DEF Scan
    <2> QED  BY <1>7, <2>1, HeldReleased DEF Scan, Inside
  <1>8. ASSUME NEW t \in Threads, Judge(t) PROVE Held'
    BY <1>8, HeldInside DEF Judge, Inside
  <1>9. ASSUME NEW p \in Procs, Stop(p) PROVE Held'
    BY <1>9 DEF Stop, TypeOK, Held, Inside
  <1> QED
    BY <1>1, <1>2, <1>3, <1>4, <1>5, <1>6, <1>7, <1>8, <1>9 DEF Next, Step

-----------------------------------------------------------------------------
(* The chain.                                                              *)

Linked == {"hash", "hmac", "ecdsa", "load", "insert"}

\* What a thread has read as previous_hash is still right for a record of its
\* process appended now: only other processes have written in between.
LinkInv == \A t \in Threads :
    pc[t] \in Linked => LinksPastOthersOnly(log, Len(log) + 1, prev[t], ProcOf[t])

\* Whether a record links only looks at the records before it.
LEMMA LinksPrefix ==
    ASSUME NEW rows \in Seq(Row), NEW longer \in Seq(Row), Len(rows) <= Len(longer),
           \A k \in 1 .. Len(rows) : longer[k] = rows[k],
           NEW i \in 1 .. Len(rows) + 1, NEW link, NEW p
    PROVE  LinksPastOthersOnly(rows, i, link, p) <=> LinksPastOthersOnly(longer, i, link, p)
  <1>1. \A k \in 1 .. i - 1 : k \in 1 .. Len(rows)
    OBVIOUS
  <1>2. \A j \in 0 .. i - 1 : HashAt(rows, j) = HashAt(longer, j)
    BY <1>1 DEF HashAt
  <1>3. \A j \in 0 .. i - 1 : \A k \in j + 1 .. i - 1 : rows[k] = longer[k]
    BY <1>1
  <1> QED  BY <1>2, <1>3 DEF LinksPastOthersOnly

\* A record of another process does not come between.
LEMMA LinksPastAnother ==
    ASSUME NEW rows \in Seq(Row), NEW row \in Row, NEW link, NEW p, row.proc # p,
           LinksPastOthersOnly(rows, Len(rows) + 1, link, p)
    PROVE  LinksPastOthersOnly(Append(rows, row), Len(rows) + 2, link, p)
  <1> DEFINE longer == Append(rows, row)
             n == Len(rows)
  <1>1. /\ longer \in Seq(Row) /\ Len(longer) = n + 1 /\ n \in Nat
        /\ \A k \in 1 .. n : longer[k] = rows[k]
        /\ longer[n + 1] = row
    OBVIOUS
  <1> HIDE DEF longer, n
  <1>2. PICK j \in 0 .. n : /\ link = HashAt(rows, j)
                            /\ \A k \in j + 1 .. n : rows[k].proc # p
    <2>1. PICK j \in 0 .. (n + 1) - 1 : /\ link = HashAt(rows, j)
                            /\ \A k \in j + 1 .. (n + 1) - 1 : rows[k].proc # p
      BY DEF LinksPastOthersOnly, n
    <2>2. (n + 1) - 1 = n
      BY <1>1
    <2> QED  BY <2>1, <2>2
  <1>3. HashAt(longer, j) = link
    BY <1>1, <1>2 DEF HashAt
  <1>4. \A k \in j + 1 .. n + 1 : longer[k].proc # p
    <2> TAKE k \in j + 1 .. n + 1
    <2>1. CASE k = n + 1
      BY <2>1, <1>1
    <2>2. CASE k # n + 1
      BY <2>2, <1>1, <1>2
    <2> QED  BY <2>1, <2>2
  <1>5. j \in 0 .. (n + 2) - 1 /\ (n + 2) - 1 = n + 1
    BY <1>1
  <1>6. LinksPastOthersOnly(longer, n + 2, link, p)
    BY <1>3, <1>4, <1>5 DEF LinksPastOthersOnly
  <1> QED  BY <1>6 DEF longer, n

\* The last record's hash is a link for whoever appends next.
LEMMA LinksToLast ==
    ASSUME log \in Seq(Row), NEW p
    PROVE  LinksPastOthersOnly(log, Len(log) + 1, LastHash, p)
  <1>1. Len(log) \in Nat /\ (log = <<>> <=> Len(log) = 0)
    OBVIOUS
  <1>2. LastHash = HashAt(log, Len(log))
    BY <1>1 DEF LastHash, HashAt
  <1>3. Len(log) \in 0 .. (Len(log) + 1) - 1
    BY <1>1
  <1>4. Len(log) + 1 .. (Len(log) + 1) - 1 = {}
    BY <1>1
  <1> QED  BY <1>2, <1>3, <1>4 DEF LinksPastOthersOnly

\* A step that leaves the table and previous_hash alone for every thread still linked.
LEMMA LinkKept ==
    ASSUME TypeOK, LinkInv, ForksOnlyAcrossProcesses, UNCHANGED log,
           \A t \in Threads : pc'[t] \in Linked => pc[t] \in Linked /\ prev'[t] = prev[t]
    PROVE  LinkInv' /\ ForksOnlyAcrossProcesses'
  BY DEF LinkInv, ForksOnlyAcrossProcesses, LinksPastOthersOnly, HashAt

LEMMA ChainInductive ==
    ASSUME TypeOK, TypeOK', Held, LinkInv, ForksOnlyAcrossProcesses, [Next]_vars
    PROVE  LinkInv' /\ ForksOnlyAcrossProcesses'
  <1> USE DEF Linked
  <1>1. CASE UNCHANGED vars
    BY <1>1, LinkKept DEF vars, record, ecdsa
  <1>2. ASSUME NEW t \in Threads, CallAdd(t) \/ CallVerify(t) \/ Acquire(t)
        PROVE  LinkInv' /\ ForksOnlyAcrossProcesses'
    <2>1. PICK stage \in {"add", "verify", "read", "scan"} : Goto(t, stage)
      BY <1>2 DEF CallAdd, CallVerify, Acquire
    <2>2. log' = log /\ prev' = prev
      BY <1>2 DEF CallAdd, CallVerify, Acquire, record, ecdsa
    <2> QED  BY <2>1, <2>2, LinkKept DEF Goto, TypeOK
  <1>3. ASSUME NEW t \in Threads, ReadLast(t)
        PROVE  LinkInv' /\ ForksOnlyAcrossProcesses'
    <2>1. /\ log' = log
          /\ prev' = [prev EXCEPT ![t] = LastHash]
          /\ pc' = [pc EXCEPT ![t] = "hash"]
      BY <1>3 DEF ReadLast, Goto
    <2>2. ForksOnlyAcrossProcesses'
      BY <2>1 DEF ForksOnlyAcrossProcesses, LinksPastOthersOnly, HashAt
    <2>3. ASSUME NEW u \in Threads, pc'[u] \in Linked
          PROVE  LinksPastOthersOnly(log, Len(log) + 1, prev'[u], ProcOf[u])
      <3>1. CASE u = t
        <4>1. prev'[u] = LastHash
          BY <2>1, <3>1 DEF TypeOK
        <4> QED  BY <4>1, LinksToLast DEF TypeOK
      <3>2. CASE u # t
        BY <2>1, <2>3, <3>2 DEF TypeOK, LinkInv
      <3> QED  BY <3>1, <3>2
    <2>4. LinkInv'
      BY <2>1, <2>3 DEF LinkInv, LinksPastOthersOnly, HashAt
    <2> QED  BY <2>2, <2>4
  <1>4. ASSUME NEW t \in Threads, Hash(t) \/ SignHmac(t) \/ LoadEcdsa(t)
        PROVE  LinkInv' /\ ForksOnlyAcrossProcesses'
    BY <1>4, LinkKept DEF Hash, SignHmac, LoadEcdsa, Goto, TypeOK
  <1>5. ASSUME NEW t \in Threads, SignEcdsa(t)
        PROVE  LinkInv' /\ ForksOnlyAcrossProcesses'
    <2>1. Goto(t, "load") \/ Goto(t, "insert")
      BY <1>5 DEF SignEcdsa
    <2>2. log' = log /\ prev' = prev /\ pc[t] = "ecdsa"
      BY <1>5 DEF SignEcdsa
    <2> QED  BY <2>1, <2>2, LinkKept DEF Goto, TypeOK
  <1>6. ASSUME NEW t \in Threads, Insert(t)
        PROVE  LinkInv' /\ ForksOnlyAcrossProcesses'
    <2> DEFINE row == [proc |-> ProcOf[t], prev |-> prev[t], hash |-> hash[t],
                       key |-> mac[t], sig |-> sig[t]]
               n == Len(log)
    <2>1. /\ log' = Append(log, row) /\ prev' = prev
          /\ pc' = [pc EXCEPT ![t] = "leave"] /\ pc[t] = "insert"
      BY <1>6 DEF Insert, Goto, record, ecdsa
    <2>2. row.proc = ProcOf[t] /\ row.prev = prev[t]
      OBVIOUS
    <2> HIDE DEF row
    <2>3. log \in Seq(Row) /\ log' \in Seq(Row) /\ n \in Nat
      BY DEF TypeOK
    <2>4. /\ Len(log') = n + 1 /\ log'[n + 1] = row
          /\ \A k \in 1 .. n : log'[k] = log[k]
      BY <2>1, <2>3
    <2>5. row \in Row
      <3>1. n + 1 \in 1 .. Len(log')
        BY <2>3, <2>4
      <3> QED  BY <3>1, <2>3, <2>4
    <2> HIDE DEF n
    <2>6. LinksPastOthersOnly(log, n + 1, prev[t], ProcOf[t])
      BY <2>1 DEF LinkInv, n
    <2>7. LinksPastOthersOnly(log', n + 1, row.prev, row.proc)
      <3>1. n + 1 \in 1 .. Len(log) + 1 /\ Len(log) <= Len(log')
        BY <2>3, <2>4 DEF n
      <3> QED  BY <3>1, <2>2, <2>3, <2>4, <2>6, LinksPrefix DEF n
    <2>8. ForksOnlyAcrossProcesses'
      <3> SUFFICES ASSUME NEW i \in 1 .. n + 1
                   PROVE  LinksPastOthersOnly(log', i, log'[i].prev, log'[i].proc)
        BY <2>4 DEF ForksOnlyAcrossProcesses, LinksPastOthersOnly, HashAt
      <3>1. CASE i = n + 1
        BY <3>1, <2>4, <2>7
      <3>2. CASE i # n + 1
        <4>1. i \in 1 .. n /\ i \in 1 .. Len(log) + 1 /\ Len(log) <= Len(log')
          BY <3>2, <2>3, <2>4 DEF n
        <4>2. LinksPastOthersOnly(log, i, log[i].prev, log[i].proc)
          BY <4>1 DEF ForksOnlyAcrossProcesses, n
        <4> QED  BY <4>1, <4>2, <2>3, <2>4, LinksPrefix DEF n
      <3> QED  BY <3>1, <3>2
    <2>9. LinkInv'
      <3> SUFFICES ASSUME NEW u \in Threads, pc'[u] \in Linked
                   PROVE  LinksPastOthersOnly(log', Len(log') + 1, prev'[u], ProcOf[u])
        BY DEF LinkInv, LinksPastOthersOnly, HashAt
      <3>1. u # t /\ pc[u] \in Linked
        BY <2>1 DEF TypeOK
      <3>2. ProcOf[u] # ProcOf[t]
        BY <2>1, <3>1 DEF Held, Inside
      <3>3. LinksPastOthersOnly(log, Len(log) + 1, prev[u], ProcOf[u])
        BY <3>1 DEF LinkInv
      <3>4. LinksPastOthersOnly(Append(log, row), Len(log) + 2, prev[u], ProcOf[u])
        BY <2>2, <2>3, <2>5, <3>2, <3>3, LinksPastAnother
      <3>5. Len(log') + 1 = Len(log) + 2
        BY <2>3, <2>4 DEF n
      <3> QED  BY <2>1, <3>4, <3>5
    <2> QED  BY <2>8, <2>9
  <1>7. ASSUME NEW t \in Threads, Leave(t) \/ Raise(t)
        PROVE  LinkInv' /\ ForksOnlyAcrossProcesses'
    <2>1. log' = log /\ Goto(t, "idle") /\ Forget({t})
      BY <1>7 DEF Leave, Raise
    <2>2. \A u \in Threads : u # t => prev'[u] = prev[u]
      BY <2>1 DEF Forget
    <2> QED  BY <2>1, <2>2, LinkKept DEF Goto, TypeOK
  <1>8. ASSUME NEW t \in Threads, Scan(t)
        PROVE  LinkInv' /\ ForksOnlyAcrossProcesses'
    <2>1. Goto(t, "idle") \/ Goto(t, "judge")
      BY <1>8 DEF Scan
    <2>2. log' = log /\ prev' = prev
      BY <1>8 DEF Scan, record, ecdsa
    <2> QED  BY <2>1, <2>2, LinkKept DEF Goto, TypeOK
  <1>9. ASSUME NEW t \in Threads, Judge(t)
        PROVE  LinkInv' /\ ForksOnlyAcrossProcesses'
    BY <1>9, LinkKept DEF Judge, Goto, TypeOK, record, ecdsa
  <1>10. ASSUME NEW p \in Procs, Stop(p)
        PROVE  LinkInv' /\ ForksOnlyAcrossProcesses'
    <2>1. log' = log /\ pc' = [t \in Threads |-> IF ProcOf[t] = p THEN "idle" ELSE pc[t]]
      BY <1>10 DEF Stop
    <2>2. \A t \in Threads : ProcOf[t] # p => prev'[t] = prev[t]
      BY <1>10 DEF Stop, Forget
    <2> QED  BY <2>1, <2>2, LinkKept
  <1> QED
    BY <1>1, <1>2, <1>3, <1>4, <1>5, <1>6, <1>7, <1>8, <1>9, <1>10 DEF Next, Step

\* However many threads and processes write, a process never forks its own chain.
THEOREM NoForkWithinAProcess == Spec => []ForksOnlyAcrossProcesses
  <1> DEFINE IInv == TypeOK /\ Hashed /\ Held /\ LinkInv /\ ForksOnlyAcrossProcesses
  <1>1. Init => IInv
    BY DEF Init, TypeOK, Hashed, Held, Inside, LinkInv, Linked,
           ForksOnlyAcrossProcesses, Genesis, NoKey
  <1>2. IInv /\ [Next]_vars => IInv'
    BY TypeInductive, HeldInductive, ChainInductive
  <1> QED  BY <1>1, <1>2, PTL DEF Spec

-----------------------------------------------------------------------------
(* The ECDSA signatures.                                                   *)

\* While a process's signer is half loaded, the loader has the chain lock, and so
\* nobody is there to be told that there is no key.
LoadingHeld == \A p \in Procs :
    signer[p] = "loading" =>
        lock[p] \in Threads /\ ProcOf[lock[p]] = p /\ pc[lock[p]] = "load"

\* A signature that is missing when a record is about to be inserted was asked for
\* and refused, and a process only goes without a signer if the key is no key.
Excused(t) == sig[t] \/ hash[t] \in refused
SignInv == Ecdsa /\ parses => \A t \in Threads : pc[t] = "insert" => Excused(t)
BrokenInv == parses => \A p \in Procs : signer[p] # "broken"

\* Who has asked for a signature has it, or has failed to get it.
LEMMA SignExcuses ==
    ASSUME TypeOK, NEW t \in Threads, Sign(t), hash' = hash
    PROVE  /\ Excused(t)'
           /\ \A u \in Threads : u # t => sig'[u] = sig[u]
           /\ refused \subseteq refused'
  BY DEF Sign, Excused, TypeOK

\* No step of a thread that is not loading disturbs the loader.
LEMMA LoadingKept ==
    ASSUME TypeOK, LoadingHeld, UNCHANGED signer, NEW t \in Threads, NEW stage, Goto(t, stage),
           pc[t] # "load",
           \A p \in Procs : lock[p] \in Threads \ {t} => lock'[p] = lock[p]
    PROVE  LoadingHeld'
  <1> SUFFICES ASSUME NEW p \in Procs, signer'[p] = "loading"
               PROVE  lock'[p] \in Threads /\ ProcOf[lock'[p]] = p /\ pc'[lock'[p]] = "load"
    BY DEF LoadingHeld
  <1>1. lock[p] \in Threads /\ ProcOf[lock[p]] = p /\ pc[lock[p]] = "load"
    BY DEF LoadingHeld
  <1>2. lock[p] # t
    BY <1>1
  <1>3. lock'[p] = lock[p]
    BY <1>1, <1>2
  <1>4. pc'[lock[p]] = pc[lock[p]]
    BY <1>1, <1>2 DEF Goto, TypeOK
  <1> QED  BY <1>1, <1>3, <1>4

\* A step that signs nothing, appends nothing and sends no thread to its INSERT.
LEMMA SigKept ==
    ASSUME SignInv, BrokenInv, UnsignedOnlyByFailure, TypeOK, UNCHANGED <<log, ecdsa>>,
           NEW t \in Threads, NEW stage, stage # "insert", Goto(t, stage),
           \A u \in Threads : u # t => (sig[u] => sig'[u]) /\ hash'[u] = hash[u]
    PROVE  SignInv' /\ BrokenInv' /\ UnsignedOnlyByFailure'
  <1>1. SignInv'
    <2> SUFFICES ASSUME Ecdsa, parses, NEW u \in Threads, pc'[u] = "insert"
                 PROVE  Excused(u)'
      BY DEF SignInv, ecdsa
    <2>1. u # t /\ pc[u] = "insert"
      BY DEF Goto, TypeOK
    <2>2. Excused(u)
      BY <2>1 DEF SignInv
    <2> QED  BY <2>1, <2>2 DEF Excused, ecdsa
  <1>2. UnsignedOnlyByFailure' /\ BrokenInv'
    BY DEF UnsignedOnlyByFailure, BrokenInv, ecdsa
  <1> QED  BY <1>1, <1>2

LEMMA SignInductive ==
    ASSUME TypeOK, TypeOK', Held, LoadingHeld, SignInv, BrokenInv, UnsignedOnlyByFailure,
           [Next]_vars
    PROVE  LoadingHeld' /\ SignInv' /\ BrokenInv' /\ UnsignedOnlyByFailure'
  <1> DEFINE Goal == LoadingHeld' /\ SignInv' /\ BrokenInv' /\ UnsignedOnlyByFailure'
  <1>1. CASE UNCHANGED vars
    BY <1>1 DEF vars, record, ecdsa, LoadingHeld, SignInv, Excused, BrokenInv,
                UnsignedOnlyByFailure
  <1>2. ASSUME NEW t \in Threads, CallAdd(t) \/ CallVerify(t) \/ Judge(t) PROVE Goal
    <2>1. PICK stage \in {"add", "verify", "idle"} : Goto(t, stage)
      BY <1>2 DEF CallAdd, CallVerify, Judge
    <2>2. UNCHANGED <<log, ecdsa, sig, hash, lock>> /\ pc[t] # "load"
      BY <1>2 DEF CallAdd, CallVerify, Judge, record
    <2>3. LoadingHeld'
      BY <2>1, <2>2, LoadingKept DEF TypeOK, ecdsa
    <2>4. SignInv' /\ BrokenInv' /\ UnsignedOnlyByFailure'
      BY <2>1, <2>2, SigKept
    <2> QED  BY <2>3, <2>4
  <1>3. ASSUME NEW t \in Threads, Acquire(t) PROVE Goal
    <2>1. PICK stage \in {"read", "scan"} : Goto(t, stage)
      BY <1>3 DEF Acquire
    <2>2. /\ UNCHANGED <<log, ecdsa, sig, hash>> /\ pc[t] # "load"
          /\ lock[ProcOf[t]] = NoThread /\ lock' = [lock EXCEPT ![ProcOf[t]] = t]
      BY <1>3 DEF Acquire, record
    <2>3. LoadingHeld'
      BY <2>1, <2>2, LoadingKept DEF TypeOK, ecdsa
    <2>4. SignInv' /\ BrokenInv' /\ UnsignedOnlyByFailure'
      BY <2>1, <2>2, SigKept
    <2> QED  BY <2>3, <2>4
  <1>4. ASSUME NEW t \in Threads, ReadLast(t) \/ Hash(t) \/ SignHmac(t) PROVE Goal
    <2>1. PICK stage \in {"hash", "hmac", "ecdsa"} : Goto(t, stage)
      BY <1>4 DEF ReadLast, Hash, SignHmac
    <2>2. /\ UNCHANGED <<log, ecdsa, sig, lock>> /\ pc[t] # "load"
          /\ \A u \in Threads : u # t => hash'[u] = hash[u]
      BY <1>4 DEF ReadLast, Hash, SignHmac, TypeOK
    <2>3. LoadingHeld'
      BY <2>1, <2>2, LoadingKept DEF TypeOK, ecdsa
    <2>4. SignInv' /\ BrokenInv' /\ UnsignedOnlyByFailure'
      BY <2>1, <2>2, SigKept
    <2> QED  BY <2>3, <2>4
  <1>5. ASSUME NEW t \in Threads, SignEcdsa(t) PROVE Goal
    <2>1. /\ pc[t] = "ecdsa" /\ UNCHANGED <<lock, log, parses, hash>>
          /\ Sign(t) \/ NoSigner(t)
      BY <1>5 DEF SignEcdsa
    <2>2. lock[ProcOf[t]] = t
      BY <2>1 DEF Held, Inside
    <2>3. signer[ProcOf[t]] # "loading"
      BY <2>1, <2>2 DEF LoadingHeld
    <2>4. /\ refused \subseteq refused'
          /\ \A u \in Threads : u # t => sig'[u] = sig[u]
      BY <2>1, SignExcuses DEF NoSigner, TypeOK
    <2>5. UnsignedOnlyByFailure'
      BY <2>1, <2>4 DEF UnsignedOnlyByFailure
    <2>6. ASSUME NEW u \in Threads, u # t, Ecdsa, parses, pc[u] = "insert" PROVE Excused(u)'
      <3>1. Excused(u)
        BY <2>6 DEF SignInv
      <3> QED  BY <2>1, <2>4, <2>6, <3>1 DEF Excused
    <2>7. CASE Ecdsa /\ signer[ProcOf[t]] = "new"
      <3>1. signer' = [signer EXCEPT ![ProcOf[t]] = "loading"] /\ pc' = [pc EXCEPT ![t] = "load"]
        BY <1>5, <2>7 DEF SignEcdsa, Goto
      <3>2. LoadingHeld'
        BY <2>1, <2>2, <3>1 DEF LoadingHeld, TypeOK
      <3>3. \A u \in Threads : pc'[u] = "insert" => u # t /\ pc[u] = "insert"
        BY <3>1 DEF TypeOK
      <3>4. SignInv'
        BY <2>1, <2>6, <3>3 DEF SignInv
      <3>5. BrokenInv'
        BY <2>1, <3>1 DEF BrokenInv, TypeOK
      <3> QED  BY <2>5, <3>2, <3>4, <3>5
    <2>8. CASE ~(Ecdsa /\ signer[ProcOf[t]] = "new")
      <3>1. signer' = signer /\ pc' = [pc EXCEPT ![t] = "insert"]
        BY <1>5, <2>8 DEF SignEcdsa, Goto
      <3>2. LoadingHeld'
        BY <2>1, <3>1 DEF LoadingHeld, TypeOK
      <3>3. ASSUME Ecdsa, parses PROVE Excused(t)'
        <4>1. signer[ProcOf[t]] = "ready"
          BY <2>3, <2>8, <3>3 DEF BrokenInv, TypeOK
        <4>2. Sign(t)
          BY <1>5, <3>3, <4>1 DEF SignEcdsa
        <4> QED  BY <2>1, <4>2, SignExcuses
      <3>4. \A u \in Threads : pc'[u] = "insert" => u = t \/ pc[u] = "insert"
        BY <3>1 DEF TypeOK
      <3>5. SignInv'
        BY <2>1, <2>6, <3>3, <3>4 DEF SignInv
      <3>6. BrokenInv'
        BY <2>1, <3>1 DEF BrokenInv
      <3> QED  BY <2>5, <3>2, <3>5, <3>6
    <2> QED  BY <2>7, <2>8
  <1>6. ASSUME NEW t \in Threads, LoadEcdsa(t) PROVE Goal
    <2>1. /\ pc[t] = "load" /\ UNCHANGED <<lock, log, parses, hash>>
          /\ signer' = [signer EXCEPT ![ProcOf[t]] = IF parses THEN "ready" ELSE "broken"]
          /\ IF parses THEN Sign(t) ELSE NoSigner(t)
          /\ pc' = [pc EXCEPT ![t] = "insert"]
      BY <1>6 DEF LoadEcdsa, Goto
    <2>2. lock[ProcOf[t]] = t
      BY <2>1 DEF Held, Inside
    <2>3. LoadingHeld'
      <3> SUFFICES ASSUME NEW p \in Procs, signer'[p] = "loading"
                   PROVE  lock'[p] \in Threads /\ ProcOf[lock'[p]] = p /\ pc'[lock'[p]] = "load"
        BY DEF LoadingHeld
      <3>1. p # ProcOf[t] /\ signer[p] = "loading"
        BY <2>1 DEF TypeOK
      <3>2. lock[p] \in Threads /\ ProcOf[lock[p]] = p /\ pc[lock[p]] = "load"
        BY <3>1 DEF LoadingHeld
      <3> QED  BY <2>1, <3>1, <3>2 DEF TypeOK
    <2>4. refused \subseteq refused'
      BY <2>1, SignExcuses DEF NoSigner, TypeOK
    <2>5. UnsignedOnlyByFailure'
      BY <2>1, <2>4 DEF UnsignedOnlyByFailure
    <2>6. BrokenInv'
      BY <2>1 DEF BrokenInv, TypeOK
    <2>7. SignInv'
      <3> SUFFICES ASSUME Ecdsa, parses, NEW u \in Threads, pc'[u] = "insert" PROVE Excused(u)'
        BY <2>1 DEF SignInv
      <3>1. /\ Excused(t)'
            /\ \A v \in Threads : v # t => sig'[v] = sig[v]
        BY <2>1, SignExcuses
      <3>2. CASE u = t
        BY <3>1, <3>2
      <3>3. CASE u # t
        <4>1. pc[u] = "insert"
          BY <2>1, <3>3 DEF TypeOK
        <4>2. Excused(u)
          BY <4>1 DEF SignInv
        <4> QED  BY <2>1, <2>4, <3>1, <3>3, <4>2 DEF Excused
      <3> QED  BY <3>2, <3>3
    <2> QED  BY <2>3, <2>5, <2>6, <2>7
  <1>7. ASSUME NEW t \in Threads, Insert(t) PROVE Goal
    <2> DEFINE row == [proc |-> ProcOf[t], prev |-> prev[t], hash |-> hash[t],
                       key |-> mac[t], sig |-> sig[t]]
    <2>1. /\ pc[t] = "insert" /\ UNCHANGED <<lock, parses, signer, refused, sig, hash>>
          /\ log' = Append(log, row)
          /\ pc' = [pc EXCEPT ![t] = "leave"]
      BY <1>7 DEF Insert, Goto, record, ecdsa
    <2>2. row.sig = sig[t] /\ row.hash = hash[t]
      OBVIOUS
    <2> HIDE DEF row
    <2>3. LoadingHeld'
      BY <2>1, LoadingKept DEF Goto
    <2>4. SignInv' /\ BrokenInv'
      BY <2>1 DEF SignInv, Excused, BrokenInv, TypeOK
    <2>5. UnsignedOnlyByFailure'
      <3> SUFFICES ASSUME Ecdsa, parses, NEW i \in 1 .. Len(log')
                   PROVE  log'[i].sig \/ log'[i].hash \in refused
        BY <2>1 DEF UnsignedOnlyByFailure
      <3>1. CASE i = Len(log) + 1
        <4>1. Excused(t)
          BY <2>1 DEF SignInv
        <4>2. log'[i] = row
          BY <2>1, <3>1 DEF TypeOK
        <4> QED  BY <2>2, <4>1, <4>2, Zenon DEF Excused
      <3>2. CASE i # Len(log) + 1
        <4>1. i \in 1 .. Len(log) /\ log'[i] = log[i]
          BY <2>1, <3>2 DEF TypeOK
        <4> QED  BY <4>1, Zenon DEF UnsignedOnlyByFailure
      <3> QED  BY <3>1, <3>2
    <2> QED  BY <2>3, <2>4, <2>5
  <1>8. ASSUME NEW t \in Threads, Leave(t) \/ Raise(t) \/ Scan(t) PROVE Goal
    <2>1. /\ UNCHANGED <<log, ecdsa>> /\ pc[t] # "load"
          /\ lock' = lock \/ (Release(t) /\ pc[t] \in Inside)
      <3>1. CASE Raise(t)
        BY <3>1 DEF Raise, Inside
      <3>2. CASE Leave(t) \/ Scan(t)
        BY <3>2 DEF Leave, Scan, Inside
      <3> QED  BY <1>8, <3>1, <3>2
    <2>2. PICK stage \in {"idle", "judge"} : Goto(t, stage)
      BY <1>8 DEF Leave, Raise, Scan
    <2>3. \A u \in Threads : u # t => (sig[u] => sig'[u]) /\ hash'[u] = hash[u]
      <3>1. CASE Scan(t)
        BY <3>1 DEF Scan, record
      <3>2. CASE Leave(t) \/ Raise(t)
        BY <3>2 DEF Leave, Raise, Forget
      <3> QED  BY <1>8, <3>1, <3>2
    <2>4. \/ lock' = lock
          \/ lock[ProcOf[t]] = t /\ lock' = [lock EXCEPT ![ProcOf[t]] = NoThread]
      BY <2>1 DEF Held, Release
    <2>5. LoadingHeld'
      BY <2>1, <2>2, <2>4, LoadingKept DEF TypeOK, ecdsa
    <2>6. SignInv' /\ BrokenInv' /\ UnsignedOnlyByFailure'
      BY <2>1, <2>2, <2>3, SigKept
    <2> QED  BY <2>5, <2>6
  <1>9. ASSUME NEW p \in Procs, Stop(p) PROVE Goal
    <2>1. /\ UNCHANGED <<log, parses, refused>>
          /\ lock' = [lock EXCEPT ![p] = NoThread]
          /\ signer' = [signer EXCEPT ![p] = "new"]
          /\ pc' = [t \in Threads |-> IF ProcOf[t] = p THEN "idle" ELSE pc[t]]
      BY <1>9 DEF Stop
    <2>2. \A t \in Threads : ProcOf[t] # p => sig'[t] = sig[t] /\ hash'[t] = hash[t]
      BY <1>9 DEF Stop, Forget, TypeOK
    <2>3. LoadingHeld'
      <3> SUFFICES ASSUME NEW q \in Procs, signer'[q] = "loading"
                   PROVE  lock'[q] \in Threads /\ ProcOf[lock'[q]] = q /\ pc'[lock'[q]] = "load"
        BY DEF LoadingHeld
      <3>1. /\ q # p /\ lock'[q] = lock[q] /\ lock[q] \in Threads
            /\ ProcOf[lock[q]] = q /\ pc[lock[q]] = "load"
        BY <2>1 DEF LoadingHeld, TypeOK
      <3> QED  BY <2>1, <3>1
    <2>4. SignInv'
      BY <2>1, <2>2 DEF SignInv, Excused
    <2>5. UnsignedOnlyByFailure' /\ BrokenInv'
      BY <2>1 DEF UnsignedOnlyByFailure, BrokenInv, TypeOK
    <2> QED  BY <2>3, <2>4, <2>5
  <1> QED
    BY <1>1, <1>2, <1>3, <1>4, <1>5, <1>6, <1>7, <1>8, <1>9 DEF Next, Step

\* With an ECDSA key configured no record goes unsigned for another reason than that
\* the key cannot be read or that signing this very record failed: not by the race
\* for the first use of the signer, whatever the number of threads and restarts.
THEOREM NoneUnsignedByTheRace == Spec => []UnsignedOnlyByFailure
  <1> DEFINE IInv == /\ TypeOK /\ Hashed /\ Held
                     /\ LoadingHeld /\ SignInv /\ BrokenInv /\ UnsignedOnlyByFailure
  <1>1. Init => IInv
    BY DEF Init, TypeOK, Hashed, Held, Inside, LoadingHeld, SignInv, BrokenInv,
           UnsignedOnlyByFailure, Genesis, NoKey
  <1>2. IInv /\ [Next]_vars => IInv'
    BY TypeInductive, HeldInductive, SignInductive
  <1> QED  BY <1>1, <1>2, PTL DEF Spec

-----------------------------------------------------------------------------
(* verify_chain's alarms.  NoFalseAlarm is not inductive: that an alarm stays  *)
(* explained needs that a process that raised one keeps its key, and that all  *)
(* its records bear that key unless a worker was stopped.                      *)

Keyed(p) == EnvKey \/ key[p] # NoKey
Signed == {"ecdsa", "load", "insert"}
Verifying == {"verify", "scan", "judge"}

\* One key per process and start, also in what its threads are about to insert.
KeyInv ==
    /\ EnvKey => \A p \in Procs : key[p] = NoKey
    /\ \A t \in Threads : pc[t] \in Signed =>
          mac[t] = key[ProcOf[t]] /\ Keyed(ProcOf[t])
    /\ \A i \in 1 .. Len(log) :
          /\ EnvKey => log[i].key = NoKey
          /\ stops = 0 => log[i].key = key[log[i].proc] /\ Keyed(log[i].proc)

\* A process that raised an alarm has its key; no call is judging again.
AlarmInv ==
    /\ \A t \in Threads : pc[t] \in Verifying => answer[t] = "none"
    /\ \A t \in Threads : answer[t] = "tampered" => Keyed(ProcOf[t])
    /\ NoFalseAlarm

\* A key that was drawn stays: what GetKey does to any process.
KeysStay ==
    /\ \A p \in Procs : Keyed(p) => key'[p] = key[p]
    /\ EnvKey => key' = key

LEMMA GetKeyDraws ==
    ASSUME TypeOK, NEW p \in Procs, GetKey(p)
    PROVE  KeysStay /\ (EnvKey \/ key'[p] # NoKey)
  <1>1. CASE EnvKey \/ key[p] # NoKey
    BY <1>1 DEF GetKey, KeysStay
  <1>2. CASE ~(EnvKey \/ key[p] # NoKey)
    <2>1. /\ key' = [key EXCEPT ![p] = fresh + 1] /\ fresh \in Nat
          /\ key \in [Procs -> 0 .. MaxFresh]
      BY <1>2 DEF GetKey, TypeOK
    <2> QED  BY <1>2, <2>1 DEF KeysStay, Keyed, NoKey
  <1> QED  BY <1>1, <1>2

\* A step that appends nothing, and after which a thread that is about to insert
\* was so before or has just asked for the key.
LEMMA KeyKept ==
    ASSUME TypeOK, KeyInv, KeysStay, UNCHANGED <<log, stops>>,
           \A t \in Threads : pc'[t] \in Signed =>
              \/ pc[t] \in Signed /\ mac'[t] = mac[t]
              \/ mac'[t] = key'[ProcOf[t]] /\ (EnvKey \/ key'[ProcOf[t]] # NoKey)
    PROVE  KeyInv'
  <1>1. \A p \in Procs : Keyed(p) => key'[p] = key[p] /\ Keyed(p)'
    BY DEF KeysStay, Keyed
  <1>2. EnvKey => \A p \in Procs : key'[p] = NoKey
    BY DEF KeysStay, KeyInv
  <1>3. \A t \in Threads : pc'[t] \in Signed => mac'[t] = key'[ProcOf[t]] /\ Keyed(ProcOf[t])'
    BY <1>1 DEF KeyInv, Keyed
  <1>4. \A i \in 1 .. Len(log) : log[i].proc \in Procs
    <2>1. \A i \in 1 .. Len(log) : log[i] \in Row
      BY DEF TypeOK
    <2> QED  BY <2>1 DEF Row
  <1>5. \A i \in 1 .. Len(log) :
           /\ EnvKey => log[i].key = NoKey
           /\ stops = 0 => log[i].key = key'[log[i].proc] /\ Keyed(log[i].proc)'
    BY <1>1, <1>4 DEF KeyInv
  <1> QED  BY <1>2, <1>3, <1>5 DEF KeyInv

\* A step that raises no alarm and leaves the records that explain one in place.
LEMMA AlarmKept ==
    ASSUME TypeOK, AlarmInv, KeysStay, stops' = stops,
           Len(log) <= Len(log'), \A i \in 1 .. Len(log) : log'[i] = log[i],
           \A t \in Threads : answer'[t] = "tampered" =>
              answer[t] = "tampered" /\ scanned'[t] = scanned[t],
           \A t \in Threads : pc'[t] \in Verifying => answer'[t] = "none"
    PROVE  AlarmInv'
  <1>1. \A p \in Procs : Keyed(p) => key'[p] = key[p] /\ Keyed(p)'
    BY DEF KeysStay, Keyed
  <1>2. \A t \in Threads : answer'[t] = "tampered" => Keyed(ProcOf[t])'
    BY <1>1 DEF AlarmInv
  <1>3. NoFalseAlarm'
    <2> SUFFICES ASSUME NEW t \in Threads, answer'[t] = "tampered"
                 PROVE  \E i \in 1 .. scanned'[t] :
                           /\ ~EnvKey
                           /\ log'[i].key # key'[ProcOf[t]]
                           /\ log'[i].proc # ProcOf[t] \/ stops' > 0
      BY DEF NoFalseAlarm
    <2>1. /\ answer[t] = "tampered" /\ scanned'[t] = scanned[t]
          /\ scanned[t] \in 0 .. Len(log) /\ Len(log) \in Nat
          /\ key'[ProcOf[t]] = key[ProcOf[t]]
      BY <1>1 DEF TypeOK, AlarmInv
    <2>2. PICK i \in 1 .. scanned[t] : /\ ~EnvKey
                                       /\ log[i].key # key[ProcOf[t]]
                                       /\ log[i].proc # ProcOf[t] \/ stops > 0
      BY <2>1 DEF AlarmInv, NoFalseAlarm
    <2>3. log'[i] = log[i]
      BY <2>1, <2>2
    <2> QED  BY <2>1, <2>2, <2>3
  <1> QED  BY <1>2, <1>3 DEF AlarmInv

LEMMA AlarmStays ==
    ASSUME TypeOK, AlarmInv, KeysStay, UNCHANGED <<log, stops>>,
           \A t \in Threads : answer'[t] = "tampered" =>
              answer[t] = "tampered" /\ scanned'[t] = scanned[t],
           \A t \in Threads : pc'[t] \in Verifying => answer'[t] = "none"
    PROVE  AlarmInv'
  <1>1. Len(log) \in Nat
    BY DEF TypeOK
  <1>2. Len(log) <= Len(log') /\ \A i \in 1 .. Len(log) : log'[i] = log[i]
    BY <1>1
  <1> QED  BY <1>2, AlarmKept

\* An alarm is about a record that bears another key than the one that judges.
LEMMA JudgeIsRight ==
    ASSUME TypeOK, TypeOK', KeyInv, KeyInv', AlarmInv, NEW t \in Threads, Judge(t)
    PROVE  AlarmInv'
  <1> DEFINE k == key'[ProcOf[t]]
  <1>1. /\ pc[t] = "judge" /\ pc' = [pc EXCEPT ![t] = "idle"]
        /\ UNCHANGED <<log, scanned, stops>> /\ GetKey(ProcOf[t])
        /\ answer' = [answer EXCEPT ![t] = IF \A i \in 1 .. scanned[t] : log[i].key = k
                                           THEN "valid" ELSE "tampered"]
    BY DEF Judge, Goto
  <1>2. KeysStay /\ Keyed(ProcOf[t])'
    BY <1>1, GetKeyDraws DEF Keyed
  <1>3. \A p \in Procs : Keyed(p) => key'[p] = key[p] /\ Keyed(p)'
    BY <1>2 DEF KeysStay, Keyed
  <1>4. \A u \in Threads : u # t => answer'[u] = answer[u] /\ pc'[u] = pc[u]
    BY <1>1 DEF TypeOK
  <1>5. answer'[t] = "tampered" => \E i \in 1 .. scanned[t] : log[i].key # k
    BY <1>1 DEF TypeOK
  <1>6. \A u \in Threads : pc'[u] \in Verifying => answer'[u] = "none"
    BY <1>1, <1>4 DEF AlarmInv, Verifying, TypeOK
  <1>7. \A u \in Threads : answer'[u] = "tampered" => Keyed(ProcOf[u])'
    BY <1>2, <1>3, <1>4 DEF AlarmInv
  <1>8. ASSUME NEW u \in Threads, answer'[u] = "tampered"
        PROVE  \E i \in 1 .. scanned[u] :
                  /\ ~EnvKey
                  /\ log[i].key # key'[ProcOf[u]]
                  /\ log[i].proc # ProcOf[u] \/ stops > 0
    <2>1. CASE u # t
      <3>1. answer[u] = "tampered" /\ key'[ProcOf[u]] = key[ProcOf[u]]
        BY <1>3, <1>4, <1>8, <2>1 DEF AlarmInv
      <3> QED  BY <3>1 DEF AlarmInv, NoFalseAlarm
    <2>2. CASE u = t
      <3>1. PICK i \in 1 .. scanned[t] : log[i].key # k
        BY <1>5, <1>8, <2>2
      <3>2. i \in 1 .. Len(log) /\ stops \in Nat
        <4>1. scanned[t] \in 0 .. Len(log) /\ Len(log) \in Nat /\ stops \in Nat
          BY DEF TypeOK
        <4> QED  BY <4>1
      <3>3. ~EnvKey
        BY <1>1, <3>1, <3>2 DEF KeyInv
      <3>4. stops = 0 => log[i].key = key'[log[i].proc]
        BY <1>1, <3>2 DEF KeyInv
      <3> QED  BY <2>2, <3>1, <3>2, <3>3, <3>4
    <2> QED  BY <2>1, <2>2
  <1> QED  BY <1>1, <1>6, <1>7, <1>8 DEF AlarmInv, NoFalseAlarm

LEMMA AlarmInductive ==
    ASSUME TypeOK, TypeOK', KeyInv, AlarmInv, [Next]_vars
    PROVE  KeyInv' /\ AlarmInv'
  <1> DEFINE Goal == KeyInv' /\ AlarmInv'
  <1> USE DEF Signed, Verifying
  <1>1. CASE UNCHANGED vars
    <2>1. KeysStay
      BY <1>1 DEF vars, KeysStay
    <2>2. KeyInv'
      BY <1>1, <2>1, KeyKept DEF vars, record, ecdsa
    <2>3. \A u \in Threads : pc'[u] \in Verifying => answer'[u] = "none"
      BY <1>1 DEF vars, verdict, ecdsa, AlarmInv
    <2>4. AlarmInv'
      BY <1>1, <2>1, <2>3, AlarmStays DEF vars, verdict, ecdsa
    <2> QED  BY <2>2, <2>4
  <1>2. ASSUME NEW t \in Threads,
               \/ CallAdd(t) \/ CallVerify(t) \/ Acquire(t) \/ ReadLast(t) \/ Hash(t)
               \/ SignEcdsa(t) \/ LoadEcdsa(t)
        PROVE  Goal
    <2>1. /\ UNCHANGED <<log, key, mac, answer, scanned, stops>> /\ KeysStay
      BY <1>2 DEF CallAdd, CallVerify, Acquire, ReadLast, Hash, SignEcdsa, LoadEcdsa,
                  record, verdict, ecdsa, KeysStay
    <2>2. PICK stage : /\ Goto(t, stage)
                       /\ stage \in Signed => pc[t] \in Signed
                       /\ stage \in Verifying => pc[t] \in Verifying \/ answer[t] = "none"
      BY <1>2 DEF CallAdd, CallVerify, Acquire, ReadLast, Hash, SignEcdsa, LoadEcdsa
    <2>3. KeyInv'
      BY <2>1, <2>2, KeyKept DEF Goto, TypeOK
    <2>4. \A u \in Threads : pc'[u] \in Verifying => answer'[u] = "none"
      BY <2>1, <2>2 DEF Goto, TypeOK, AlarmInv
    <2>5. AlarmInv'
      BY <2>1, <2>4, AlarmStays
    <2> QED  BY <2>3, <2>5
  <1>3. ASSUME NEW t \in Threads, SignHmac(t) PROVE Goal
    <2>1. /\ UNCHANGED <<log, answer, scanned, stops>> /\ GetKey(ProcOf[t])
          /\ mac' = [mac EXCEPT ![t] = key'[ProcOf[t]]] /\ pc' = [pc EXCEPT ![t] = "ecdsa"]
      BY <1>3 DEF SignHmac, Goto, verdict, ecdsa
    <2>2. KeysStay /\ (EnvKey \/ key'[ProcOf[t]] # NoKey)
      BY <2>1, GetKeyDraws
    <2>3. KeyInv'
      BY <2>1, <2>2, KeyKept DEF TypeOK
    <2>4. \A u \in Threads : pc'[u] \in Verifying => answer'[u] = "none"
      BY <2>1 DEF TypeOK, AlarmInv
    <2>5. AlarmInv'
      BY <2>1, <2>2, <2>4, AlarmStays
    <2> QED  BY <2>3, <2>5
  <1>4. ASSUME NEW t \in Threads, Insert(t) PROVE Goal
    <2> DEFINE row == [proc |-> ProcOf[t], prev |-> prev[t], hash |-> hash[t],
                       key |-> mac[t], sig |-> sig[t]]
    <2>1. /\ UNCHANGED <<key, mac, answer, scanned, stops>> /\ log' = Append(log, row)
          /\ pc[t] = "insert" /\ pc' = [pc EXCEPT ![t] = "leave"]
      BY <1>4 DEF Insert, Goto, record, verdict, ecdsa
    <2>2. row.proc = ProcOf[t] /\ row.key = mac[t]
      OBVIOUS
    <2> HIDE DEF row
    <2>3. /\ Len(log') = Len(log) + 1 /\ Len(log) \in Nat /\ log'[Len(log) + 1] = row
          /\ \A i \in 1 .. Len(log) : log'[i] = log[i]
      BY <2>1 DEF TypeOK
    <2>4. mac[t] = key[ProcOf[t]] /\ Keyed(ProcOf[t])
      BY <2>1 DEF KeyInv
    <2>5. KeyInv'
      <3>1. \A i \in 1 .. Len(log') :
               /\ EnvKey => log'[i].key = NoKey
               /\ stops = 0 => log'[i].key = key[log'[i].proc] /\ Keyed(log'[i].proc)
        <4> TAKE i \in 1 .. Len(log')
        <4>1. CASE i = Len(log) + 1
          BY <2>2, <2>3, <2>4, <4>1 DEF KeyInv
        <4>2. CASE i # Len(log) + 1
          BY <2>3, <4>2 DEF KeyInv
        <4> QED  BY <4>1, <4>2
      <3>2. \A u \in Threads : pc'[u] \in Signed =>
               mac[u] = key[ProcOf[u]] /\ Keyed(ProcOf[u])
        BY <2>1 DEF KeyInv, TypeOK
      <3> QED  BY <2>1, <3>1, <3>2 DEF KeyInv, Keyed
    <2>6. KeysStay
      BY <2>1 DEF KeysStay
    <2>7. \A u \in Threads : pc'[u] \in Verifying => answer'[u] = "none"
      BY <2>1 DEF TypeOK, AlarmInv
    <2>8. AlarmInv'
      BY <2>1, <2>3, <2>6, <2>7, AlarmKept
    <2> QED  BY <2>5, <2>8
  <1>5. ASSUME NEW t \in Threads, Leave(t) \/ Raise(t) PROVE Goal
    <2>1. /\ UNCHANGED <<log, key, answer, scanned, stops>> /\ KeysStay /\ Forget({t})
          /\ pc' = [pc EXCEPT ![t] = "idle"]
      BY <1>5 DEF Leave, Raise, Goto, verdict, ecdsa, KeysStay
    <2>2. \A u \in Threads : u # t => mac'[u] = mac[u]
      BY <2>1 DEF Forget
    <2>3. KeyInv'
      BY <2>1, <2>2, KeyKept DEF TypeOK
    <2>4. \A u \in Threads : pc'[u] \in Verifying => answer'[u] = "none"
      BY <2>1 DEF TypeOK, AlarmInv
    <2>5. AlarmInv'
      BY <2>1, <2>4, AlarmStays
    <2> QED  BY <2>3, <2>5
  <1>6. ASSUME NEW t \in Threads, Scan(t) PROVE Goal
    <2>1. /\ UNCHANGED <<log, key, mac, stops>> /\ KeysStay /\ pc[t] = "scan"
          /\ scanned' = [scanned EXCEPT ![t] = Len(log)]
      BY <1>6 DEF Scan, record, ecdsa, KeysStay
    <2>2. \/ Goto(t, "idle") /\ answer' = [answer EXCEPT ![t] = "valid"]
          \/ Goto(t, "judge") /\ answer' = answer
      BY <1>6 DEF Scan
    <2>3. answer[t] = "none"
      BY <2>1 DEF AlarmInv
    <2>4. KeyInv'
      BY <2>1, <2>2, KeyKept DEF TypeOK, Goto
    <2>5. \A u \in Threads : answer'[u] = "tampered" =>
             answer[u] = "tampered" /\ scanned'[u] = scanned[u]
      BY <2>1, <2>2, <2>3 DEF TypeOK
    <2>6. \A u \in Threads : pc'[u] \in Verifying => answer'[u] = "none"
      BY <2>1, <2>2 DEF TypeOK, AlarmInv, Goto
    <2>7. AlarmInv'
      BY <2>1, <2>5, <2>6, AlarmStays
    <2> QED  BY <2>4, <2>7
  <1>7. ASSUME NEW t \in Threads, Judge(t) PROVE Goal
    <2>1. /\ UNCHANGED <<log, mac, stops>> /\ GetKey(ProcOf[t])
          /\ pc' = [pc EXCEPT ![t] = "idle"]
      BY <1>7 DEF Judge, Goto, record, ecdsa
    <2>2. KeysStay
      BY <2>1, GetKeyDraws
    <2>3. KeyInv'
      BY <2>1, <2>2, KeyKept DEF TypeOK
    <2> QED  BY <1>7, <2>3, JudgeIsRight
  <1>8. ASSUME NEW p \in Procs, Stop(p) PROVE Goal
    <2>1. /\ log' = log /\ stops' = stops + 1 /\ stops \in Nat
          /\ key' = [key EXCEPT ![p] = NoKey]
          /\ pc' = [t \in Threads |-> IF ProcOf[t] = p THEN "idle" ELSE pc[t]]
          /\ answer' = [t \in Threads |-> IF ProcOf[t] = p THEN "none" ELSE answer[t]]
          /\ scanned' = [t \in Threads |-> IF ProcOf[t] = p THEN 0 ELSE scanned[t]]
      BY <1>8 DEF Stop, TypeOK
    <2>2. \A t \in Threads : ProcOf[t] # p => mac'[t] = mac[t]
      BY <1>8 DEF Stop, Forget
    <2>3. \A q \in Procs : q # p => key'[q] = key[q]
      BY <2>1 DEF TypeOK
    <2>4. stops' > 0 /\ stops' # 0
      BY <2>1
    <2>5. KeyInv'
      <3>1. EnvKey => \A q \in Procs : key'[q] = NoKey
        BY <2>1 DEF KeyInv, TypeOK
      <3>2. \A t \in Threads : pc'[t] \in Signed =>
               mac'[t] = key'[ProcOf[t]] /\ Keyed(ProcOf[t])'
        BY <2>1, <2>2, <2>3 DEF KeyInv, Keyed
      <3>3. \A i \in 1 .. Len(log) : EnvKey => log[i].key = NoKey
        BY DEF KeyInv
      <3> QED  BY <2>1, <2>4, <3>1, <3>2, <3>3 DEF KeyInv
    <2>6. AlarmInv'
      <3>1. \A t \in Threads : pc'[t] \in Verifying => answer'[t] = "none"
        BY <2>1 DEF AlarmInv
      <3>2. \A t \in Threads : answer'[t] = "tampered" =>
               /\ ProcOf[t] # p /\ answer[t] = "tampered" /\ scanned'[t] = scanned[t]
               /\ key'[ProcOf[t]] = key[ProcOf[t]] /\ Keyed(ProcOf[t])'
        BY <2>1, <2>3 DEF AlarmInv, Keyed
      <3>3. NoFalseAlarm'
        BY <2>1, <2>4, <3>2 DEF AlarmInv, NoFalseAlarm
      <3> QED  BY <3>1, <3>2, <3>3 DEF AlarmInv
    <2> QED  BY <2>5, <2>6
  <1> QED
    BY <1>1, <1>2, <1>3, <1>4, <1>5, <1>6, <1>7, <1>8 DEF Next, Step

\* verify_chain calls records tampered only when one of them bears a development
\* key that another process drew, or this one before it was restarted: with the key
\* in the environment, or one process that never restarts, it raises no alarm.
THEOREM AlarmsAreExplained == Spec => []NoFalseAlarm
  <1> DEFINE IInv == TypeOK /\ Hashed /\ KeyInv /\ AlarmInv
  <1>1. Init => IInv
    BY DEF Init, TypeOK, Hashed, KeyInv, AlarmInv, NoFalseAlarm, Signed, Verifying,
           Genesis, NoKey
  <1>2. IInv /\ [Next]_vars => IInv'
    BY TypeInductive, AlarmInductive
  <1>3. IInv => NoFalseAlarm
    BY DEF AlarmInv
  <1> QED  BY <1>1, <1>2, <1>3, PTL DEF Spec
=============================================================================

------------------------ MODULE WebhookDeliveryProofs ------------------------
(***************************************************************************)
(* Theorems about WebhookDelivery for all subscriptions, publishers and    *)
(* replayers, every size of the pool and of the dead-letter queue, and any *)
(* number of attempts, events and failures.                                *)
(***************************************************************************)
EXTENDS WebhookDelivery, FiniteSetTheorems, SequenceTheorems, TLAPS

-----------------------------------------------------------------------------
(* Sequences without repetition, and what the queue's operations make of   *)
(* them.                                                                   *)

Inj(q) == \A i, j \in 1 .. Len(q) : q[i] = q[j] => i = j
Has(q, x) == \E i \in 1 .. Len(q) : q[i] = x

\* The part of a sequence from a position on, which may be just behind its end.
LEMMA FromProperties ==
    ASSUME NEW S, NEW q \in Seq(S), NEW i \in 1 .. Len(q) + 1
    PROVE  /\ From(q, i) \in Seq(S) /\ Len(From(q, i)) = Len(q) - i + 1
           /\ \A j \in 1 .. Len(q) - i + 1 : From(q, i)[j] = q[i + j - 1]
  <1>1. Len(q) \in Nat /\ i \in Int
    BY LenProperties
  <1>2. \A j \in i .. Len(q) : q[j] \in S
    BY <1>1, ElementOfSeq
  <1>3. /\ SubSeq(q, i, Len(q)) \in Seq(S)
        /\ Len(SubSeq(q, i, Len(q))) = IF i <= Len(q) THEN Len(q) - i + 1 ELSE 0
        /\ \A j \in 1 .. Len(q) - i + 1 : SubSeq(q, i, Len(q))[j] = q[i + j - 1]
    BY <1>1, <1>2, SubSeqProperties
  <1> QED  BY <1>1, <1>3 DEF From

\* The part of a sequence before a position.
LEMMA UpToProperties ==
    ASSUME NEW S, NEW q \in Seq(S), NEW i \in 1 .. Len(q) + 1
    PROVE  /\ SubSeq(q, 1, i - 1) \in Seq(S) /\ Len(SubSeq(q, 1, i - 1)) = i - 1
           /\ \A j \in 1 .. i - 1 : SubSeq(q, 1, i - 1)[j] = q[j]
  <1>1. Len(q) \in Nat /\ i - 1 \in Int
    BY LenProperties
  <1>2. \A j \in 1 .. i - 1 : q[j] \in S
    BY <1>1, ElementOfSeq
  <1>3. /\ SubSeq(q, 1, i - 1) \in Seq(S)
        /\ Len(SubSeq(q, 1, i - 1)) = IF 1 <= i - 1 THEN i - 1 - 1 + 1 ELSE 0
        /\ \A j \in 1 .. i - 1 - 1 + 1 : SubSeq(q, 1, i - 1)[j] = q[1 + j - 1]
    BY <1>1, <1>2, SubSeqProperties
  <1> QED  BY <1>1, <1>3

\* The rest of a sequence without repetition, when its first entries are cut off.
LEMMA CutOff ==
    ASSUME NEW a, NEW s, NEW k \in Nat, Len(s) \in Nat, Len(a) = k + Len(s), Inj(a),
           \A j \in 1 .. Len(s) : s[j] = a[j + k]
    PROVE  /\ Inj(s)
           /\ \A y : Has(s, y) => Has(a, y)
           /\ \A i \in 1 .. k : ~Has(s, a[i])
           /\ \A y : Has(a, y) => Has(s, y) \/ \E i \in 1 .. k : a[i] = y
  <1>1. \A j \in 1 .. Len(s) : j + k \in 1 .. Len(a) /\ \A i \in 1 .. k : i # j + k
    OBVIOUS
  <1>2. ASSUME NEW i \in 1 .. Len(s), NEW j \in 1 .. Len(s), s[i] = s[j] PROVE i = j
    <2>1. i + k = j + k
      BY <1>1, <1>2 DEF Inj
    <2> QED  BY <2>1
  <1>3. \A y : Has(s, y) => Has(a, y)
    BY <1>1 DEF Has
  <1>4. ASSUME NEW i \in 1 .. k, NEW j \in 1 .. Len(s), s[j] = a[i] PROVE FALSE
    <2>1. i \in 1 .. Len(a) /\ a[j + k] = a[i]
      BY <1>4
    <2> QED  BY <1>1, <2>1 DEF Inj
  <1>5. ASSUME NEW i \in 1 .. Len(a)
        PROVE  Has(s, a[i]) \/ i \in 1 .. k
    <2>1. CASE i > k
      <3>1. i - k \in 1 .. Len(s) /\ (i - k) + k = i
        BY <2>1
      <3>2. s[i - k] = a[i]
        BY <3>1
      <3> QED  BY <3>1, <3>2 DEF Has
    <2> QED  BY <2>1
  <1> QED  BY <1>2, <1>3, <1>4, <1>5 DEF Inj, Has

\* r is q with the entry at i left out; with x put in at i.
LeavesOut(q, i, r) == /\ Len(r) = Len(q) - 1
                      /\ \A j \in 1 .. Len(r) : j < i => r[j] = q[j]
                      /\ \A j \in 1 .. Len(r) : j >= i => r[j] = q[j + 1]
PutsIn(q, i, x, r) == /\ Len(r) = Len(q) + 1 /\ r[i] = x
                      /\ \A j \in 1 .. Len(r) : j < i => r[j] = q[j]
                      /\ \A j \in 1 .. Len(r) : j > i => r[j] = q[j - 1]

\* Leaving one entry out of a sequence without repetition
LEMMA LeftOut ==
    ASSUME NEW q, NEW r, Len(q) \in Nat, NEW i \in 1 .. Len(q), LeavesOut(q, i, r), Inj(q)
    PROVE  Inj(r) /\ \A y : Has(r, y) <=> Has(q, y) /\ y # q[i]
  <1>0. /\ Len(r) = Len(q) - 1
        /\ \A j \in 1 .. Len(r) : j < i => r[j] = q[j]
        /\ \A j \in 1 .. Len(r) : j >= i => r[j] = q[j + 1]
    BY DEF LeavesOut
  <1>1. ASSUME NEW j \in 1 .. Len(r)
        PROVE  /\ j < i => r[j] = q[j] /\ j \in 1 .. Len(q) /\ j # i
               /\ j >= i => r[j] = q[j + 1] /\ j + 1 \in 1 .. Len(q) /\ j + 1 # i
    <2>1. /\ j < i => j \in 1 .. Len(q) /\ j # i
          /\ j >= i => j + 1 \in 1 .. Len(q) /\ j + 1 # i
      <3>1. Len(r) = Len(q) - 1
        BY <1>0
      <3> QED  BY <3>1
    <2> QED  BY <1>0, <2>1
  <1>2. ASSUME NEW j \in 1 .. Len(r), NEW k \in 1 .. Len(r), r[j] = r[k] PROVE j = k
    <2>1. CASE j < i /\ k < i
      BY <1>1, <1>2, <2>1 DEF Inj
    <2>2. CASE j >= i /\ k >= i
      <3>1. j + 1 = k + 1
        BY <1>1, <1>2, <2>2 DEF Inj
      <3> QED  BY <3>1
    <2>3. CASE j < i /\ k >= i
      <3>1. j = k + 1
        BY <1>1, <1>2, <2>3 DEF Inj
      <3> QED  BY <2>3, <3>1
    <2>4. CASE j >= i /\ k < i
      <3>1. j + 1 = k
        BY <1>1, <1>2, <2>4 DEF Inj
      <3> QED  BY <2>4, <3>1
    <2> QED  BY <2>1, <2>2, <2>3, <2>4
  <1>3. ASSUME NEW j \in 1 .. Len(r) PROVE Has(q, r[j]) /\ r[j] # q[i]
    <2>1. CASE j < i
      BY <1>1, <2>1 DEF Inj, Has
    <2>2. CASE j >= i
      BY <1>1, <2>2 DEF Inj, Has
    <2> QED  BY <2>1, <2>2
  <1>4. ASSUME NEW k \in 1 .. Len(q), q[k] # q[i] PROVE Has(r, q[k])
    <2>1. CASE k < i
      <3>1. k \in 1 .. Len(r)
        BY <1>0, <2>1
      <3>2. r[k] = q[k]
        BY <1>0, <2>1, <3>1
      <3> QED  BY <3>1, <3>2 DEF Has
    <2>2. CASE k > i
      <3>1. k - 1 \in 1 .. Len(r) /\ k - 1 >= i /\ (k - 1) + 1 = k
        BY <1>0, <2>2
      <3>2. r[k - 1] = q[k]
        BY <1>0, <3>1
      <3> QED  BY <3>1, <3>2 DEF Has
    <2> QED  BY <1>4, <2>1, <2>2
  <1> QED  BY <1>2, <1>3, <1>4 DEF Inj, Has

\* Putting an entry into a sequence that does not hold it
LEMMA PutBetween ==
    ASSUME NEW q, NEW r, NEW x, Len(q) \in Nat, NEW i \in 1 .. Len(q) + 1,
           PutsIn(q, i, x, r), Inj(q), ~Has(q, x)
    PROVE  Inj(r) /\ \A y : Has(r, y) <=> Has(q, y) \/ y = x
  <1>0. /\ Len(r) = Len(q) + 1 /\ r[i] = x
        /\ \A j \in 1 .. Len(r) : j < i => r[j] = q[j]
        /\ \A j \in 1 .. Len(r) : j > i => r[j] = q[j - 1]
    BY DEF PutsIn
  <1>1. ASSUME NEW j \in 1 .. Len(r)
        PROVE  /\ j < i => r[j] = q[j] /\ j \in 1 .. Len(q)
               /\ j > i => r[j] = q[j - 1] /\ j - 1 \in 1 .. Len(q)
    <2>1. /\ j < i => j \in 1 .. Len(q)
          /\ j > i => j - 1 \in 1 .. Len(q)
      <3>1. Len(r) = Len(q) + 1
        BY <1>0
      <3> QED  BY <3>1
    <2> QED  BY <1>0, <2>1
  <1>2. ASSUME NEW j \in 1 .. Len(r), j # i PROVE Has(q, r[j]) /\ r[j] # x
    <2>1. CASE j < i
      BY <1>1, <2>1 DEF Has
    <2>2. CASE j > i
      BY <1>1, <2>2 DEF Has
    <2> QED  BY <1>2, <2>1, <2>2
  <1>3. ASSUME NEW j \in 1 .. Len(r), NEW k \in 1 .. Len(r), r[j] = r[k] PROVE j = k
    <2>1. CASE j = i \/ k = i
      BY <1>0, <1>2, <1>3, <2>1
    <2>2. CASE j < i /\ k < i
      BY <1>1, <1>3, <2>2 DEF Inj
    <2>3. CASE j > i /\ k > i
      <3>1. j - 1 = k - 1
        BY <1>1, <1>3, <2>3 DEF Inj
      <3> QED  BY <3>1
    <2>4. CASE j < i /\ k > i
      <3>1. j = k - 1
        BY <1>1, <1>3, <2>4 DEF Inj
      <3> QED  BY <2>4, <3>1
    <2>5. CASE j > i /\ k < i
      <3>1. j - 1 = k
        BY <1>1, <1>3, <2>5 DEF Inj
      <3> QED  BY <2>5, <3>1
    <2> QED  BY <2>1, <2>2, <2>3, <2>4, <2>5
  <1>4. i \in 1 .. Len(r)
    BY <1>0
  <1>5. ASSUME NEW k \in 1 .. Len(q) PROVE Has(r, q[k])
    <2>1. CASE k < i
      <3>1. k \in 1 .. Len(r)
        BY <1>0, <2>1
      <3>2. r[k] = q[k]
        BY <1>0, <2>1, <3>1
      <3> QED  BY <3>1, <3>2 DEF Has
    <2>2. CASE k >= i
      <3>1. k + 1 \in 1 .. Len(r) /\ k + 1 > i /\ (k + 1) - 1 = k
        BY <1>0, <2>2
      <3>2. r[k + 1] = q[k]
        BY <1>0, <3>1
      <3> QED  BY <3>1, <3>2 DEF Has
    <2> QED  BY <2>1, <2>2
  <1>6. ASSUME NEW y, Has(r, y) PROVE Has(q, y) \/ y = x
    <2>1. PICK j \in 1 .. Len(r) : r[j] = y
      BY <1>6 DEF Has
    <2> QED  BY <2>1, <1>0, <1>2
  <1>7. ASSUME NEW y, Has(q, y) \/ y = x PROVE Has(r, y)
    <2>1. CASE Has(q, y)
      BY <2>1, <1>5 DEF Has
    <2>2. CASE y = x
      BY <2>2, <1>0, <1>4 DEF Has
    <2> QED  BY <1>7, <2>1, <2>2
  <1> QED  BY <1>3, <1>6, <1>7 DEF Inj

\* What _add_to_dlq makes of the queue: appended to, and cut to its size.
LEMMA CutProperties ==
    ASSUME NEW S, NEW q \in Seq(S), NEW x \in S, NEW n \in Nat, Inj(q), ~Has(q, x)
    PROVE  LET all == Append(q, x)
               kept == Newest(all, n)
               out == 1 .. Len(all) - Len(kept)
           IN  /\ kept \in Seq(S) /\ Len(kept) \in 0 .. Len(q) + 1 /\ Len(all) = Len(q) + 1
               /\ n > 0 => Len(kept) <= n
               /\ Inj(kept)
               /\ \A y : Has(kept, y) => Has(q, y) \/ y = x
               /\ \A i \in out : ~Has(kept, all[i]) /\ (Has(q, all[i]) \/ all[i] = x)
               /\ \A y : Has(q, y) \/ y = x => Has(kept, y) \/ \E i \in out : all[i] = y
  <1> DEFINE all == Append(q, x)
             kept == Newest(all, n)
             k == Len(all) - Len(kept)
  <1>1. /\ Len(q) \in Nat /\ all \in Seq(S) /\ Len(all) = Len(q) + 1
        /\ \A i \in 1 .. Len(q) : all[i] = q[i]
        /\ all[Len(q) + 1] = x
    BY LenProperties, AppendProperties
  <1> HIDE DEF all
  <1>2. Inj(all) /\ \A y : Has(all, y) <=> Has(q, y) \/ y = x
    <2>1. ASSUME NEW j \in 1 .. Len(all)
          PROVE  \/ j \in 1 .. Len(q) /\ all[j] = q[j]
                 \/ j = Len(q) + 1 /\ all[j] = x
      BY <1>1
    <2>2. \A j \in 1 .. Len(q) : q[j] # x
      BY DEF Has
    <2>3. Inj(all)
      BY <1>1, <2>1, <2>2 DEF Inj
    <2>4. ASSUME NEW y PROVE Has(all, y) => Has(q, y) \/ y = x
      <3> SUFFICES ASSUME Has(all, y) PROVE Has(q, y) \/ y = x
        OBVIOUS
      <3>1. PICK j \in 1 .. Len(all) : all[j] = y
        BY DEF Has
      <3> QED  BY <2>1, <3>1 DEF Has
    <2>5. ASSUME NEW y PROVE Has(q, y) \/ y = x => Has(all, y)
      <3>1. 1 .. Len(q) \subseteq 1 .. Len(all) /\ Len(q) + 1 \in 1 .. Len(all)
        BY <1>1
      <3> QED  BY <1>1, <3>1 DEF Has
    <2> QED  BY <2>3, <2>4, <2>5
  <1>3. /\ kept \in Seq(S) /\ Len(kept) \in 0 .. Len(all) /\ (n > 0 => Len(kept) <= n)
        /\ k \in Nat /\ Len(all) = k + Len(kept)
        /\ \A j \in 1 .. Len(kept) : kept[j] = all[j + k]
    <2>1. CASE n = 0 \/ Len(all) <= n
      <3>1. kept = all
        BY <2>1 DEF Newest
      <3>2. k = 0 /\ \A j \in 1 .. Len(all) : j + 0 = j
        BY <1>1, <3>1
      <3> HIDE DEF kept, k
      <3> QED  BY <1>1, <2>1, <3>1, <3>2
    <2>2. CASE ~(n = 0 \/ Len(all) <= n)
      <3>1. Len(all) - n + 1 \in 1 .. Len(all) + 1
        BY <2>2, <1>1
      <3>2. kept = From(all, Len(all) - n + 1)
        BY <2>2 DEF Newest
      <3>3. /\ kept \in Seq(S) /\ Len(kept) = Len(all) - (Len(all) - n + 1) + 1
            /\ \A j \in 1 .. Len(all) - (Len(all) - n + 1) + 1 :
                 kept[j] = all[(Len(all) - n + 1) + j - 1]
        BY <1>1, <3>1, <3>2, FromProperties
      <3> HIDE DEF kept
      <3>4. Len(kept) = n /\ k = Len(all) - n /\ k \in Nat
        BY <1>1, <2>2, <3>3
      <3>5. ASSUME NEW j \in 1 .. Len(kept) PROVE kept[j] = all[j + k]
        <4>1. (Len(all) - n + 1) + j - 1 = j + k
          BY <1>1, <3>4
        <4>2. j \in 1 .. Len(all) - (Len(all) - n + 1) + 1
          BY <1>1, <3>4
        <4> QED  BY <3>3, <4>1, <4>2
      <3> QED  BY <1>1, <2>2, <3>3, <3>4, <3>5
    <2> QED  BY <2>1, <2>2
  <1> HIDE DEF kept, k
  <1>4. /\ Inj(kept)
        /\ \A y : Has(kept, y) => Has(all, y)
        /\ \A i \in 1 .. k : ~Has(kept, all[i])
        /\ \A y : Has(all, y) => Has(kept, y) \/ \E i \in 1 .. k : all[i] = y
    <2>1. Len(kept) \in Nat
      BY <1>3, LenProperties
    <2> QED  BY <1>2, <1>3, <2>1, CutOff
  <1>5. \A i \in 1 .. k : Has(all, all[i])
    BY <1>1, <1>3 DEF Has
  <1>6. /\ kept \in Seq(S) /\ Len(kept) \in 0 .. Len(q) + 1 /\ Len(all) = Len(q) + 1
        /\ n > 0 => Len(kept) <= n
        /\ Inj(kept)
        /\ \A y : Has(kept, y) => Has(q, y) \/ y = x
        /\ \A i \in 1 .. k : ~Has(kept, all[i]) /\ (Has(q, all[i]) \/ all[i] = x)
        /\ \A y : Has(q, y) \/ y = x => Has(kept, y) \/ \E i \in 1 .. k : all[i] = y
    BY <1>1, <1>2, <1>3, <1>4, <1>5
  <1> QED  BY <1>6 DEF all, kept, k

\* What taking an entry out makes of it (replay_dead_letter).
LEMMA TakeOutProperties ==
    ASSUME NEW S, NEW q \in Seq(S), Inj(q), NEW i \in 1 .. Len(q)
    PROVE  LET r == SubSeq(q, 1, i - 1) \o From(q, i + 1) IN
           /\ r \in Seq(S) /\ Len(r) = Len(q) - 1 /\ Inj(r)
           /\ \A y : Has(r, y) <=> Has(q, y) /\ y # q[i]
  <1> DEFINE a == SubSeq(q, 1, i - 1)
             b == From(q, i + 1)
             r == a \o b
  <1>1. Len(q) \in Nat
    BY LenProperties
  <1>2. i \in 1 .. Len(q) + 1 /\ i + 1 \in 1 .. Len(q) + 1
    BY <1>1
  <1>3. a \in Seq(S) /\ Len(a) = i - 1 /\ \A j \in 1 .. i - 1 : a[j] = q[j]
    BY <1>2, UpToProperties
  <1>4. /\ b \in Seq(S) /\ Len(b) = Len(q) - (i + 1) + 1
        /\ \A j \in 1 .. Len(q) - (i + 1) + 1 : b[j] = q[(i + 1) + j - 1]
    BY <1>2, FromProperties
  <1> HIDE DEF a, b
  <1>5. /\ r \in Seq(S) /\ Len(r) = Len(a) + Len(b)
        /\ \A j \in 1 .. Len(a) + Len(b) : r[j] = IF j <= Len(a) THEN a[j] ELSE b[j - Len(a)]
    BY <1>3, <1>4, ConcatProperties
  <1> HIDE DEF r
  <1>6. Len(r) = Len(q) - 1
    BY <1>1, <1>3, <1>4, <1>5
  <1>7. ASSUME NEW j \in 1 .. Len(r)
        PROVE  /\ j < i => r[j] = q[j]
               /\ j >= i => r[j] = q[j + 1]
    <2>1. CASE j < i
      <3>1. j <= Len(a) /\ j \in 1 .. i - 1 /\ j \in 1 .. Len(a) + Len(b)
        BY <2>1, <1>1, <1>3, <1>4, <1>6
      <3> QED  BY <2>1, <3>1, <1>3, <1>5
    <2>2. CASE j >= i
      <3>1. /\ j - Len(a) \in 1 .. Len(q) - (i + 1) + 1 /\ (i + 1) + (j - Len(a)) - 1 = j + 1
            /\ ~(j <= Len(a)) /\ j \in 1 .. Len(a) + Len(b)
        BY <2>2, <1>1, <1>3, <1>4, <1>6
      <3>2. r[j] = b[j - Len(a)]
        BY <3>1, <1>5
      <3>3. b[j - Len(a)] = q[(i + 1) + (j - Len(a)) - 1]
        BY <3>1, <1>4
      <3> QED  BY <2>2, <3>1, <3>2, <3>3
    <2> QED  BY <2>1, <2>2
  <1>8. Inj(r) /\ \A y : Has(r, y) <=> Has(q, y) /\ y # q[i]
    <2>1. LeavesOut(q, i, r)
      BY <1>6, <1>7 DEF LeavesOut
    <2> QED  BY <1>1, <2>1, LeftOut
  <1> QED  BY <1>5, <1>6, <1>8 DEF r, a, b

\* What putting one in makes of it (replay_dead_letter, after a failure).
LEMMA PutInProperties ==
    ASSUME NEW S, NEW q \in Seq(S), Inj(q), NEW x \in S, ~Has(q, x),
           NEW i \in 1 .. Len(q) + 1
    PROVE  LET r == SubSeq(q, 1, i - 1) \o <<x>> \o From(q, i) IN
           /\ r \in Seq(S) /\ Len(r) = Len(q) + 1 /\ Inj(r)
           /\ \A y : Has(r, y) <=> Has(q, y) \/ y = x
  <1> DEFINE a == SubSeq(q, 1, i - 1)
             m == a \o <<x>>
             b == From(q, i)
             r == m \o b
  <1>1. Len(q) \in Nat
    BY LenProperties
  <1>2. a \in Seq(S) /\ Len(a) = i - 1 /\ \A j \in 1 .. i - 1 : a[j] = q[j]
    BY UpToProperties
  <1>3. /\ b \in Seq(S) /\ Len(b) = Len(q) - i + 1
        /\ \A j \in 1 .. Len(q) - i + 1 : b[j] = q[i + j - 1]
    BY FromProperties
  <1> HIDE DEF a, b
  <1>4. m = Append(a, x)
    BY <1>2, AppendIsConcat
  <1>5. /\ m \in Seq(S) /\ Len(m) = Len(a) + 1 /\ m[Len(a) + 1] = x
        /\ \A j \in 1 .. Len(a) : m[j] = a[j]
    BY <1>2, <1>4, AppendProperties
  <1> HIDE DEF m
  <1>6. /\ r \in Seq(S) /\ Len(r) = Len(m) + Len(b)
        /\ \A j \in 1 .. Len(m) + Len(b) : r[j] = IF j <= Len(m) THEN m[j] ELSE b[j - Len(m)]
    BY <1>3, <1>5, ConcatProperties
  <1> HIDE DEF r
  <1>7. Len(r) = Len(q) + 1 /\ Len(m) = i
    BY <1>1, <1>2, <1>3, <1>5, <1>6
  <1>8. r[i] = x
    <2>1. i \in 1 .. Len(m) + Len(b) /\ i <= Len(m) /\ i = Len(a) + 1
      BY <1>1, <1>2, <1>3, <1>7
    <2> QED  BY <1>5, <1>6, <2>1
  <1>9. ASSUME NEW j \in 1 .. Len(r)
        PROVE  /\ j < i => r[j] = q[j]
               /\ j > i => r[j] = q[j - 1]
    <2>1. CASE j < i
      <3>1. j \in 1 .. i - 1 /\ j \in 1 .. Len(a) /\ j <= Len(m) /\ j \in 1 .. Len(m) + Len(b)
        BY <2>1, <1>1, <1>2, <1>3, <1>7
      <3> QED  BY <2>1, <3>1, <1>2, <1>5, <1>6
    <2>2. CASE j > i
      <3>1. /\ j - Len(m) \in 1 .. Len(q) - i + 1 /\ i + (j - Len(m)) - 1 = j - 1
            /\ ~(j <= Len(m)) /\ j \in 1 .. Len(m) + Len(b)
        BY <2>2, <1>1, <1>3, <1>7
      <3>2. r[j] = b[j - Len(m)]
        BY <3>1, <1>6
      <3>3. b[j - Len(m)] = q[i + (j - Len(m)) - 1]
        BY <3>1, <1>3
      <3> QED  BY <2>2, <3>1, <3>2, <3>3
    <2>3. CASE j = i
      BY <2>3
    <2> QED  BY <2>1, <2>2, <2>3, <1>1
  <1>10. Inj(r) /\ \A y : Has(r, y) <=> Has(q, y) \/ y = x
    <2>1. PutsIn(q, i, x, r)
      BY <1>7, <1>8, <1>9 DEF PutsIn
    <2> QED  BY <1>1, <2>1, PutBetween
  <1> QED  BY <1>6, <1>7, <1>10 DEF r, m, a, b

-----------------------------------------------------------------------------
(* The inductive invariant                                                 *)

Stages == {"none", "queued", "trying", "exhausted", "delivered", "dead", "cancelled",
           "raised"}

Calls == [at : {"idle", "submit", "wait", "cancel", "fallback"}, event : 0 .. MaxEvents,
          todo : SUBSET Ids, doing : Deliveries \union {None}]
Tasks == [at : Stages, tries : Nat, sub : Subscriptions \union {None}]
Replays == [at : {"idle", "look", "post", "back"}, index : Nat,
            entry : Deliveries \union {None}]

SubsTyped == DOMAIN subs \subseteq Ids /\ \A i \in DOMAIN subs : subs[i] \in Subscriptions
PubTyped == /\ pub \in [Publishers -> Calls]
            /\ \A p \in Publishers : pub[p].at = "idle" <=> pub[p].event = 0
TaskTyped == task \in [Deliveries -> Tasks]
DlqTyped == dlq \in Seq(Deliveries)
ReplayTyped == /\ replay \in [Replayers -> Replays]
               /\ \A r \in Replayers : /\ replay[r].at = "idle" <=> replay[r].entry = None
                                       /\ replay[r].at # "idle" => replay[r].index > 0
CountsTyped == events \in 0 .. MaxEvents /\ replays \in Nat /\ changes \in Nat
MatchedTyped == matched \in [Events -> SUBSET Ids]
LateTyped == fellBack \subseteq Events /\ timedOut \subseteq Events
GoneTyped == gone \in [Deliveries -> {"no", "evicted", "cleared", "replayed"}]
AcceptedTyped == accepted \in [Events -> [Ids -> Nat]]
LostTyped == lost \in [Events -> [Ids -> Nat]]

Typed == /\ SubsTyped /\ PubTyped /\ TaskTyped /\ DlqTyped /\ ReplayTyped
         /\ CountsTyped /\ MatchedTyped /\ LateTyped /\ GoneTyped /\ AcceptedTyped /\ LostTyped

Started(d) == task[d].at \in {"trying", "exhausted", "delivered", "dead", "raised"}

\* What a delivery's stage says of its event, and of what was tried.
TaskFits(d) ==
    /\ task[d].at \in {"none", "queued", "cancelled", "raised"} => task[d].tries = 0
    /\ task[d].at # "none" => d.event \in 1 .. events
    /\ task[d].at = "cancelled" => d.event \in timedOut
    /\ d.by = "caller" /\ task[d].at # "none" => d.event \in fellBack /\ Started(d)

\* What has become of an event's deliveries at each stage of its publish_event.
CallFits(p) ==
    LET e == pub[p].event IN
    /\ ~At(p, "idle") => e \in 1 .. events /\ pub[p].todo \subseteq matched[e]
    /\ At(p, "submit") => /\ e \notin fellBack
                          /\ \A i \in matched[e] :
                                task[Pooled(e, i)].at = "none" <=> i \in pub[p].todo
    /\ At(p, "wait") => \A i \in matched[e] : task[Pooled(e, i)].at # "none"
    /\ At(p, "cancel") => /\ e \in timedOut
                          /\ \A i \in matched[e] :
                                /\ task[Pooled(e, i)].at # "none"
                                /\ task[Pooled(e, i)].at = "queued" => i \in pub[p].todo
    /\ At(p, "fallback") => /\ e \in fellBack
                            /\ \A i \in matched[e] :
                                  IF i \in pub[p].todo THEN task[Direct(e, i)].at = "none"
                                  ELSE Started(Direct(e, i))

\* What NobodyForgotten asks of an event that is no longer being published.
Settled(e) ==
    \A i \in matched[e] :
        \/ Started(Pooled(e, i)) \/ Started(Direct(e, i))
        \/ /\ e \in timedOut /\ task[Pooled(e, i)].at = "cancelled"
           /\ task[Pooled(e, i)].tries = 0
        \/ e \in fellBack /\ \E j \in matched[e] : task[Direct(e, j)].at = "raised"

PublishInv ==
    /\ fellBack \subseteq 1 .. events
    /\ \A d \in Deliveries : TaskFits(d)
    /\ \A p \in Publishers : CallFits(p)
    /\ \A e \in 1 .. events : ~Publishing(e) => Settled(e)
    /\ \A p, q \in Publishers : pub[p].event = pub[q].event /\ pub[p].event # 0 => p = q

\* The delivery that a fallback is at is one to a subscription the event was for.
DoingInv == \A p \in Publishers : pub[p].doing # None =>
                /\ ~At(p, "idle")
                /\ \E i \in matched[pub[p].event] : pub[p].doing = Direct(pub[p].event, i)

Held(d) == \E r \in Replayers : replay[r].entry = d

PlacesInv ==
    /\ Inj(dlq)
    /\ \A d \in Deliveries :
         /\ task[d].at = "dead" <=> Has(dlq, d) \/ Held(d) \/ gone[d] # "no"
         /\ Has(dlq, d) => ~Held(d)
         /\ Has(dlq, d) \/ Held(d) => gone[d] = "no"
    /\ \A q, r \in Replayers : replay[q].entry = replay[r].entry /\ replay[q].entry # None => q = r

\* What the endpoints accepted is what was answered, and what of it was not.
Spent(d) == IF task[d].at = "delivered" \/ gone[d] = "replayed" THEN 1 ELSE 0

SpentInv == \A e \in Events, i \in Ids :
                accepted[e][i] = lost[e][i] + Spent(Pooled(e, i)) + Spent(Direct(e, i))

IInv == Typed /\ PublishInv /\ DoingInv /\ PlacesInv /\ SpentInv /\ ExcessBounded

\* Deliveries are told apart by their event, their subscriber and who makes them.
LEMMA DeliveriesAre ==
    /\ \A e \in Events, i \in Ids :
         /\ Pooled(e, i) \in Deliveries /\ Pooled(e, i).event = e /\ Pooled(e, i).to = i
         /\ Direct(e, i) \in Deliveries /\ Direct(e, i).event = e /\ Direct(e, i).to = i
         /\ Pooled(e, i).by = "pool" /\ Direct(e, i).by = "caller"
    /\ \A d \in Deliveries :
         /\ d.event \in Events /\ d.to \in Ids /\ d # None
         /\ \/ d.by = "pool" /\ d = Pooled(d.event, d.to)
            \/ d.by = "caller" /\ d = Direct(d.event, d.to)
  BY NoneAssumption DEF Deliveries, Pooled, Direct

\* The service as __init__ leaves it
LEMMA InitIsTyped == Init => Typed
  <1> SUFFICES ASSUME Init PROVE Typed
    OBVIOUS
  <1>1. <<>> \in Seq(Deliveries)
    BY EmptySeq
  <1>2. MaxEvents \in Nat /\ 0 \in 0 .. MaxEvents
    BY BoundsAssumption
  <1> QED  BY <1>1, <1>2, NoneAssumption
           DEF Init, Typed, SubsTyped, PubTyped, TaskTyped, DlqTyped, ReplayTyped, CountsTyped,
               MatchedTyped, LateTyped, GoneTyped, AcceptedTyped, LostTyped, Calls, Tasks, Replays,
               NotPublishing, NotReplaying, Stages

\* What the queue has become after a delivery was dead-lettered.
LEMMA DeadLettered ==
    ASSUME Typed, PlacesInv, NEW d \in Deliveries, DeadLetter(d)
    PROVE  LET all == Append(dlq, d)
               out == 1 .. Len(all) - Len(dlq') IN
           /\ dlq' \in Seq(Deliveries) /\ Len(dlq') \in Nat /\ (DlqMax > 0 => Len(dlq') <= DlqMax)
           /\ Inj(dlq')
           /\ \A y : Has(dlq', y) => Has(dlq, y) \/ y = d
           /\ \A i \in out : ~Has(dlq', all[i]) /\ (Has(dlq, all[i]) \/ all[i] = d)
           /\ \A y : Has(dlq, y) \/ y = d => Has(dlq', y) \/ \E i \in out : all[i] = y
           /\ gone' = [c \in Deliveries |-> IF \E i \in out : all[i] = c THEN "evicted"
                                            ELSE gone[c]]
  <1>1. dlq \in Seq(Deliveries) /\ DlqMax \in Nat /\ Inj(dlq)
    BY SizesAssumption DEF Typed, DlqTyped, PlacesInv
  <1>2. ~Has(dlq, d)
    BY DEF PlacesInv, DeadLetter
  <1>3. dlq' = Newest(Append(dlq, d), DlqMax)
    BY DEF DeadLetter
  <1>4. /\ dlq' \in Seq(Deliveries) /\ Len(dlq') \in 0 .. Len(dlq) + 1
        /\ DlqMax > 0 => Len(dlq') <= DlqMax
        /\ Inj(dlq')
        /\ \A y : Has(dlq', y) => Has(dlq, y) \/ y = d
        /\ \A i \in 1 .. Len(Append(dlq, d)) - Len(dlq') :
             ~Has(dlq', Append(dlq, d)[i]) /\ (Has(dlq, Append(dlq, d)[i]) \/ Append(dlq, d)[i] = d)
        /\ \A y : Has(dlq, y) \/ y = d =>
             Has(dlq', y) \/ \E i \in 1 .. Len(Append(dlq, d)) - Len(dlq') : Append(dlq, d)[i] = y
    BY <1>1, <1>2, <1>3, CutProperties
  <1>5. gone' = [c \in Deliveries |->
                   IF \E i \in 1 .. Len(Append(dlq, d)) - Len(dlq') : Append(dlq, d)[i] = c
                   THEN "evicted" ELSE gone[c]]
    BY <1>3 DEF DeadLetter
  <1>6. Len(dlq') \in Nat
    BY <1>4, LenProperties
  <1> QED  BY <1>4, <1>5, <1>6

\* What the queue has become after a replay has taken an entry.
LEMMA TakenOut ==
    ASSUME Typed, PlacesInv, NEW r \in Replayers, NEW i \in DOMAIN dlq, ReplayTake(r, i)
    PROVE  /\ i \in 1 .. Len(dlq) /\ dlq[i] \in Deliveries /\ Has(dlq, dlq[i])
           /\ dlq' \in Seq(Deliveries) /\ Len(dlq') = Len(dlq) - 1 /\ Inj(dlq')
           /\ \A y : Has(dlq', y) <=> Has(dlq, y) /\ y # dlq[i]
  <1>1. dlq \in Seq(Deliveries) /\ Inj(dlq)
    BY DEF Typed, DlqTyped, PlacesInv
  <1>2. i \in 1 .. Len(dlq)
    BY <1>1, LenProperties
  <1>3. dlq[i] \in Deliveries /\ Has(dlq, dlq[i])
    BY <1>1, <1>2, ElementOfSeq DEF Has
  <1>4. dlq' = SubSeq(dlq, 1, i - 1) \o From(dlq, i + 1)
    BY DEF ReplayTake
  <1> QED  BY <1>1, <1>2, <1>3, <1>4, TakeOutProperties

\* What it has become after a replay has put its entry back.
LEMMA PutBackAgain ==
    ASSUME Typed, PlacesInv, NEW r \in Replayers, PutBack(r)
    PROVE  /\ replay[r].entry \in Deliveries
           /\ dlq' \in Seq(Deliveries) /\ Len(dlq') = Len(dlq) + 1 /\ Inj(dlq')
           /\ \A y : Has(dlq', y) <=> Has(dlq, y) \/ y = replay[r].entry
  <1> DEFINE i == IF replay[r].index <= Len(dlq) THEN replay[r].index ELSE Len(dlq) + 1
             x == replay[r].entry
  <1>1. dlq \in Seq(Deliveries) /\ Inj(dlq)
    BY DEF Typed, DlqTyped, PlacesInv
  <1>2. x \in Deliveries /\ replay[r].index \in Nat /\ replay[r].index > 0
    BY DEF Typed, ReplayTyped, Replays, PutBack
  <1>3. ~Has(dlq, x)
    BY <1>2 DEF PlacesInv, Held
  <1>4. i \in 1 .. Len(dlq) + 1
    BY <1>1, <1>2, LenProperties
  <1>5. dlq' = SubSeq(dlq, 1, i - 1) \o <<x>> \o From(dlq, i)
    BY DEF PutBack
  <1> HIDE DEF i, x
  <1>6. /\ dlq' \in Seq(Deliveries) /\ Len(dlq') = Len(dlq) + 1 /\ Inj(dlq')
        /\ \A y : Has(dlq', y) <=> Has(dlq, y) \/ y = x
    BY <1>1, <1>2, <1>3, <1>4, <1>5, PutInProperties
  <1> QED  BY <1>2, <1>6 DEF x

\* What a step leaves alone keeps its type.
LEMMA Kept ==
    ASSUME Typed
    PROVE  /\ UNCHANGED subs => SubsTyped'
           /\ UNCHANGED pub => PubTyped'
           /\ UNCHANGED task => TaskTyped'
           /\ UNCHANGED dlq => DlqTyped'
           /\ UNCHANGED replay => ReplayTyped'
           /\ UNCHANGED bounds => CountsTyped'
           /\ UNCHANGED matched => MatchedTyped'
           /\ UNCHANGED <<fellBack, timedOut>> => LateTyped'
           /\ UNCHANGED gone => GoneTyped'
           /\ UNCHANGED accepted => AcceptedTyped'
           /\ UNCHANGED lost => LostTyped'
  <1> USE DEF Typed
  <1>1. UNCHANGED subs => SubsTyped'  BY DEF SubsTyped
  <1>2. UNCHANGED pub => PubTyped'  BY DEF PubTyped
  <1>3. UNCHANGED task => TaskTyped'  BY DEF TaskTyped
  <1>4. UNCHANGED dlq => DlqTyped'  BY DEF DlqTyped
  <1>5. UNCHANGED replay => ReplayTyped'  BY DEF ReplayTyped
  <1>6. UNCHANGED bounds => CountsTyped'  BY DEF CountsTyped, bounds
  <1>7. UNCHANGED matched => MatchedTyped'  BY DEF MatchedTyped
  <1>8. UNCHANGED <<fellBack, timedOut>> => LateTyped'  BY DEF LateTyped
  <1>9. UNCHANGED gone => GoneTyped'  BY DEF GoneTyped
  <1>10. UNCHANGED accepted => AcceptedTyped'  BY DEF AcceptedTyped
  <1>11. UNCHANGED lost => LostTyped'  BY DEF LostTyped
  <1> QED  BY <1>1, <1>2, <1>3, <1>4, <1>5, <1>6, <1>7, <1>8, <1>9, <1>10, <1>11

\* One time more that an endpoint accepts an event
LEMMA OneMoreTyped ==
    ASSUME Typed, NEW d \in Deliveries,
           accepted' = [accepted EXCEPT ![d.event][d.to] = @ + 1]
    PROVE  AcceptedTyped'
  <1>1. d.event \in Events /\ d.to \in Ids
    BY DeliveriesAre
  <1> QED  BY <1>1 DEF Typed, AcceptedTyped

\* One time more that the answer to it is lost
LEMMA OneMoreLostTyped ==
    ASSUME Typed, NEW d \in Deliveries, lost' = [lost EXCEPT ![d.event][d.to] = @ + 1]
    PROVE  LostTyped'
  <1>1. d.event \in Events /\ d.to \in Ids
    BY DeliveriesAre
  <1> QED  BY <1>1 DEF Typed, LostTyped

\* What an attempt without success makes of its delivery
LEMMA Retried ==
    ASSUME TaskTyped, NEW d \in Deliveries, Retry(d)
    PROVE  /\ TaskTyped'
           /\ task'[d].at \in {"trying", "exhausted"}
           /\ \A c \in Deliveries : c # d => task'[c] = task[c]
  <1>1. task[d] \in Tasks /\ task[d].tries + 1 \in Nat
    BY DEF TaskTyped, Tasks
  <1>2. PICK at \in {"trying", "exhausted"} :
          task' = [task EXCEPT ![d].tries = @ + 1, ![d].at = at]
    BY DEF Retry
  <1> QED  BY <1>1, <1>2 DEF TaskTyped, Tasks, Stages

\* The steps of a publish_event that go on keep the shape of its state.
LEMMA CallTyped ==
    ASSUME PubTyped, NEW p \in Publishers, NEW c \in Calls, c.at = "idle" <=> c.event = 0,
           pub' = [pub EXCEPT ![p] = c]
    PROVE  PubTyped'
  BY DEF PubTyped

\* A call with one delivery less to do
LEMMA OneLessToDo ==
    ASSUME NEW c \in Calls, NEW i \in Ids
    PROVE  LET b == [c EXCEPT !.todo = c.todo \ {i}] IN
           b \in Calls /\ b.at = c.at /\ b.event = c.event
  BY DEF Calls

\* The steps of a replay keep the shape of its state.
LEMMA ReplayMoves ==
    ASSUME ReplayTyped, NEW r \in Replayers, NEW c \in Replays,
           c.at = "idle" <=> c.entry = None, c.at # "idle" => c.index > 0,
           replay' = [replay EXCEPT ![r] = c]
    PROVE  ReplayTyped'
  BY DEF ReplayTyped

\* Every step keeps every part of the state in its type.
LEMMA TypedStep ==
    ASSUME Typed, PublishInv, PlacesInv, [Next]_vars
    PROVE  Typed'
  <1> USE DEF Typed
  <1>0. MaxEvents \in Nat /\ NotPublishing \in Calls /\ NotReplaying \in Replays
    BY BoundsAssumption DEF NotPublishing, NotReplaying, Calls, Replays
  <1>1. CASE \E s \in Offers : Subscribe(s)
    <2>1. PICK s \in Offers : Subscribe(s)
      BY <1>1
    <2>2. s \in Subscriptions /\ s.id \in Ids
      BY OffersAssumption DEF Subscriptions
    <2>3. SubsTyped'
      BY <2>1, <2>2 DEF Subscribe, SubsTyped
    <2>4. CountsTyped'
      BY <2>1 DEF Subscribe, CountsTyped
    <2> QED  BY <2>1, <2>3, <2>4, Kept DEF Subscribe, history
  <1>2. CASE \E i \in Ids : Unsubscribe(i)
    <2>1. SubsTyped' /\ CountsTyped'
      BY <1>2 DEF Unsubscribe, SubsTyped, CountsTyped
    <2> QED  BY <1>2, <2>1, Kept DEF Unsubscribe, history
  <1>3. CASE \E p \in Publishers, type \in Types : Publish(p, type)
    <2>1. PICK p \in Publishers, type \in Types : Publish(p, type)
      BY <1>3
    <2> DEFINE e == events + 1
               found == {i \in DOMAIN subs : Matches(subs[i], type)}
    <2>2. e \in Events /\ e \in 0 .. MaxEvents /\ e # 0
      BY <2>1, <1>0 DEF Publish, Events, CountsTyped
    <2>3. found \in SUBSET Ids
      BY DEF SubsTyped
    <2>4. MatchedTyped' /\ CountsTyped'
      BY <2>1, <2>2, <2>3 DEF Publish, MatchedTyped, CountsTyped
    <2>5. PubTyped'
      <3> DEFINE c == [at |-> "submit", event |-> e, todo |-> found, doing |-> None]
      <3>1. c \in Calls /\ c.at # "idle" /\ c.event # 0
        BY <2>2, <2>3 DEF Calls
      <3>2. UNCHANGED pub \/ pub' = [pub EXCEPT ![p] = c]
        BY <2>1 DEF Publish
      <3> HIDE DEF c
      <3> QED  BY <3>1, <3>2, CallTyped, Kept
    <2>6. TaskTyped'
      <3>1. CASE UNCHANGED task
        BY <3>1, Kept
      <3>2. CASE task' = [d \in Deliveries |-> IF d.event = e /\ d.to \in found
                                               THEN [task[d] EXCEPT !.sub = subs[d.to]]
                                               ELSE task[d]]
        <4>1. ASSUME NEW d \in Deliveries, d.to \in found
              PROVE  [task[d] EXCEPT !.sub = subs[d.to]] \in Tasks
          <5>1. subs[d.to] \in Subscriptions
            BY <4>1 DEF SubsTyped
          <5> QED  BY <5>1 DEF TaskTyped, Tasks
        <4> HIDE DEF found
        <4> QED  BY <3>2, <4>1 DEF TaskTyped
      <3> QED  BY <2>1, <3>1, <3>2 DEF Publish
    <2> QED  BY <2>1, <2>4, <2>5, <2>6, Kept DEF Publish
  <1>c. ASSUME NEW p \in Publishers
        PROVE  /\ pub[p] \in Calls /\ (pub[p].at # "idle" => pub[p].event \in Events)
               /\ pub[p].at # "idle" => matched[pub[p].event] \in SUBSET Ids
    BY <1>0 DEF PubTyped, MatchedTyped, Calls, Events
  <1>t. ASSUME NEW d \in Deliveries PROVE task[d] \in Tasks
    BY DEF TaskTyped
  <1>r. ASSUME NEW r \in Replayers PROVE replay[r] \in Replays
    BY DEF ReplayTyped
  <1>4. ASSUME NEW p \in Publishers, Submit(p) PROVE Typed'
    <2>1. PICK i \in pub[p].todo :
            /\ task' = [task EXCEPT ![Pooled(pub[p].event, i)].at = "queued"]
            /\ pub' = [pub EXCEPT ![p].todo = @ \ {i},
                                  ![p].at = IF pub[p].todo = {i} THEN "wait" ELSE "submit"]
      BY <1>4 DEF Submit
    <2>2. pub[p].at = "submit" /\ i \in Ids /\ Pooled(pub[p].event, i) \in Deliveries
      BY <1>4, <1>c, DeliveriesAre DEF Submit, At, Calls
    <2>3. TaskTyped'
      BY <1>t, <2>1, <2>2 DEF TaskTyped, Tasks, Stages
    <2>4. PubTyped'
      <3> DEFINE c == [pub[p] EXCEPT !.todo = @ \ {i},
                                     !.at = IF pub[p].todo = {i} THEN "wait" ELSE "submit"]
      <3>1. c \in Calls /\ (c.at = "idle" <=> c.event = 0)
        BY <1>c, <2>2 DEF PubTyped, Calls
      <3>2. pub' = [pub EXCEPT ![p] = c]
        BY <2>1 DEF PubTyped
      <3> HIDE DEF c
      <3> QED  BY <3>1, <3>2, CallTyped
    <2> QED  BY <1>4, <2>3, <2>4, Kept DEF Submit, history
  <1>5. ASSUME NEW p \in Publishers, SubmitFails(p) PROVE Typed'
    <2>1. PICK i \in pub[p].todo :
            task' = IF pub[p].todo = matched[pub[p].event] THEN task
                    ELSE [task EXCEPT ![Pooled(pub[p].event, i)].at = "queued"]
      BY <1>5 DEF SubmitFails
    <2>2. /\ pub[p].at = "submit" /\ i \in Ids /\ Pooled(pub[p].event, i) \in Deliveries
          /\ pub' = [pub EXCEPT ![p].at = "fallback", ![p].todo = matched[pub[p].event]]
          /\ fellBack' = fellBack \union {pub[p].event} /\ timedOut' = timedOut
      BY <1>5, <1>c, DeliveriesAre DEF SubmitFails, At, Calls
    <2>3. TaskTyped'
      BY <1>t, <2>1, <2>2 DEF TaskTyped, Tasks, Stages
    <2>4. PubTyped'
      BY <1>c, <2>2 DEF PubTyped, Calls
    <2>5. LateTyped'
      BY <1>c, <2>2 DEF LateTyped
    <2> QED  BY <1>5, <2>3, <2>4, <2>5, Kept DEF SubmitFails
  <1>6. ASSUME NEW p \in Publishers, AllDone(p) PROVE Typed'
    <2>1. PubTyped'
      BY <1>0, <1>6, CallTyped DEF AllDone, NotPublishing
    <2> QED  BY <1>6, <2>1, Kept DEF AllDone, history
  <1>7. ASSUME NEW p \in Publishers, TimeOut(p) PROVE Typed'
    <2>1. /\ pub[p].at = "wait" /\ timedOut' = timedOut \union {pub[p].event}
          /\ pub' = [pub EXCEPT ![p].at = "cancel", ![p].todo = matched[pub[p].event]]
          /\ fellBack' = fellBack
      BY <1>7 DEF TimeOut, At
    <2>2. PubTyped'
      BY <1>c, <2>1 DEF PubTyped, Calls
    <2>3. LateTyped'
      BY <1>c, <2>1 DEF LateTyped
    <2> QED  BY <1>7, <2>2, <2>3, Kept DEF TimeOut
  <1>8. ASSUME NEW p \in Publishers, Cancel(p) PROVE Typed'
    <2>1. PICK i \in pub[p].todo :
            LET d == Pooled(pub[p].event, i) IN
            /\ task' = IF task[d].at = "queued" THEN [task EXCEPT ![d].at = "cancelled"] ELSE task
            /\ pub' = IF pub[p].todo = {i} THEN [pub EXCEPT ![p] = NotPublishing]
                      ELSE [pub EXCEPT ![p].todo = @ \ {i}]
      BY <1>8 DEF Cancel
    <2>2. pub[p].at = "cancel" /\ i \in Ids /\ Pooled(pub[p].event, i) \in Deliveries
      BY <1>8, <1>c, DeliveriesAre DEF Cancel, At, Calls
    <2>3. TaskTyped'
      BY <1>t, <2>1, <2>2 DEF TaskTyped, Tasks, Stages
    <2>4. PubTyped'
      <3>1. CASE pub[p].todo = {i}
        <4>1. pub' = [pub EXCEPT ![p] = NotPublishing]
          BY <2>1, <3>1 DEF PubTyped
        <4>2. NotPublishing.at = "idle" <=> NotPublishing.event = 0
          BY DEF NotPublishing
        <4> QED  BY <1>0, <4>1, <4>2, CallTyped
      <3>2. CASE pub[p].todo # {i}
        <4> DEFINE c == [pub[p] EXCEPT !.todo = pub[p].todo \ {i}]
        <4>1. c \in Calls /\ c.at = pub[p].at /\ c.event = pub[p].event
          BY <1>c, <2>2, OneLessToDo
        <4>2. pub' = [pub EXCEPT ![p] = c]
          BY <2>1, <3>2 DEF PubTyped
        <4> HIDE DEF c
        <4>3. c.at = "idle" <=> c.event = 0
          BY <4>1 DEF PubTyped
        <4> QED  BY <4>1, <4>2, <4>3, CallTyped
      <3> QED  BY <3>1, <3>2
    <2> QED  BY <1>8, <2>3, <2>4, Kept DEF Cancel, history
  <1>9. ASSUME NEW p \in Publishers, FallBackTo(p) PROVE Typed'
    <2>1. CASE pub' = [pub EXCEPT ![p] = NotPublishing] /\ UNCHANGED task
      <3>1. PubTyped'
        BY <1>0, <2>1, CallTyped DEF NotPublishing
      <3> QED  BY <1>9, <2>1, <3>1, Kept DEF FallBackTo, history
    <2>2. CASE \E i \in pub[p].todo :
                 /\ pub' = [pub EXCEPT ![p].todo = @ \ {i},
                                       ![p].doing = Direct(pub[p].event, i)]
                 /\ task' = [task EXCEPT ![Direct(pub[p].event, i)].at = "trying"]
      <3>1. PICK i \in pub[p].todo :
              /\ pub' = [pub EXCEPT ![p].todo = @ \ {i}, ![p].doing = Direct(pub[p].event, i)]
              /\ task' = [task EXCEPT ![Direct(pub[p].event, i)].at = "trying"]
        BY <2>2
      <3>2. pub[p].at = "fallback" /\ i \in Ids /\ Direct(pub[p].event, i) \in Deliveries
        BY <1>9, <1>c, DeliveriesAre DEF FallBackTo, At, Calls
      <3>3. TaskTyped'
        BY <1>t, <3>1, <3>2 DEF TaskTyped, Tasks, Stages
      <3>4. PubTyped'
        BY <1>c, <3>1, <3>2 DEF PubTyped, Calls
      <3> QED  BY <1>9, <3>3, <3>4, Kept DEF FallBackTo, history
    <2> QED  BY <1>9, <2>1, <2>2 DEF FallBackTo
  <1>10. ASSUME NEW d \in Deliveries, Take(d) PROVE Typed'
    <2>1. TaskTyped'
      BY <1>t, <1>10 DEF Take, TaskTyped, Tasks, Stages
    <2> QED  BY <1>10, <2>1, Kept DEF Take, history
  <1>11. ASSUME NEW d \in Deliveries, Delivered(d) PROVE Typed'
    <2>2. TaskTyped'
      BY <1>t, <1>11 DEF Delivered, TaskTyped, Tasks, Stages
    <2>3. AcceptedTyped'
      BY <1>11, OneMoreTyped DEF Delivered
    <2> QED  BY <1>11, <2>2, <2>3, Kept DEF Delivered
  <1>12. ASSUME NEW d \in Deliveries, AttemptFails(d) PROVE Typed'
    <2>1. TaskTyped'
      BY <1>12, Retried DEF AttemptFails
    <2> QED  BY <1>12, <2>1, Kept DEF AttemptFails, history
  <1>13. ASSUME NEW d \in Deliveries, DeadLetter(d) PROVE Typed'
    <2>1. DlqTyped'
      BY <1>13, DeadLettered DEF DlqTyped
    <2>2. GoneTyped'
      <3>1. gone' = [c \in Deliveries |->
                       IF c \in {Append(dlq, d)[i] :
                                   i \in 1 .. Len(Append(dlq, d)) - Len(Newest(Append(dlq, d), DlqMax))}
                       THEN "evicted" ELSE gone[c]]
        BY <1>13 DEF DeadLetter
      <3> QED  BY <3>1 DEF GoneTyped
    <2>3. TaskTyped'
      BY <1>t, <1>13 DEF DeadLetter, TaskTyped, Tasks, Stages
    <2> QED  BY <1>13, <2>1, <2>2, <2>3, Kept DEF DeadLetter
  <1>14. ASSUME NEW r \in Replayers, NEW i \in DOMAIN dlq, ReplayTake(r, i) PROVE Typed'
    <2>1. DlqTyped' /\ dlq[i] \in Deliveries /\ i \in Nat /\ i > 0 /\ dlq[i] # None
      BY <1>14, TakenOut, NoneAssumption DEF DlqTyped
    <2>2. ReplayTyped'
      <3> DEFINE c == [at |-> "look", index |-> i, entry |-> dlq[i]]
      <3>1. c \in Replays /\ c.at # "idle" /\ c.entry # None /\ c.index > 0
        BY <2>1 DEF Replays
      <3>2. replay' = [replay EXCEPT ![r] = c]
        BY <1>14 DEF ReplayTake
      <3> HIDE DEF c
      <3> QED  BY <3>1, <3>2, ReplayMoves
    <2>3. CountsTyped'
      BY <1>14 DEF ReplayTake, CountsTyped
    <2> QED  BY <1>14, <2>1, <2>2, <2>3, Kept DEF ReplayTake, history
  <1>15. ASSUME NEW r \in Replayers, ReplayLook(r) PROVE Typed'
    <2>1. /\ replay[r].at # "idle"
          /\ replay' = [replay EXCEPT ![r].at = "back"] \/ replay' = [replay EXCEPT ![r].at = "post"]
      BY <1>15 DEF ReplayLook
    <2>2. ReplayTyped'
      BY <1>r, <2>1 DEF ReplayTyped, Replays
    <2> QED  BY <1>15, <2>2, Kept DEF ReplayLook, history
  <1>16. ASSUME NEW r \in Replayers, ReplaySucceeds(r) PROVE Typed'
    <2>1. replay[r].entry \in Deliveries
      BY <1>16, <1>r DEF ReplaySucceeds, ReplayTyped, Replays
    <2>3. ReplayTyped'
      BY <1>0, <1>16, ReplayMoves DEF ReplaySucceeds, NotReplaying
    <2>4. GoneTyped'
      BY <1>16, <2>1 DEF ReplaySucceeds, GoneTyped
    <2>5. AcceptedTyped'
      BY <1>16, <2>1, OneMoreTyped DEF ReplaySucceeds
    <2> QED  BY <1>16, <2>3, <2>4, <2>5, Kept DEF ReplaySucceeds
  <1>17. ASSUME NEW r \in Replayers, ReplayFails(r) PROVE Typed'
    <2>1. ReplayTyped'
      BY <1>17, <1>r DEF ReplayFails, ReplayTyped, Replays
    <2> QED  BY <1>17, <2>1, Kept DEF ReplayFails, history
  <1>18. ASSUME NEW r \in Replayers, PutBack(r) PROVE Typed'
    <2>1. DlqTyped'
      BY <1>18, PutBackAgain DEF DlqTyped
    <2>2. ReplayTyped'
      BY <1>0, <1>18, ReplayMoves DEF PutBack, NotReplaying
    <2> QED  BY <1>18, <2>1, <2>2, Kept DEF PutBack, history
  <1>19. CASE Clear
    <2>1. DlqTyped'
      BY <1>19, EmptySeq DEF Clear, DlqTyped
    <2>2. GoneTyped'
      BY <1>19 DEF Clear, GoneTyped
    <2>3. CountsTyped'
      BY <1>19 DEF Clear, CountsTyped
    <2> QED  BY <1>19, <2>1, <2>2, <2>3, Kept DEF Clear
  <1>20. CASE UNCHANGED vars
    BY <1>20, Kept DEF vars, history
  <1>21. ASSUME NEW d \in Deliveries, Raises(d) PROVE Typed'
    <2>1. TaskTyped'
      BY <1>t, <1>21 DEF Raises, TaskTyped, Tasks, Stages
    <2> QED  BY <1>21, <2>1, Kept DEF Raises, history
  <1>22. ASSUME NEW d \in Deliveries, AnswerLost(d) PROVE Typed'
    <2>1. TaskTyped'
      BY <1>22, Retried DEF AnswerLost
    <2>2. AcceptedTyped' /\ LostTyped'
      BY <1>22, OneMoreTyped, OneMoreLostTyped DEF AnswerLost
    <2> QED  BY <1>22, <2>1, <2>2, Kept DEF AnswerLost
  <1>23. ASSUME NEW r \in Replayers, ReplayAnswerLost(r) PROVE Typed'
    <2>1. replay[r].entry \in Deliveries
      BY <1>23, <1>r DEF ReplayAnswerLost, ReplayTyped, Replays
    <2>2. ReplayTyped'
      BY <1>23, <1>r DEF ReplayAnswerLost, ReplayTyped, Replays
    <2>3. AcceptedTyped' /\ LostTyped'
      BY <1>23, <2>1, OneMoreTyped, OneMoreLostTyped DEF ReplayAnswerLost
    <2> QED  BY <1>23, <2>2, <2>3, Kept DEF ReplayAnswerLost
  <1>24. ASSUME NEW p \in Publishers, FallBackRaises(p) PROVE Typed'
    <2>1. PubTyped'
      BY <1>0, <1>24, CallTyped DEF FallBackRaises, NotPublishing
    <2> QED  BY <1>24, <2>1, Kept DEF FallBackRaises, history
  <1> QED  BY <1>1, <1>2, <1>3, <1>4, <1>5, <1>6, <1>7, <1>8, <1>9, <1>10, <1>11, <1>12, <1>13,
              <1>14, <1>15, <1>16, <1>17, <1>18, <1>19, <1>20, <1>21, <1>22, <1>23, <1>24
           DEF Next, GoOn, Deliver, Replay

-----------------------------------------------------------------------------
(* publish_event and the deliveries it waits for                           *)

\* Deliveries that go on by themselves leave the calls as they are.
LEMMA DeliveriesGoOn ==
    ASSUME Typed, PublishInv, UNCHANGED <<pub, events, matched, fellBack, timedOut>>,
           \A d \in Deliveries :
               /\ task'[d].at = "none" <=> task[d].at = "none"
               /\ task'[d].at = "queued" => task[d].at = "queued"
               /\ task'[d].at = "cancelled" <=> task[d].at = "cancelled"
               /\ task'[d].at \in {"none", "queued", "cancelled"} => task'[d].tries = task[d].tries
               /\ task'[d].at = "raised" => task'[d].tries = 0 \/ task'[d] = task[d]
               /\ task[d].at = "raised" => task'[d].at = "raised"
               /\ Started(d) => Started(d)'
    PROVE  PublishInv'
  <1>1. fellBack' \subseteq 1 .. events'
    BY DEF PublishInv
  <1>2. ASSUME NEW d \in Deliveries PROVE TaskFits(d)'
    <2>1. TaskFits(d)
      BY DEF PublishInv
    <2> QED  BY <2>1 DEF TaskFits, Started
  <1>c. ASSUME NEW p \in Publishers, pub[p].at # "idle", NEW i \in matched[pub[p].event]
        PROVE  Pooled(pub[p].event, i) \in Deliveries /\ Direct(pub[p].event, i) \in Deliveries
    <2>1. pub[p].event \in Events /\ i \in Ids
      BY <1>c, BoundsAssumption DEF Typed, PubTyped, MatchedTyped, Calls, Events
    <2> QED  BY <2>1, DeliveriesAre
  <1>3. ASSUME NEW p \in Publishers PROVE CallFits(p)'
    <2>1. CallFits(p)
      BY DEF PublishInv
    <2> QED  BY <1>c, <2>1 DEF CallFits, At
  <1>4. ASSUME NEW e \in 1 .. events', ~Publishing(e)' PROVE Settled(e)'
    <2>1. Settled(e) /\ e \in Events
      BY <1>4, BoundsAssumption DEF PublishInv, Publishing, Typed, CountsTyped, Events
    <2>2. ASSUME NEW i \in matched[e] PROVE Pooled(e, i) \in Deliveries /\ Direct(e, i) \in Deliveries
      BY <2>1, DeliveriesAre DEF Typed, MatchedTyped
    <2> QED  BY <2>1, <2>2 DEF Settled
  <1>5. \A p, q \in Publishers : pub'[p].event = pub'[q].event /\ pub'[p].event # 0 => p = q
    BY DEF PublishInv
  <1> QED  BY <1>1, <1>2, <1>3, <1>4, <1>5 DEF PublishInv

\* A step of p's call, which is for event ev, leaves the other events as they are.
LEMMA OneCallGoesOn ==
    ASSUME Typed, PublishInv, NEW p \in Publishers, NEW ev \in Events,
           events' \in Nat, events <= events', \A e \in 1 .. events' : e # ev => e \in 1 .. events,
           ev \in 1 .. events', pub[p].event \in {0, ev}, pub'[p].event \in {0, ev},
           \A q \in Publishers : q # p => pub'[q] = pub[q] /\ pub[q].event # ev,
           \A d \in Deliveries : d.event # ev => task'[d] = task[d],
           \A e \in Events : e # ev => matched'[e] = matched[e],
           fellBack' \ {ev} = fellBack \ {ev}, timedOut \subseteq timedOut',
           \A d \in Deliveries : d.event = ev => TaskFits(d)',
           CallFits(p)', pub'[p].event = 0 => Settled(ev)'
    PROVE  PublishInv'
  <1>0. MaxEvents \in Nat /\ events \in 0 .. MaxEvents
    BY BoundsAssumption DEF Typed, CountsTyped
  <1>1. fellBack' \subseteq 1 .. events'
    <2>1. 1 .. events \subseteq 1 .. events'
      BY <1>0
    <2>2. \A x \in fellBack' : x = ev \/ x \in fellBack
      OBVIOUS
    <2> QED  BY <2>1, <2>2 DEF PublishInv
  <1>2. ASSUME NEW d \in Deliveries, d.event # ev PROVE TaskFits(d)'
    <2>1. TaskFits(d) /\ task'[d] = task[d]
      BY <1>2 DEF PublishInv
    <2>2. d.event \in 1 .. events => d.event \in 1 .. events'
      BY <1>0
    <2> QED  BY <1>2, <2>1, <2>2 DEF TaskFits, Started
  <1>3. ASSUME NEW q \in Publishers, q # p PROVE CallFits(q)'
    <2> DEFINE e == pub[q].event
    <2>1. CallFits(q) /\ pub'[q] = pub[q] /\ e # ev
      BY <1>3 DEF PublishInv
    <2>2. CASE pub[q].at = "idle"
      BY <2>1, <2>2 DEF CallFits, At
    <2>3. CASE pub[q].at # "idle"
      <3>1. e \in Events /\ e \in 1 .. events /\ e \in 1 .. events'
        BY <2>1, <2>3, <1>0 DEF CallFits, At, Events
      <3>2. matched'[e] = matched[e] /\ (e \in fellBack' <=> e \in fellBack)
            /\ (e \in timedOut => e \in timedOut')
        BY <2>1, <3>1
      <3>3. ASSUME NEW i \in matched[e]
            PROVE  task'[Pooled(e, i)] = task[Pooled(e, i)] /\ task'[Direct(e, i)] = task[Direct(e, i)]
        BY <2>1, <3>1, DeliveriesAre DEF Typed, MatchedTyped
      <3> QED  BY <2>1, <3>1, <3>2, <3>3 DEF CallFits, At, Started
    <2> QED  BY <2>2, <2>3
  <1>4. ASSUME NEW e \in 1 .. events', e # ev, ~Publishing(e)' PROVE Settled(e)'
    <2>1. e \in 1 .. events /\ e \in Events /\ e # 0
      BY <1>0, <1>4 DEF Events
    <2>2. ~Publishing(e)
      BY <1>4, <2>1 DEF Publishing
    <2>3. Settled(e)
      BY <2>1, <2>2 DEF PublishInv
    <2>4. ASSUME NEW i \in matched[e]
          PROVE  task'[Pooled(e, i)] = task[Pooled(e, i)] /\ task'[Direct(e, i)] = task[Direct(e, i)]
      BY <1>4, <2>1, DeliveriesAre DEF Typed, MatchedTyped
    <2>5. matched'[e] = matched[e]
      BY <1>4, <2>1
    <2>6. e \in fellBack => e \in fellBack'
      BY <1>4
    <2> QED  BY <2>3, <2>4, <2>5, <2>6 DEF Settled, Started
  <1>5. ~Publishing(ev)' => Settled(ev)'
    BY DEF Publishing
  <1>6. ASSUME NEW q \in Publishers, NEW r \in Publishers,
               pub'[q].event = pub'[r].event, pub'[q].event # 0
        PROVE  q = r
    <2>1. CASE q = p \/ r = p
      BY <1>6, <2>1
    <2>2. CASE q # p /\ r # p
      BY <1>6, <2>2 DEF PublishInv
    <2> QED  BY <2>1, <2>2
  <1> QED  BY <1>1, <1>2, <1>3, <1>4, <1>5, <1>6 DEF PublishInv

\* What is known of a publish_event that is under way.
LEMMA ActiveCall ==
    ASSUME Typed, PublishInv, NEW p \in Publishers, pub[p].at # "idle"
    PROVE  LET ev == pub[p].event IN
           /\ ev \in Events /\ ev \in 1 .. events /\ ev # 0 /\ events \in Nat
           /\ pub[p].todo \subseteq matched[ev] /\ matched[ev] \subseteq Ids
           /\ \A q \in Publishers : q # p => pub[q].event # ev
           /\ \A i \in matched[ev] : /\ Pooled(ev, i) \in Deliveries /\ Pooled(ev, i).event = ev
                                     /\ Direct(ev, i) \in Deliveries /\ Direct(ev, i).event = ev
           /\ CallFits(p) /\ \A d \in Deliveries : TaskFits(d)
           /\ pub[p] \in Calls /\ \A d \in Deliveries : task[d] \in Tasks
  <1> DEFINE ev == pub[p].event
  <1>1. CallFits(p) /\ \A d \in Deliveries : TaskFits(d)
    BY DEF PublishInv
  <1>2. ev \in 1 .. events /\ pub[p].todo \subseteq matched[ev]
    BY <1>1 DEF CallFits, At
  <1>3. ev \in Events /\ events \in Nat /\ ev # 0
    BY <1>2, BoundsAssumption DEF Typed, CountsTyped, Events
  <1>4. matched[ev] \subseteq Ids
    BY <1>3 DEF Typed, MatchedTyped
  <1>5. \A q \in Publishers : q # p => pub[q].event # ev
    BY <1>3 DEF PublishInv
  <1>6. \A i \in matched[ev] : /\ Pooled(ev, i) \in Deliveries /\ Pooled(ev, i).event = ev
                               /\ Direct(ev, i) \in Deliveries /\ Direct(ev, i).event = ev
    BY <1>3, <1>4, DeliveriesAre
  <1>7. pub[p] \in Calls /\ \A d \in Deliveries : task[d] \in Tasks
    BY DEF Typed, PubTyped, TaskTyped
  <1> QED  BY <1>1, <1>2, <1>3, <1>4, <1>5, <1>6, <1>7

\* OneCallGoesOn for a call that is under way
LEMMA ThisCallGoesOn ==
    ASSUME Typed, PublishInv, NEW p \in Publishers, pub[p].at # "idle",
           NEW ev, ev = pub[p].event,
           NEW c \in Calls, pub' = [pub EXCEPT ![p] = c], c.event \in {0, ev},
           UNCHANGED <<events, matched>>, timedOut \subseteq timedOut',
           fellBack' \ {ev} = fellBack \ {ev},
           \A d \in Deliveries : d.event # ev => task'[d] = task[d],
           \A d \in Deliveries : d.event = ev => TaskFits(d)',
           CallFits(p)', c.event = 0 => Settled(ev)'
    PROVE  PublishInv'
  <1>1. /\ ev \in Events /\ ev \in 1 .. events /\ events \in Nat
        /\ \A q \in Publishers : q # p => pub[q].event # ev
    BY ActiveCall
  <1>2. pub'[p] = c /\ \A q \in Publishers : q # p => pub'[q] = pub[q]
    BY DEF Typed, PubTyped
  <1>3. events' \in Nat /\ events <= events' /\ ev \in 1 .. events'
    BY <1>1
  <1> QED  BY <1>1, <1>2, <1>3, OneCallGoesOn

\* Every step keeps what is known of the calls and of the events they are for.
LEMMA PublishStep ==
    ASSUME Typed, Typed', PublishInv, DoingInv, [Next]_vars
    PROVE  PublishInv'
  <1>t. ASSUME NEW d \in Deliveries PROVE task[d] \in Tasks /\ task'[d] \in Tasks
    BY DEF Typed, TaskTyped
  <1>3. ASSUME NEW p \in Publishers, NEW type \in Types, Publish(p, type) PROVE PublishInv'
    <2>0. PICK ev, found : ev = events + 1 /\ found = {i \in DOMAIN subs : Matches(subs[i], type)}
      OBVIOUS
    <2>1. /\ pub[p].at = "idle" /\ events' = ev /\ matched' = [matched EXCEPT ![ev] = found]
          /\ UNCHANGED <<fellBack, timedOut>>
      BY <1>3, <2>0 DEF Publish, At
    <2>2. pub[p].event = 0 /\ ev \in Events /\ ev \in 1 .. events' /\ events' \in Nat
          /\ events \in Nat /\ ev \notin 1 .. events
      BY <1>3, <2>0, <2>1, BoundsAssumption DEF Publish, Typed, PubTyped, CountsTyped, Events
    <2>3. \A q \in Publishers : pub[q].event # ev
      BY <2>2 DEF PublishInv, CallFits, At, Typed, PubTyped
    <2>4. matched'[ev] = found
      BY <2>1, <2>2 DEF Typed, MatchedTyped
    <2>5. ev \notin fellBack
      BY <2>2 DEF PublishInv
    <2>6. ASSUME NEW d \in Deliveries, d.event = ev PROVE task[d].at = "none" /\ task[d].tries = 0
      BY <2>2, <2>6 DEF PublishInv, TaskFits
    <2>8. /\ events <= events' /\ \A e \in 1 .. events' : e # ev => e \in 1 .. events
          /\ \A q \in Publishers : q # p => pub'[q] = pub[q] /\ pub[q].event # ev
          /\ \A e \in Events : e # ev => matched'[e] = matched[e]
          /\ fellBack' \ {ev} = fellBack \ {ev} /\ timedOut \subseteq timedOut'
      BY <1>3, <2>0, <2>1, <2>2, <2>3 DEF Publish, Typed, PubTyped, MatchedTyped
    <2>7. CASE found = {} /\ UNCHANGED <<pub, task>>
      <3>1. \A d \in Deliveries : d.event = ev => TaskFits(d)'
        BY <2>6, <2>7 DEF TaskFits
      <3>2. pub'[p].at = "idle" /\ pub'[p].event = 0
        BY <2>1, <2>2, <2>7
      <3>3. CallFits(p)'
        BY <3>2 DEF CallFits, At
      <3>4. Settled(ev)'
        BY <2>4, <2>7 DEF Settled
      <3> QED  BY <2>2, <2>8, <3>1, <3>2, <3>3, <3>4, <2>7, OneCallGoesOn
    <2>9. CASE /\ pub' = [pub EXCEPT ![p] = [at |-> "submit", event |-> ev,
                                             todo |-> found, doing |-> None]]
               /\ task' = [d \in Deliveries |-> IF d.event = ev /\ d.to \in found
                                                THEN [task[d] EXCEPT !.sub = subs[d.to]]
                                                ELSE task[d]]
      <3>1. pub'[p].at = "submit" /\ pub'[p].event = ev /\ pub'[p].todo = found
        BY <2>9 DEF Typed, PubTyped
      <3>2. ASSUME NEW d \in Deliveries
            PROVE  /\ d.event # ev => task'[d] = task[d]
                   /\ task'[d].at = task[d].at /\ task'[d].tries = task[d].tries
        BY <1>t, <2>9 DEF Tasks
      <3>3. \A d \in Deliveries : d.event = ev => TaskFits(d)'
        BY <2>6, <3>2 DEF TaskFits
      <3>4. found \subseteq Ids
        BY <2>0 DEF Typed, SubsTyped
      <3>5. ASSUME NEW i \in found PROVE task'[Pooled(ev, i)].at = "none"
        BY <2>2, <2>6, <3>2, <3>4, DeliveriesAre
      <3>6. CallFits(p)'
        BY <2>1, <2>2, <2>4, <2>5, <3>1, <3>5 DEF CallFits, At
      <3> QED  BY <2>2, <2>8, <3>1, <3>2, <3>3, <3>6, OneCallGoesOn
    <2> QED  BY <1>3, <2>0, <2>7, <2>9 DEF Publish
  <1>4. ASSUME NEW p \in Publishers, Submit(p) PROVE PublishInv'
    <2>0. PICK ev : ev = pub[p].event
      OBVIOUS
    <2>1. PICK i \in pub[p].todo :
            /\ task' = [task EXCEPT ![Pooled(ev, i)].at = "queued"]
            /\ pub' = [pub EXCEPT ![p].todo = @ \ {i},
                                  ![p].at = IF pub[p].todo = {i} THEN "wait" ELSE "submit"]
      BY <1>4, <2>0 DEF Submit
    <2>2. pub[p].at = "submit" /\ UNCHANGED <<events, matched, fellBack, timedOut>>
      BY <1>4 DEF Submit, At, bounds, history
    <2>3. /\ ev \in Events /\ ev \in 1 .. events /\ ev # 0
          /\ pub[p].todo \subseteq matched[ev] /\ matched[ev] \subseteq Ids
          /\ \A d \in Deliveries : TaskFits(d)
          /\ ev \notin fellBack
          /\ \A j \in matched[ev] : task[Pooled(ev, j)].at = "none" <=> j \in pub[p].todo
      BY <2>0, <2>2, ActiveCall DEF CallFits, At
    <2>4. Pooled(ev, i) \in Deliveries /\ Pooled(ev, i).event = ev /\ Pooled(ev, i).by = "pool"
          /\ \A j \in matched[ev] : /\ Pooled(ev, j) \in Deliveries
                                    /\ j # i => Pooled(ev, j) # Pooled(ev, i)
      BY <2>3, DeliveriesAre
    <2>5. /\ task'[Pooled(ev, i)].at = "queued" /\ task'[Pooled(ev, i)].tries = task[Pooled(ev, i)].tries
          /\ \A d \in Deliveries : d # Pooled(ev, i) => task'[d] = task[d]
      BY <1>t, <2>1, <2>4 DEF Typed, TaskTyped, Tasks
    <2>6. PICK at \in {"wait", "submit"} :
            /\ pub' = [pub EXCEPT ![p] = [pub[p] EXCEPT !.todo = @ \ {i}, !.at = at]]
            /\ at = "wait" => pub[p].todo = {i}
      BY <2>1 DEF Typed, PubTyped
    <2> DEFINE c == [pub[p] EXCEPT !.todo = pub[p].todo \ {i}, !.at = at]
    <2>7. c \in Calls /\ c.event = ev /\ c.at = at /\ c.todo = pub[p].todo \ {i} /\ pub'[p] = c
      BY <2>0, <2>6 DEF Typed, PubTyped, Calls
    <2> HIDE DEF c
    <2>8. \A d \in Deliveries : d.event = ev => TaskFits(d)'
      BY <2>2, <2>3, <2>4, <2>5 DEF TaskFits, Started
    <2>9. CallFits(p)'
      <3>1. /\ pub'[p].at = at /\ pub'[p].event = ev /\ pub'[p].todo = pub[p].todo \ {i}
            /\ matched' = matched /\ fellBack' = fellBack /\ events' = events
        BY <2>2, <2>7
      <3>2. ASSUME NEW j \in matched[ev]
            PROVE  task'[Pooled(ev, j)].at = "none" <=> j \in pub[p].todo \ {i}
        BY <2>3, <2>4, <2>5
      <3> QED  BY <2>3, <2>6, <3>1, <3>2 DEF CallFits, At
    <2> QED  BY <2>0, <2>2, <2>3, <2>4, <2>5, <2>6, <2>7, <2>8, <2>9, ThisCallGoesOn DEF c
  <1>5. ASSUME NEW p \in Publishers, SubmitFails(p) PROVE PublishInv'
    <2>0. PICK ev : ev = pub[p].event
      OBVIOUS
    <2>1. PICK i \in pub[p].todo :
            task' = IF pub[p].todo = matched[ev] THEN task
                    ELSE [task EXCEPT ![Pooled(ev, i)].at = "queued"]
      BY <1>5, <2>0 DEF SubmitFails
    <2>2. /\ pub[p].at = "submit" /\ UNCHANGED <<events, matched, timedOut>>
          /\ fellBack' = fellBack \union {ev}
          /\ pub' = [pub EXCEPT ![p].at = "fallback", ![p].todo = matched[ev]]
      BY <1>5, <2>0 DEF SubmitFails, At, bounds
    <2>3. /\ ev \in Events /\ ev \in 1 .. events /\ ev # 0
          /\ pub[p].todo \subseteq matched[ev] /\ matched[ev] \subseteq Ids
          /\ \A d \in Deliveries : TaskFits(d)
          /\ ev \notin fellBack
          /\ \A j \in matched[ev] : task[Pooled(ev, j)].at = "none" <=> j \in pub[p].todo
      BY <2>0, <2>2, ActiveCall DEF CallFits, At
    <2>4. /\ Pooled(ev, i) \in Deliveries /\ Pooled(ev, i).event = ev /\ Pooled(ev, i).by = "pool"
          /\ \A j \in matched[ev] : /\ Direct(ev, j) \in Deliveries /\ Direct(ev, j).event = ev
                                    /\ Direct(ev, j).by = "caller"
      BY <2>3, DeliveriesAre
    <2>5. /\ task'[Pooled(ev, i)].at \in {"none", "queued"}
          /\ task'[Pooled(ev, i)].tries = task[Pooled(ev, i)].tries
          /\ \A d \in Deliveries : d # Pooled(ev, i) => task'[d] = task[d]
      BY <1>t, <2>1, <2>3, <2>4 DEF Typed, TaskTyped, Tasks
    <2> DEFINE c == [pub[p] EXCEPT !.at = "fallback", !.todo = matched[ev]]
    <2>6. /\ c \in Calls /\ c.event = ev /\ c.at = "fallback" /\ c.todo = matched[ev]
          /\ pub' = [pub EXCEPT ![p] = c] /\ pub'[p] = c
      <3>1. pub[p] \in Calls /\ matched[ev] \in SUBSET Ids
        BY <2>3 DEF Typed, PubTyped
      <3>2. c \in Calls /\ c.event = ev /\ c.at = "fallback" /\ c.todo = matched[ev]
        BY <2>0, <3>1 DEF Calls
      <3>3. pub' = [pub EXCEPT ![p] = c] /\ pub'[p] = c
        BY <2>2 DEF Typed, PubTyped
      <3> QED  BY <3>2, <3>3
    <2> HIDE DEF c
    <2>7. \A d \in Deliveries : d.event = ev => TaskFits(d)'
      BY <2>2, <2>3, <2>4, <2>5 DEF TaskFits, Started
    <2>8. CallFits(p)'
      <3>1. /\ pub'[p].at = "fallback" /\ pub'[p].event = ev /\ pub'[p].todo = matched'[ev]
            /\ events' = events /\ ev \in fellBack'
        BY <2>2, <2>6
      <3>2. ASSUME NEW j \in matched[ev] PROVE task'[Direct(ev, j)].at = "none"
        <4>1. task[Direct(ev, j)].at = "none"
          BY <2>3, <2>4 DEF TaskFits
        <4>2. Direct(ev, j) # Pooled(ev, i)
          BY <2>4
        <4> QED  BY <2>4, <2>5, <4>1, <4>2
      <3>3. matched' = matched
        BY <2>2
      <3> QED  BY <2>3, <3>1, <3>2, <3>3 DEF CallFits, At
    <2>9. fellBack' \ {ev} = fellBack \ {ev} /\ timedOut \subseteq timedOut' /\ pub[p].at # "idle"
      BY <2>2
    <2>10. \A d \in Deliveries : d.event # ev => task'[d] = task[d]
      BY <2>4, <2>5
    <2> QED  BY <2>0, <2>2, <2>3, <2>6, <2>7, <2>8, <2>9, <2>10, ThisCallGoesOn
  <1>6. ASSUME NEW p \in Publishers, AllDone(p) PROVE PublishInv'
    <2>0. PICK ev : ev = pub[p].event
      OBVIOUS
    <2>1. /\ pub[p].at = "wait" /\ UNCHANGED <<task, events, matched, fellBack, timedOut>>
          /\ \A i \in matched[ev] : Ended(Pooled(ev, i))
          /\ pub' = [pub EXCEPT ![p] = NotPublishing]
      BY <1>6, <2>0 DEF AllDone, At, bounds, history
    <2>2. /\ \A d \in Deliveries : TaskFits(d)
          /\ \A i \in matched[ev] : Pooled(ev, i) \in Deliveries /\ Pooled(ev, i).event = ev
      BY <2>0, <2>1, ActiveCall
    <2>3. Settled(ev)'
      <3>1. ASSUME NEW i \in matched[ev], ~Started(Pooled(ev, i))
            PROVE  /\ ev \in timedOut /\ task[Pooled(ev, i)].at = "cancelled"
                   /\ task[Pooled(ev, i)].tries = 0
        BY <2>1, <2>2, <3>1 DEF TaskFits, Ended, Started
      <3> QED  BY <2>1, <3>1 DEF Settled, Started
    <2>4. \A d \in Deliveries : TaskFits(d)'
      BY <2>1, <2>2 DEF TaskFits, Started
    <2>5. NotPublishing \in Calls /\ NotPublishing.at = "idle" /\ NotPublishing.event = 0
      BY BoundsAssumption DEF NotPublishing, Calls
    <2>6. CallFits(p)'
      BY <2>1, <2>5 DEF CallFits, At, Typed, PubTyped
    <2> QED  BY <2>0, <2>1, <2>3, <2>4, <2>5, <2>6, ThisCallGoesOn
  <1>7. ASSUME NEW p \in Publishers, TimeOut(p) PROVE PublishInv'
    <2>0. PICK ev : ev = pub[p].event
      OBVIOUS
    <2>1. /\ pub[p].at = "wait" /\ UNCHANGED <<task, events, matched, fellBack>>
          /\ timedOut' = timedOut \union {ev}
          /\ pub' = [pub EXCEPT ![p].at = "cancel", ![p].todo = matched[ev]]
      BY <1>7, <2>0 DEF TimeOut, At, bounds
    <2>2. /\ ev \in 1 .. events /\ matched[ev] \subseteq Ids
          /\ \A d \in Deliveries : TaskFits(d)
          /\ \A j \in matched[ev] : task[Pooled(ev, j)].at # "none"
      BY <2>0, <2>1, ActiveCall DEF CallFits, At
    <2>3. \A d \in Deliveries : TaskFits(d)'
      BY <2>1, <2>2 DEF TaskFits, Started
    <2> DEFINE c == [pub[p] EXCEPT !.at = "cancel", !.todo = matched[ev]]
    <2>4. /\ c \in Calls /\ c.event = ev /\ c.at = "cancel" /\ c.todo = matched[ev]
          /\ pub' = [pub EXCEPT ![p] = c] /\ pub'[p] = c
      <3>1. pub[p] \in Calls /\ matched[ev] \in SUBSET Ids
        BY <2>2 DEF Typed, PubTyped
      <3>2. c \in Calls /\ c.event = ev /\ c.at = "cancel" /\ c.todo = matched[ev]
        BY <2>0, <3>1 DEF Calls
      <3>3. pub' = [pub EXCEPT ![p] = c] /\ pub'[p] = c
        BY <2>1 DEF Typed, PubTyped
      <3> QED  BY <3>2, <3>3
    <2> HIDE DEF c
    <2>5. CallFits(p)'
      BY <2>1, <2>2, <2>4 DEF CallFits, At
    <2>6. ev # 0 /\ timedOut \subseteq timedOut' /\ pub[p].at # "idle"
      BY <2>1, <2>2
    <2> QED  BY <2>0, <2>1, <2>3, <2>4, <2>5, <2>6, ThisCallGoesOn
  <1>8. ASSUME NEW p \in Publishers, Cancel(p) PROVE PublishInv'
    <2>0. PICK ev : ev = pub[p].event
      OBVIOUS
    <2>1. PICK i \in pub[p].todo :
            /\ task' = IF task[Pooled(ev, i)].at = "queued"
                       THEN [task EXCEPT ![Pooled(ev, i)].at = "cancelled"] ELSE task
            /\ pub' = IF pub[p].todo = {i} THEN [pub EXCEPT ![p] = NotPublishing]
                      ELSE [pub EXCEPT ![p].todo = @ \ {i}]
      BY <1>8, <2>0 DEF Cancel
    <2>2. pub[p].at = "cancel" /\ UNCHANGED <<events, matched, fellBack, timedOut>>
      BY <1>8 DEF Cancel, At, bounds, history
    <2>3. /\ ev \in Events /\ ev \in 1 .. events /\ ev # 0 /\ ev \in timedOut
          /\ pub[p].todo \subseteq matched[ev] /\ matched[ev] \subseteq Ids
          /\ \A d \in Deliveries : TaskFits(d)
          /\ \A j \in matched[ev] : /\ task[Pooled(ev, j)].at # "none"
                                    /\ task[Pooled(ev, j)].at = "queued" => j \in pub[p].todo
      BY <2>0, <2>2, ActiveCall DEF CallFits, At
    <2>4. Pooled(ev, i) \in Deliveries /\ Pooled(ev, i).event = ev /\ Pooled(ev, i).by = "pool"
          /\ \A j \in matched[ev] : /\ Pooled(ev, j) \in Deliveries
                                    /\ j # i => Pooled(ev, j) # Pooled(ev, i)
      BY <2>3, DeliveriesAre
    <2>5. /\ task'[Pooled(ev, i)].at = IF task[Pooled(ev, i)].at = "queued" THEN "cancelled"
                                       ELSE task[Pooled(ev, i)].at
          /\ task'[Pooled(ev, i)].tries = task[Pooled(ev, i)].tries
          /\ \A d \in Deliveries : d # Pooled(ev, i) => task'[d] = task[d]
      BY <1>t, <2>1, <2>4 DEF Typed, TaskTyped, Tasks
    <2>6. \A d \in Deliveries : d.event = ev => TaskFits(d)'
      BY <2>2, <2>3, <2>4, <2>5 DEF TaskFits, Started
    <2>7. \A d \in Deliveries : d.event # ev => task'[d] = task[d]
      BY <2>4, <2>5
    <2>8. \A j \in matched[ev] : /\ task'[Pooled(ev, j)].at # "none"
                                 /\ task'[Pooled(ev, j)].at = "queued" => j \in pub[p].todo \ {i}
      BY <2>3, <2>4, <2>5
    <2>9. CASE pub[p].todo = {i}
      <3>1. NotPublishing \in Calls /\ NotPublishing.at = "idle" /\ NotPublishing.event = 0
        BY BoundsAssumption DEF NotPublishing, Calls
      <3>2. pub' = [pub EXCEPT ![p] = NotPublishing]
        BY <2>1, <2>9
      <3>3. CallFits(p)'
        BY <3>1, <3>2 DEF CallFits, At, Typed, PubTyped
      <3>4. Settled(ev)'
        <4>1. ASSUME NEW j \in matched[ev], ~Started(Pooled(ev, j))'
              PROVE  (task[Pooled(ev, j)].at = "cancelled" /\ task[Pooled(ev, j)].tries = 0)'
          <5>1. task'[Pooled(ev, j)].at = "cancelled"
            BY <1>t, <2>4, <2>8, <2>9, <4>1 DEF Started, Tasks, Stages
          <5> QED  BY <2>4, <2>6, <5>1, <2>3, DeliveriesAre DEF TaskFits
        <4> QED  BY <2>2, <2>3, <4>1 DEF Settled
      <3> QED  BY <2>0, <2>2, <2>6, <2>7, <3>1, <3>2, <3>3, <3>4, ThisCallGoesOn
    <2>10. CASE pub[p].todo # {i}
      <3> DEFINE c == [pub[p] EXCEPT !.todo = pub[p].todo \ {i}]
      <3>1. /\ c \in Calls /\ c.event = ev /\ c.at = "cancel" /\ c.todo = pub[p].todo \ {i}
            /\ pub' = [pub EXCEPT ![p] = c] /\ pub'[p] = c
        BY <2>0, <2>1, <2>2, <2>10 DEF Typed, PubTyped, Calls
      <3> HIDE DEF c
      <3>2. CallFits(p)'
        BY <2>2, <2>3, <2>8, <3>1 DEF CallFits, At
      <3> QED  BY <2>0, <2>2, <2>3, <2>6, <2>7, <3>1, <3>2, ThisCallGoesOn
    <2> QED  BY <2>9, <2>10
  <1>9. ASSUME NEW p \in Publishers, FallBackTo(p) PROVE PublishInv'
    <2>0. PICK ev : ev = pub[p].event
      OBVIOUS
    <2>1. pub[p].at = "fallback" /\ UNCHANGED <<events, matched, fellBack, timedOut>>
      BY <1>9 DEF FallBackTo, At, bounds, history
    <2>2. /\ ev \in Events /\ ev \in 1 .. events /\ ev # 0 /\ ev \in fellBack
          /\ pub[p].todo \subseteq matched[ev] /\ matched[ev] \subseteq Ids
          /\ \A d \in Deliveries : TaskFits(d)
          /\ \A j \in matched[ev] : IF j \in pub[p].todo THEN task[Direct(ev, j)].at = "none"
                                    ELSE Started(Direct(ev, j))
      BY <2>0, <2>1, ActiveCall DEF CallFits, At
    <2>3. CASE pub[p].todo = {} /\ pub' = [pub EXCEPT ![p] = NotPublishing] /\ UNCHANGED task
      <3>1. NotPublishing \in Calls /\ NotPublishing.at = "idle" /\ NotPublishing.event = 0
        BY BoundsAssumption DEF NotPublishing, Calls
      <3>2. \A d \in Deliveries : TaskFits(d)'
        BY <2>1, <2>2, <2>3 DEF TaskFits, Started
      <3>3. CallFits(p)'
        BY <2>3, <3>1 DEF CallFits, At, Typed, PubTyped
      <3>4. Settled(ev)'
        BY <2>1, <2>2, <2>3 DEF Settled, Started
      <3> QED  BY <2>0, <2>1, <2>3, <3>1, <3>2, <3>3, <3>4, ThisCallGoesOn
    <2>4. CASE \E i \in pub[p].todo :
                 /\ pub' = [pub EXCEPT ![p].todo = @ \ {i},
                                       ![p].doing = Direct(pub[p].event, i)]
                 /\ task' = [task EXCEPT ![Direct(pub[p].event, i)].at = "trying"]
      <3>1. PICK i \in pub[p].todo :
              /\ pub' = [pub EXCEPT ![p].todo = @ \ {i}, ![p].doing = Direct(ev, i)]
              /\ task' = [task EXCEPT ![Direct(ev, i)].at = "trying"]
        BY <2>0, <2>4
      <3>2. /\ Direct(ev, i) \in Deliveries /\ Direct(ev, i).event = ev
            /\ \A j \in matched[ev] : /\ Direct(ev, j) \in Deliveries
                                      /\ j # i => Direct(ev, j) # Direct(ev, i)
        BY <2>2, DeliveriesAre
      <3>3. /\ task'[Direct(ev, i)].at = "trying"
            /\ \A d \in Deliveries : d # Direct(ev, i) => task'[d] = task[d]
        BY <1>t, <3>1, <3>2 DEF Typed, TaskTyped, Tasks
      <3> DEFINE c == [pub[p] EXCEPT !.todo = pub[p].todo \ {i}, !.doing = Direct(ev, i)]
      <3>4. /\ c \in Calls /\ c.event = ev /\ c.at = "fallback" /\ c.todo = pub[p].todo \ {i}
            /\ pub' = [pub EXCEPT ![p] = c] /\ pub'[p] = c
        <4>1. pub[p] \in Calls
          BY DEF Typed, PubTyped
        <4>2. c \in Calls /\ c.event = ev /\ c.at = "fallback" /\ c.todo = pub[p].todo \ {i}
          BY <2>0, <2>1, <3>2, <4>1 DEF Calls
        <4>3. pub' = [pub EXCEPT ![p] = c] /\ pub'[p] = c
          BY <3>1 DEF Typed, PubTyped
        <4> QED  BY <4>2, <4>3
      <3> HIDE DEF c
      <3>5. \A d \in Deliveries : d.event = ev => TaskFits(d)'
        BY <2>1, <2>2, <3>2, <3>3 DEF TaskFits, Started
      <3>6. CallFits(p)'
        <4>1. ASSUME NEW j \in matched[ev]
              PROVE  IF j \in pub[p].todo \ {i} THEN task'[Direct(ev, j)].at = "none"
                     ELSE Started(Direct(ev, j))'
          <5>1. CASE j = i
            BY <3>3, <5>1 DEF Started
          <5>2. CASE j # i
            BY <2>2, <3>2, <3>3, <5>2 DEF Started
          <5> QED  BY <5>1, <5>2
        <4> QED  BY <2>1, <2>2, <3>4, <4>1 DEF CallFits, At
      <3>7. \A d \in Deliveries : d.event # ev => task'[d] = task[d]
        BY <3>2, <3>3
      <3> QED  BY <2>0, <2>1, <2>2, <3>4, <3>5, <3>6, <3>7, ThisCallGoesOn
    <2> QED  BY <1>9, <2>3, <2>4 DEF FallBackTo
  <1>10. ASSUME NEW d \in Deliveries, Take(d) PROVE PublishInv'
    <2>1. UNCHANGED <<pub, events, matched, fellBack, timedOut>>
      BY <1>10 DEF Take, bounds, history
    <2>2. /\ task[d].at = "queued" /\ task'[d].at = "trying"
          /\ \A c \in Deliveries : c # d => task'[c] = task[c]
      BY <1>t, <1>10 DEF Take, Typed, TaskTyped, Tasks
    <2>3. ~Started(d) /\ \A c \in Deliveries : c # d => (Started(c)' <=> Started(c))
      BY <2>2 DEF Started
    <2> QED  BY <2>1, <2>2, <2>3, DeliveriesGoOn
  <1>11. ASSUME NEW d \in Deliveries, Delivered(d) PROVE PublishInv'
    <2>1. UNCHANGED <<pub, events, matched, fellBack, timedOut>>
      BY <1>11 DEF Delivered, bounds
    <2>2. /\ task[d].at = "trying" /\ task'[d].at = "delivered"
          /\ \A c \in Deliveries : c # d => task'[c] = task[c]
      BY <1>t, <1>11 DEF Delivered, Typed, TaskTyped, Tasks
    <2>3. Started(d)' /\ \A c \in Deliveries : c # d => (Started(c)' <=> Started(c))
      BY <2>2 DEF Started
    <2> QED  BY <2>1, <2>2, <2>3, DeliveriesGoOn
  <1>12. ASSUME NEW d \in Deliveries, AttemptFails(d) \/ AnswerLost(d) PROVE PublishInv'
    <2>1. /\ UNCHANGED <<pub, events, matched, fellBack, timedOut>>
          /\ task[d].at = "trying" /\ Retry(d)
      BY <1>12 DEF AttemptFails, AnswerLost, bounds, history
    <2>2. /\ task'[d].at \in {"trying", "exhausted"}
          /\ \A c \in Deliveries : c # d => task'[c] = task[c]
      BY <2>1, Retried DEF Typed
    <2>3. Started(d)' /\ \A c \in Deliveries : c # d => (Started(c)' <=> Started(c))
      BY <2>2 DEF Started
    <2> QED  BY <2>1, <2>2, <2>3, DeliveriesGoOn
  <1>13. ASSUME NEW d \in Deliveries, DeadLetter(d) PROVE PublishInv'
    <2>1. UNCHANGED <<pub, events, matched, fellBack, timedOut>>
      BY <1>13 DEF DeadLetter, bounds
    <2>2. /\ task[d].at = "exhausted" /\ task'[d].at = "dead"
          /\ \A c \in Deliveries : c # d => task'[c] = task[c]
      BY <1>t, <1>13 DEF DeadLetter, Typed, TaskTyped, Tasks
    <2>3. Started(d)' /\ \A c \in Deliveries : c # d => (Started(c)' <=> Started(c))
      BY <2>2 DEF Started
    <2> QED  BY <2>1, <2>2, <2>3, DeliveriesGoOn
  <1>14. CASE UNCHANGED <<pub, task, events, matched, fellBack, timedOut>>
    BY <1>14, DeliveriesGoOn DEF Started
  <1>16. ASSUME NEW d \in Deliveries, Raises(d) PROVE PublishInv'
    <2>1. UNCHANGED <<pub, events, matched, fellBack, timedOut>>
      BY <1>16 DEF Raises, bounds, history
    <2>2. /\ task[d].at = "trying" /\ task'[d].at = "raised" /\ task'[d].tries = 0
          /\ \A c \in Deliveries : c # d => task'[c] = task[c]
      BY <1>t, <1>16 DEF Raises, Typed, TaskTyped, Tasks
    <2>3. Started(d)' /\ \A c \in Deliveries : c # d => (Started(c)' <=> Started(c))
      BY <2>2 DEF Started
    <2> QED  BY <2>1, <2>2, <2>3, DeliveriesGoOn
  <1>17. ASSUME NEW p \in Publishers, FallBackRaises(p) PROVE PublishInv'
    <2>0. PICK ev : ev = pub[p].event
      OBVIOUS
    <2>1. /\ pub[p].at = "fallback" /\ UNCHANGED <<task, events, matched, fellBack, timedOut>>
          /\ pub[p].doing # None /\ task[pub[p].doing].at = "raised"
          /\ pub' = [pub EXCEPT ![p] = NotPublishing]
      BY <1>17 DEF FallBackRaises, At, bounds, history
    <2>2. ev \in fellBack /\ \A d \in Deliveries : TaskFits(d)
      BY <2>0, <2>1, ActiveCall DEF CallFits, At
    <2>3. PICK i \in matched[ev] : task[Direct(ev, i)].at = "raised"
      BY <2>0, <2>1 DEF DoingInv
    <2>4. Settled(ev)'
      BY <2>1, <2>2, <2>3 DEF Settled
    <2>5. \A d \in Deliveries : TaskFits(d)'
      BY <2>1, <2>2 DEF TaskFits, Started
    <2>6. NotPublishing \in Calls /\ NotPublishing.at = "idle" /\ NotPublishing.event = 0
      BY BoundsAssumption DEF NotPublishing, Calls
    <2>7. CallFits(p)'
      BY <2>1, <2>6 DEF CallFits, At, Typed, PubTyped
    <2> QED  BY <2>0, <2>1, <2>4, <2>5, <2>6, <2>7, ThisCallGoesOn
  <1>15. UNCHANGED <<pub, task, events, matched, fellBack, timedOut>>
           \/ (\E p \in Publishers, type \in Types : Publish(p, type))
           \/ (\E p \in Publishers : GoOn(p) \/ SubmitFails(p))
           \/ (\E d \in Deliveries : Deliver(d))
    BY DEF Next, vars, bounds, history, Subscribe, Unsubscribe, ReplayTake, Replay, ReplayLook,
           ReplaySucceeds, ReplayAnswerLost, ReplayFails, PutBack, Clear
  <1> QED  BY <1>3, <1>4, <1>5, <1>6, <1>7, <1>8, <1>9, <1>10, <1>11, <1>12, <1>13, <1>14, <1>15,
              <1>16, <1>17 DEF GoOn, Deliver

\* A step of one call keeps what is known of the delivery its fallback is at.
LEMMA DoingMoves ==
    ASSUME PubTyped, DoingInv, UNCHANGED matched, NEW p \in Publishers, NEW c \in Calls,
           pub' = [pub EXCEPT ![p] = c],
           c.doing # None => /\ c.at # "idle" /\ c.event = pub[p].event
                             /\ \/ c.doing = pub[p].doing
                                \/ \E i \in matched[c.event] : c.doing = Direct(c.event, i)
    PROVE  DoingInv'
  <1>1. pub'[p] = c /\ \A q \in Publishers : q # p => pub'[q] = pub[q]
    BY DEF PubTyped
  <1> QED  BY <1>1 DEF DoingInv, At

\* Every step keeps it.
LEMMA DoingStep ==
    ASSUME Typed, Typed', PublishInv, DoingInv, [Next]_vars
    PROVE  DoingInv'
  <1>0. /\ NotPublishing \in Calls /\ NotPublishing.doing = None
        /\ \A p \in Publishers : pub[p] \in Calls /\ pub'[p] \in Calls
    BY BoundsAssumption DEF NotPublishing, Calls, Typed, PubTyped
  <1>1. ASSUME NEW p \in Publishers, NEW type \in Types, Publish(p, type) PROVE DoingInv'
    <2> DEFINE e == events + 1
    <2>1. /\ pub[p].at = "idle" /\ matched' = [matched EXCEPT ![e] = matched'[e]]
          /\ pub'[p] = pub[p] \/ pub'[p].doing = None
          /\ \A q \in Publishers : q # p => pub'[q] = pub[q]
      BY <1>1 DEF Publish, At, Typed, PubTyped, MatchedTyped
    <2>2. ASSUME NEW q \in Publishers, pub[q].at # "idle"
          PROVE  matched'[pub[q].event] = matched[pub[q].event]
      <3>1. pub[q].event \in Events /\ pub[q].event \in 1 .. events /\ events \in Nat
        BY <2>2, ActiveCall
      <3>2. pub[q].event # e
        BY <3>1
      <3> QED  BY <2>1, <3>1, <3>2 DEF Typed, MatchedTyped
    <2> QED  BY <2>1, <2>2 DEF DoingInv, At
  <1>2. ASSUME NEW p \in Publishers,
               \/ Submit(p) \/ SubmitFails(p) \/ AllDone(p) \/ TimeOut(p) \/ Cancel(p)
               \/ FallBackRaises(p)
        PROVE  DoingInv'
    <2>1. pub[p].at # "idle" /\ UNCHANGED matched
      BY <1>2 DEF Submit, SubmitFails, AllDone, TimeOut, Cancel, FallBackRaises, At, history
    <2>2. CASE pub' = [pub EXCEPT ![p] = NotPublishing]
      BY <1>0, <2>1, <2>2, DoingMoves DEF Typed
    <2>3. ASSUME /\ pub'[p].at # "idle" /\ pub'[p].event = pub[p].event
                 /\ pub'[p].doing = pub[p].doing
                 /\ \A q \in Publishers : q # p => pub'[q] = pub[q]
          PROVE  DoingInv'
      BY <2>1, <2>3 DEF DoingInv, At
    <2>4. CASE Submit(p)
      <3>1. PICK i \in pub[p].todo, at \in {"wait", "submit"} :
              pub' = [pub EXCEPT ![p].todo = @ \ {i}, ![p].at = at]
        BY <2>4 DEF Submit
      <3> QED  BY <1>0, <2>3, <3>1 DEF Typed, PubTyped, Calls
    <2>5. CASE SubmitFails(p)
      <3>1. pub' = [pub EXCEPT ![p].at = "fallback", ![p].todo = matched[pub[p].event]]
        BY <2>5 DEF SubmitFails
      <3> QED  BY <1>0, <2>3, <3>1 DEF Typed, PubTyped, Calls
    <2>6. CASE TimeOut(p)
      <3>1. pub' = [pub EXCEPT ![p].at = "cancel", ![p].todo = matched[pub[p].event]]
        BY <2>6 DEF TimeOut
      <3> QED  BY <1>0, <2>3, <3>1 DEF Typed, PubTyped, Calls
    <2>7. CASE \E i \in pub[p].todo : pub' = [pub EXCEPT ![p].todo = @ \ {i}]
      BY <1>0, <2>1, <2>3, <2>7 DEF Typed, PubTyped, Calls
    <2>8. CASE AllDone(p) \/ FallBackRaises(p)
      BY <2>2, <2>8 DEF AllDone, FallBackRaises
    <2>9. CASE Cancel(p)
      BY <2>2, <2>7, <2>9 DEF Cancel
    <2> QED  BY <1>2, <2>4, <2>5, <2>6, <2>8, <2>9
  <1>3. ASSUME NEW p \in Publishers, FallBackTo(p) PROVE DoingInv'
    <2>1. pub[p].at = "fallback" /\ UNCHANGED matched
      BY <1>3 DEF FallBackTo, At, history
    <2>2. CASE pub' = [pub EXCEPT ![p] = NotPublishing]
      BY <1>0, <2>1, <2>2, DoingMoves DEF Typed
    <2>3. CASE \E i \in pub[p].todo :
                 pub' = [pub EXCEPT ![p].todo = @ \ {i}, ![p].doing = Direct(pub[p].event, i)]
      <3>1. PICK i \in pub[p].todo :
              pub' = [pub EXCEPT ![p].todo = @ \ {i}, ![p].doing = Direct(pub[p].event, i)]
        BY <2>3
      <3>2. i \in matched[pub[p].event]
        BY <2>1, ActiveCall
      <3>3. /\ pub'[p].at # "idle" /\ pub'[p].event = pub[p].event
            /\ pub'[p].doing = Direct(pub[p].event, i)
            /\ \A q \in Publishers : q # p => pub'[q] = pub[q]
        BY <1>0, <2>1, <3>1 DEF Typed, PubTyped, Calls
      <3> QED  BY <2>1, <3>2, <3>3 DEF DoingInv, At
    <2> QED  BY <1>3, <2>2, <2>3 DEF FallBackTo
  <1>4. CASE UNCHANGED <<pub, matched>>
    BY <1>4 DEF DoingInv, At
  <1>5. \/ UNCHANGED <<pub, matched>>
        \/ \E p \in Publishers, type \in Types : Publish(p, type)
        \/ \E p \in Publishers : GoOn(p) \/ SubmitFails(p)
    BY DEF Next, vars, history, Subscribe, Unsubscribe, Deliver, Take, Raises, Delivered,
           AnswerLost, AttemptFails, DeadLetter, ReplayTake, Replay, ReplayLook, ReplaySucceeds,
           ReplayAnswerLost, ReplayFails, PutBack, Clear
  <1> QED  BY <1>1, <1>2, <1>3, <1>4, <1>5 DEF GoOn

\* What publish_event does by itself makes no outcome, and undoes none.
LEMMA OutcomesStay ==
    ASSUME Typed, PublishInv, NEW p \in Publishers,
           (\E type \in Types : Publish(p, type)) \/ GoOn(p) \/ SubmitFails(p)
    PROVE  /\ UNCHANGED <<dlq, replay, gone, accepted, lost>>
           /\ \A d \in Deliveries : /\ task'[d].at = "dead" <=> task[d].at = "dead"
                                    /\ task'[d].at = "delivered" <=> task[d].at = "delivered"
  <1>0. UNCHANGED <<dlq, replay, gone, accepted, lost>>
    BY DEF Publish, GoOn, Submit, SubmitFails, AllDone, TimeOut, Cancel, FallBackTo,
           FallBackRaises, bounds, history
  <1>t. task \in [Deliveries -> Tasks]
    BY DEF Typed, TaskTyped
  <1> DEFINE Stay == \A d \in Deliveries :
                        /\ task'[d].at = "dead" <=> task[d].at = "dead"
                        /\ task'[d].at = "delivered" <=> task[d].at = "delivered"
  <1> SUFFICES Stay
    BY <1>0
  <1>1. ASSUME NEW d \in Deliveries, NEW at \in {"queued", "cancelled", "trying"},
               task[d].at \in {"none", "queued"},
               task' = [task EXCEPT ![d].at = at] \/ UNCHANGED task
        PROVE  Stay
    <2>1. CASE task' = [task EXCEPT ![d].at = at]
      BY <1>t, <1>1, <2>1 DEF Tasks
    <2>2. CASE UNCHANGED task
      BY <2>2
    <2> QED  BY <1>1, <2>1, <2>2
  <1>3. ASSUME NEW type \in Types, Publish(p, type) PROVE Stay
    <2>1. CASE UNCHANGED task
      BY <2>1
    <2>2. CASE ~UNCHANGED task
      BY <1>t, <1>3, <2>2 DEF Publish, Tasks
    <2> QED  BY <2>1, <2>2
  <1>4. CASE Submit(p)
    <2>1. PICK i \in pub[p].todo : task' = [task EXCEPT ![Pooled(pub[p].event, i)].at = "queued"]
      BY <1>4 DEF Submit
    <2>2. pub[p].at = "submit"
      BY <1>4 DEF Submit, At
    <2>3. task[Pooled(pub[p].event, i)].at = "none" /\ Pooled(pub[p].event, i) \in Deliveries
      BY <2>2, ActiveCall DEF CallFits, At
    <2> QED  BY <1>1, <2>1, <2>3
  <1>5. CASE SubmitFails(p)
    <2>1. PICK i \in pub[p].todo :
            task' = IF pub[p].todo = matched[pub[p].event] THEN task
                    ELSE [task EXCEPT ![Pooled(pub[p].event, i)].at = "queued"]
      BY <1>5 DEF SubmitFails
    <2>2. pub[p].at = "submit"
      BY <1>5 DEF SubmitFails, At
    <2>3. task[Pooled(pub[p].event, i)].at = "none" /\ Pooled(pub[p].event, i) \in Deliveries
      BY <2>2, ActiveCall DEF CallFits, At
    <2> QED  BY <1>1, <2>1, <2>3
  <1>6. CASE AllDone(p) \/ TimeOut(p) \/ FallBackRaises(p)
    <2>1. UNCHANGED task
      BY <1>6 DEF AllDone, TimeOut, FallBackRaises
    <2> QED  BY <2>1
  <1>7. CASE Cancel(p)
    <2> DEFINE D(i) == Pooled(pub[p].event, i)
    <2>1. PICK i \in pub[p].todo :
            task' = IF task[D(i)].at = "queued" THEN [task EXCEPT ![D(i)].at = "cancelled"] ELSE task
      BY <1>7 DEF Cancel
    <2>2. pub[p].at = "cancel"
      BY <1>7 DEF Cancel, At
    <2>3. D(i) \in Deliveries
      BY <2>2, ActiveCall
    <2>4. CASE task[D(i)].at = "queued"
      BY <1>1, <2>1, <2>3, <2>4
    <2>5. CASE task[D(i)].at # "queued"
      BY <2>1, <2>5
    <2> QED  BY <2>4, <2>5
  <1>8. CASE FallBackTo(p)
    <2>1. CASE UNCHANGED task
      BY <2>1
    <2>2. CASE \E i \in pub[p].todo : task' = [task EXCEPT ![Direct(pub[p].event, i)].at = "trying"]
      <3>1. PICK i \in pub[p].todo : task' = [task EXCEPT ![Direct(pub[p].event, i)].at = "trying"]
        BY <2>2
      <3>2. pub[p].at = "fallback"
        BY <1>8 DEF FallBackTo, At
      <3>3. /\ task[Direct(pub[p].event, i)].at = "none"
            /\ Direct(pub[p].event, i) \in Deliveries
        BY <3>2, ActiveCall DEF CallFits, At
      <3> QED  BY <1>1, <3>1, <3>3
    <2> QED  BY <1>8, <2>1, <2>2 DEF FallBackTo
  <1> QED  BY <1>3, <1>4, <1>5, <1>6, <1>7, <1>8 DEF GoOn

-----------------------------------------------------------------------------
(* Where the dead letters are                                              *)

\* Nothing moves where no entry, and no outcome, changes.
LEMMA SamePlaces ==
    ASSUME PlacesInv, UNCHANGED <<dlq, gone>>,
           \A r \in Replayers : replay'[r].entry = replay[r].entry,
           \A d \in Deliveries : task'[d].at = "dead" <=> task[d].at = "dead"
    PROVE  PlacesInv'
  <1>1. \A d \in Deliveries : (Held(d)' <=> Held(d)) /\ (Has(dlq', d) <=> Has(dlq, d))
    BY DEF Held
  <1> QED  BY <1>1 DEF PlacesInv

\* Every step leaves each dead letter in one place.
LEMMA PlacesStep ==
    ASSUME Typed, Typed', PublishInv, PlacesInv, [Next]_vars
    PROVE  PlacesInv'
  <1>t. ASSUME NEW d \in Deliveries PROVE task[d] \in Tasks
    BY DEF Typed, TaskTyped
  <1>1. ASSUME NEW p \in Publishers,
               (\E type \in Types : Publish(p, type)) \/ GoOn(p) \/ SubmitFails(p)
        PROVE  PlacesInv'
    BY <1>1, OutcomesStay, SamePlaces
  <1>2. ASSUME NEW d \in Deliveries,
               Take(d) \/ Raises(d) \/ Delivered(d) \/ AnswerLost(d) \/ AttemptFails(d)
        PROVE  PlacesInv'
    <2>1. UNCHANGED <<dlq, replay, gone>>
      BY <1>2 DEF Take, Raises, Delivered, AnswerLost, AttemptFails, bounds, history
    <2>2. /\ task[d].at # "dead" /\ task'[d].at # "dead"
          /\ \A c \in Deliveries : c # d => task'[c] = task[c]
      <3>1. CASE Take(d)
        BY <1>t, <3>1 DEF Take, Typed, TaskTyped, Tasks
      <3>2. CASE Delivered(d)
        BY <1>t, <3>2 DEF Delivered, Typed, TaskTyped, Tasks
      <3>3. CASE AttemptFails(d) \/ AnswerLost(d)
        BY <3>3, Retried DEF AttemptFails, AnswerLost, Typed
      <3>4. CASE Raises(d)
        BY <1>t, <3>4 DEF Raises, Typed, TaskTyped, Tasks
      <3> QED  BY <1>2, <3>1, <3>2, <3>3, <3>4
    <2> QED  BY <2>1, <2>2, SamePlaces
  <1>3. ASSUME NEW d \in Deliveries, DeadLetter(d) PROVE PlacesInv'
    <2> DEFINE out == 1 .. Len(Append(dlq, d)) - Len(dlq')
               Out(c) == \E i \in out : Append(dlq, d)[i] = c
    <2>1. /\ Inj(dlq')
          /\ \A y : Has(dlq', y) => Has(dlq, y) \/ y = d
          /\ \A y : Out(y) => ~Has(dlq', y) /\ (Has(dlq, y) \/ y = d)
          /\ \A y : Has(dlq, y) \/ y = d => Has(dlq', y) \/ Out(y)
          /\ gone' = [c \in Deliveries |-> IF Out(c) THEN "evicted" ELSE gone[c]]
      BY <1>3, DeadLettered
    <2> HIDE DEF Out
    <2>2. /\ task[d].at = "exhausted" /\ task'[d].at = "dead" /\ replay' = replay
          /\ \A c \in Deliveries : c # d => task'[c] = task[c]
      BY <1>t, <1>3 DEF DeadLetter, Typed, TaskTyped, Tasks, bounds
    <2>3. ~Has(dlq, d) /\ ~Held(d) /\ gone[d] = "no"
      BY <2>2 DEF PlacesInv
    <2>4. \A c \in Deliveries : Held(c)' <=> Held(c)
      BY <2>2 DEF Held
    <2>5. \A c \in Deliveries : gone'[c] = IF Out(c) THEN "evicted" ELSE gone[c]
      BY <2>1
    <2>6. ASSUME NEW c \in Deliveries
          PROVE  /\ task'[c].at = "dead" <=> Has(dlq', c) \/ Held(c)' \/ gone'[c] # "no"
                 /\ Has(dlq', c) => ~Held(c)'
                 /\ Has(dlq', c) \/ Held(c)' => gone'[c] = "no"
      <3>1. CASE c = d
        BY <2>1, <2>2, <2>3, <2>4, <2>5, <3>1
      <3>2. CASE c # d
        BY <2>1, <2>2, <2>4, <2>5, <3>2 DEF PlacesInv
      <3> QED  BY <3>1, <3>2
    <2> QED  BY <2>1, <2>2, <2>6 DEF PlacesInv
  <1>4. ASSUME NEW r \in Replayers, NEW i \in DOMAIN dlq, ReplayTake(r, i) PROVE PlacesInv'
    <2>1. /\ dlq[i] \in Deliveries /\ Has(dlq, dlq[i]) /\ Inj(dlq')
          /\ \A y : Has(dlq', y) <=> Has(dlq, y) /\ y # dlq[i]
      BY <1>4, TakenOut
    <2>2. /\ replay[r].at = "idle" /\ UNCHANGED <<task, gone>>
          /\ replay' = [replay EXCEPT ![r] = [at |-> "look", index |-> i, entry |-> dlq[i]]]
      BY <1>4 DEF ReplayTake, history
    <2>3. replay[r].entry = None /\ dlq[i] # None
      BY <2>1, <2>2, NoneAssumption DEF Typed, ReplayTyped
    <2>4. /\ replay'[r].entry = dlq[i]
          /\ \A q \in Replayers : q # r => replay'[q] = replay[q]
      BY <2>2 DEF Typed, ReplayTyped
    <2>6. \A d \in Deliveries : Held(d)' <=> Held(d) \/ d = dlq[i]
      BY <2>3, <2>4, NoneAssumption DEF Held
    <2>5. \A q \in Replayers : replay[q].entry # dlq[i]
      BY <2>1 DEF PlacesInv, Held
    <2> QED  BY <2>1, <2>2, <2>4, <2>5, <2>6 DEF PlacesInv
  <1>5. ASSUME NEW r \in Replayers, ReplayLook(r) \/ ReplayFails(r) \/ ReplayAnswerLost(r)
        PROVE  PlacesInv'
    <2>1. UNCHANGED <<task, dlq, gone>>
      BY <1>5 DEF ReplayLook, ReplayFails, ReplayAnswerLost, history
    <2>2. PICK at : replay' = [replay EXCEPT ![r].at = at]
      BY <1>5 DEF ReplayLook, ReplayFails, ReplayAnswerLost
    <2>3. \A q \in Replayers : replay'[q].entry = replay[q].entry
      BY <2>2 DEF Typed, ReplayTyped, Replays
    <2> QED  BY <2>1, <2>3, SamePlaces
  <1>6. ASSUME NEW r \in Replayers, ReplaySucceeds(r) PROVE PlacesInv'
    <2>0. PICK x : x = replay[r].entry
      OBVIOUS
    <2>1. /\ replay[r].at = "post" /\ UNCHANGED <<task, dlq>>
          /\ replay' = [replay EXCEPT ![r] = NotReplaying] /\ NotReplaying.entry = None
          /\ gone' = [gone EXCEPT ![x] = "replayed"]
      BY <1>6, <2>0 DEF ReplaySucceeds, bounds, NotReplaying
    <2>2. x \in Deliveries /\ Held(x)
      BY <2>0, <2>1 DEF Typed, ReplayTyped, Replays, Held
    <2>3. /\ replay'[r].entry = None
          /\ \A q \in Replayers : q # r => replay'[q] = replay[q] /\ replay[q].entry # x
      BY <2>0, <2>1, <2>2, NoneAssumption DEF PlacesInv, Typed, ReplayTyped
    <2>4. \A d \in Deliveries : Held(d)' <=> Held(d) /\ d # x
      BY <2>0, <2>3, NoneAssumption DEF Held
    <2>5. \A d \in Deliveries : gone'[d] = IF d = x THEN "replayed" ELSE gone[d]
      BY <2>1, <2>2 DEF Typed, GoneTyped
    <2> QED  BY <2>1, <2>2, <2>3, <2>4, <2>5 DEF PlacesInv
  <1>7. ASSUME NEW r \in Replayers, PutBack(r) PROVE PlacesInv'
    <2>0. PICK x : x = replay[r].entry
      OBVIOUS
    <2>1. /\ UNCHANGED <<task, gone>>
          /\ replay' = [replay EXCEPT ![r] = NotReplaying] /\ NotReplaying.entry = None
      BY <1>7 DEF PutBack, history, NotReplaying
    <2>2. /\ x \in Deliveries /\ Inj(dlq') /\ Held(x)
          /\ \A y : Has(dlq', y) <=> Has(dlq, y) \/ y = x
      BY <1>7, <2>0, PutBackAgain DEF Held
    <2>3. /\ replay'[r].entry = None
          /\ \A q \in Replayers : q # r => replay'[q] = replay[q] /\ replay[q].entry # x
      BY <2>0, <2>1, <2>2, NoneAssumption DEF PlacesInv, Typed, ReplayTyped
    <2>4. \A d \in Deliveries : Held(d)' <=> Held(d) /\ d # x
      BY <2>0, <2>3, NoneAssumption DEF Held
    <2> QED  BY <2>1, <2>2, <2>3, <2>4 DEF PlacesInv
  <1>8. CASE Clear
    <2>1. /\ dlq' = <<>> /\ UNCHANGED <<task, replay>>
          /\ gone' = [d \in Deliveries |-> IF \E i \in DOMAIN dlq : dlq[i] = d THEN "cleared"
                                           ELSE gone[d]]
      BY <1>8 DEF Clear
    <2>2. \A d : (\E i \in DOMAIN dlq : dlq[i] = d) <=> Has(dlq, d)
      BY LenProperties DEF Has, Typed, DlqTyped
    <2>3. \A d \in Deliveries : gone'[d] = IF Has(dlq, d) THEN "cleared" ELSE gone[d]
      BY <2>1, <2>2
    <2>4. Inj(dlq') /\ \A d : ~Has(dlq', d)
      BY <2>1 DEF Inj, Has
    <2>5. \A d \in Deliveries : Held(d)' <=> Held(d)
      BY <2>1 DEF Held
    <2> QED  BY <2>1, <2>3, <2>4, <2>5 DEF PlacesInv
  <1>9. CASE UNCHANGED <<task, dlq, replay, gone>>
    BY <1>9, SamePlaces
  <1>10. \/ UNCHANGED <<task, dlq, replay, gone>>
         \/ \E p \in Publishers : (\E type \in Types : Publish(p, type)) \/ GoOn(p) \/ SubmitFails(p)
         \/ \E d \in Deliveries : Deliver(d)
         \/ \E r \in Replayers, i \in DOMAIN dlq : ReplayTake(r, i)
         \/ \E r \in Replayers : Replay(r)
         \/ Clear
    BY DEF Next, vars, bounds, history, Subscribe, Unsubscribe
  <1> QED  BY <1>1, <1>2, <1>3, <1>4, <1>5, <1>6, <1>7, <1>8, <1>9, <1>10 DEF Deliver, Replay

-----------------------------------------------------------------------------
(* What the endpoints accepted, and how long the queue may be              *)

\* What was accepted stays what was spent, where neither changes,
LEMMA SameSpent ==
    ASSUME SpentInv, UNCHANGED <<accepted, lost>>,
           \A d \in Deliveries : /\ task'[d].at = "delivered" <=> task[d].at = "delivered"
                                 /\ gone'[d] = "replayed" <=> gone[d] = "replayed"
    PROVE  SpentInv'
  <1>1. \A d \in Deliveries : Spent(d)' = Spent(d)
    BY DEF Spent
  <1> QED  BY <1>1, DeliveriesAre DEF SpentInv

\* where the answer is lost,
LEMMA OneMoreLost ==
    ASSUME AcceptedTyped, LostTyped, SpentInv, NEW x \in Deliveries,
           accepted' = [accepted EXCEPT ![x.event][x.to] = @ + 1],
           lost' = [lost EXCEPT ![x.event][x.to] = @ + 1],
           \A d \in Deliveries : Spent(d)' = Spent(d)
    PROVE  SpentInv'
  <1> SUFFICES ASSUME NEW e \in Events, NEW i \in Ids
               PROVE  accepted'[e][i] = lost'[e][i] + Spent(Pooled(e, i))' + Spent(Direct(e, i))'
    BY DEF SpentInv
  <1>1. /\ accepted[e][i] = lost[e][i] + Spent(Pooled(e, i)) + Spent(Direct(e, i))
        /\ accepted[e][i] \in Nat /\ lost[e][i] \in Nat
    BY DEF SpentInv, AcceptedTyped, LostTyped
  <1>2. Spent(Pooled(e, i))' = Spent(Pooled(e, i)) /\ Spent(Direct(e, i))' = Spent(Direct(e, i))
    BY DeliveriesAre
  <1>3. Spent(Pooled(e, i)) \in {0, 1} /\ Spent(Direct(e, i)) \in {0, 1}
    BY DEF Spent
  <1>4. \/ accepted'[e][i] = accepted[e][i] + 1 /\ lost'[e][i] = lost[e][i] + 1
        \/ accepted'[e][i] = accepted[e][i] /\ lost'[e][i] = lost[e][i]
    <2>1. x.event \in Events /\ x.to \in Ids
      BY DeliveriesAre
    <2>2. CASE x.event = e /\ x.to = i
      BY <2>1, <2>2 DEF AcceptedTyped, LostTyped
    <2>3. CASE ~(x.event = e /\ x.to = i)
      BY <2>1, <2>3 DEF AcceptedTyped, LostTyped
    <2> QED  BY <2>2, <2>3
  <1> QED  BY <1>1, <1>2, <1>3, <1>4

\* and where one delivery is accepted and the answer arrives.
LEMMA OneMore ==
    ASSUME AcceptedTyped, LostTyped, SpentInv, UNCHANGED lost,
           NEW x \in Deliveries, Spent(x) = 0, Spent(x)' = 1,
           accepted' = [accepted EXCEPT ![x.event][x.to] = @ + 1],
           \A d \in Deliveries : d # x => Spent(d)' = Spent(d)
    PROVE  SpentInv'
  <1> SUFFICES ASSUME NEW e \in Events, NEW i \in Ids
               PROVE  accepted'[e][i] = lost[e][i] + Spent(Pooled(e, i))' + Spent(Direct(e, i))'
    BY DEF SpentInv
  <1>1. /\ accepted[e][i] = lost[e][i] + Spent(Pooled(e, i)) + Spent(Direct(e, i))
        /\ accepted[e][i] \in Nat /\ lost[e][i] \in Nat
    BY DEF SpentInv, AcceptedTyped, LostTyped
  <1>2. x.event \in Events /\ x.to \in Ids /\ Pooled(e, i) # Direct(e, i)
    BY DeliveriesAre
  <1>3. \A d \in Deliveries : Spent(d) \in {0, 1}
    BY DEF Spent
  <1>4. CASE x.event = e /\ x.to = i
    <2>1. accepted'[e][i] = accepted[e][i] + 1
      BY <1>2, <1>4 DEF AcceptedTyped
    <2>2. x = Pooled(e, i) \/ x = Direct(e, i)
      BY <1>4, DeliveriesAre
    <2> QED  BY <1>1, <1>2, <1>3, <2>1, <2>2, DeliveriesAre
  <1>5. CASE ~(x.event = e /\ x.to = i)
    <2>1. accepted'[e][i] = accepted[e][i]
      BY <1>2, <1>5 DEF AcceptedTyped
    <2>2. x # Pooled(e, i) /\ x # Direct(e, i)
      BY <1>5, DeliveriesAre
    <2> QED  BY <1>1, <2>1, <2>2, DeliveriesAre
  <1> QED  BY <1>4, <1>5

\* Every step keeps the account of what the endpoints accepted.
LEMMA SpentStep ==
    ASSUME Typed, PublishInv, PlacesInv, SpentInv, [Next]_vars
    PROVE  SpentInv'
  <1>t. /\ task \in [Deliveries -> Tasks] /\ GoneTyped
        /\ \A d \in Deliveries : task[d] \in Tasks
    BY DEF Typed, TaskTyped
  <1>1. ASSUME NEW p \in Publishers,
               (\E type \in Types : Publish(p, type)) \/ GoOn(p) \/ SubmitFails(p)
        PROVE  SpentInv'
    BY <1>1, OutcomesStay, SameSpent
  <1>2. ASSUME NEW d \in Deliveries, Take(d) \/ Raises(d) \/ AttemptFails(d) \/ AnswerLost(d)
        PROVE  SpentInv'
    <2>1. UNCHANGED gone
      BY <1>2 DEF Take, Raises, AttemptFails, AnswerLost, history
    <2>2. /\ task[d].at # "delivered" /\ task'[d].at # "delivered"
          /\ \A c \in Deliveries : c # d => task'[c] = task[c]
      <3>1. CASE Take(d)
        BY <1>t, <3>1 DEF Take, Tasks
      <3>2. CASE AttemptFails(d) \/ AnswerLost(d)
        BY <3>2, Retried DEF AttemptFails, AnswerLost, Typed
      <3>3. CASE Raises(d)
        BY <1>t, <3>3 DEF Raises, Tasks
      <3> QED  BY <1>2, <3>1, <3>2, <3>3
    <2>3. CASE AnswerLost(d)
      <3>1. \A c \in Deliveries : Spent(c)' = Spent(c)
        BY <2>1, <2>2 DEF Spent
      <3> QED  BY <2>3, <3>1, OneMoreLost DEF AnswerLost, Typed
    <2>4. CASE UNCHANGED <<accepted, lost>>
      BY <2>1, <2>2, <2>4, SameSpent
    <2> QED  BY <1>2, <2>3, <2>4 DEF Take, Raises, AttemptFails, history
  <1>3. ASSUME NEW d \in Deliveries, Delivered(d) PROVE SpentInv'
    <2>1. /\ task[d].at = "trying" /\ task'[d].at = "delivered" /\ UNCHANGED <<gone, lost>>
          /\ accepted' = [accepted EXCEPT ![d.event][d.to] = @ + 1]
          /\ \A c \in Deliveries : c # d => task'[c] = task[c]
      BY <1>t, <1>3 DEF Delivered, Tasks
    <2>2. gone[d] = "no"
      BY <2>1 DEF PlacesInv
    <2>3. Spent(d) = 0 /\ Spent(d)' = 1 /\ \A c \in Deliveries : c # d => Spent(c)' = Spent(c)
      BY <2>1, <2>2 DEF Spent
    <2> QED  BY <2>1, <2>3, OneMore DEF Typed
  <1>4. ASSUME NEW d \in Deliveries, DeadLetter(d) PROVE SpentInv'
    <2> DEFINE Out(c) == \E i \in 1 .. Len(Append(dlq, d)) - Len(dlq') : Append(dlq, d)[i] = c
    <2>1. /\ \A y : Out(y) => Has(dlq, y) \/ y = d
          /\ gone' = [c \in Deliveries |-> IF Out(c) THEN "evicted" ELSE gone[c]]
      BY <1>4, DeadLettered
    <2> HIDE DEF Out
    <2>2. /\ task[d].at = "exhausted" /\ task'[d].at = "dead" /\ UNCHANGED <<accepted, lost>>
          /\ \A c \in Deliveries : c # d => task'[c] = task[c]
      BY <1>t, <1>4 DEF DeadLetter, Tasks
    <2>3. gone[d] = "no" /\ \A c \in Deliveries : Has(dlq, c) => gone[c] = "no"
      BY <2>2 DEF PlacesInv
    <2>4. \A c \in Deliveries : gone'[c] = "replayed" <=> gone[c] = "replayed"
      BY <2>1, <2>3
    <2> QED  BY <2>2, <2>4, SameSpent
  <1>5. ASSUME NEW r \in Replayers, ReplaySucceeds(r) PROVE SpentInv'
    <2>0. PICK x : x = replay[r].entry
      OBVIOUS
    <2>1. /\ replay[r].at = "post" /\ UNCHANGED <<task, lost>>
          /\ gone' = [gone EXCEPT ![x] = "replayed"]
          /\ accepted' = [accepted EXCEPT ![x.event][x.to] = @ + 1]
      BY <1>5, <2>0 DEF ReplaySucceeds
    <2>2. x \in Deliveries /\ Held(x)
      BY <2>0, <2>1 DEF Typed, ReplayTyped, Replays, Held
    <2>3. task[x].at = "dead" /\ gone[x] = "no"
      BY <2>2 DEF PlacesInv
    <2>4. \A d \in Deliveries : gone'[d] = IF d = x THEN "replayed" ELSE gone[d]
      BY <1>t, <2>1, <2>2 DEF GoneTyped
    <2>5. Spent(x) = 0 /\ Spent(x)' = 1 /\ \A d \in Deliveries : d # x => Spent(d)' = Spent(d)
      BY <2>1, <2>2, <2>3, <2>4 DEF Spent
    <2> QED  BY <2>1, <2>2, <2>5, OneMore DEF Typed
  <1>6. CASE Clear
    <2>1. /\ UNCHANGED <<task, accepted, lost>>
          /\ gone' = [d \in Deliveries |-> IF \E i \in DOMAIN dlq : dlq[i] = d THEN "cleared"
                                           ELSE gone[d]]
      BY <1>6 DEF Clear
    <2>2. \A d : (\E i \in DOMAIN dlq : dlq[i] = d) <=> Has(dlq, d)
      BY LenProperties DEF Has, Typed, DlqTyped
    <2>3. \A d \in Deliveries : gone'[d] = "replayed" <=> gone[d] = "replayed"
      BY <2>1, <2>2 DEF PlacesInv
    <2> QED  BY <2>1, <2>3, SameSpent
  <1>7. CASE UNCHANGED <<task, gone, accepted, lost>>
    BY <1>7, SameSpent
  <1>8. ASSUME NEW r \in Replayers, ReplayAnswerLost(r) PROVE SpentInv'
    <2>1. replay[r].entry \in Deliveries
      BY <1>8 DEF ReplayAnswerLost, Typed, ReplayTyped, Replays
    <2>2. \A d \in Deliveries : Spent(d)' = Spent(d)
      BY <1>8 DEF ReplayAnswerLost, Spent
    <2> QED  BY <1>8, <2>1, <2>2, OneMoreLost DEF ReplayAnswerLost, Typed
  <1>9. \/ UNCHANGED <<task, gone, accepted, lost>>
        \/ \E p \in Publishers : (\E type \in Types : Publish(p, type)) \/ GoOn(p) \/ SubmitFails(p)
        \/ \E d \in Deliveries : Deliver(d)
        \/ \E r \in Replayers : ReplaySucceeds(r) \/ ReplayAnswerLost(r)
        \/ Clear
    BY DEF Next, vars, bounds, history, Subscribe, Unsubscribe, ReplayTake, Replay, ReplayLook,
           ReplayFails, PutBack
  <1> QED  BY <1>1, <1>2, <1>3, <1>4, <1>5, <1>6, <1>7, <1>8, <1>9 DEF Deliver

\* Every step keeps the queue within its size and the replays under way.
LEMMA ExcessStep ==
    ASSUME Typed, PublishInv, PlacesInv, ExcessBounded, [Next]_vars
    PROVE  ExcessBounded'
  <1> SUFFICES ASSUME DlqMax > 0
               PROVE  Len(dlq') + Cardinality(Replaying') <= DlqMax + Cardinality(Replayers)
    BY DEF ExcessBounded
  <1> DEFINE busy == Cardinality(Replaying)
  <1>0. /\ Len(dlq) \in Nat /\ DlqMax \in Nat /\ Cardinality(Replayers) \in Nat
        /\ IsFiniteSet(Replaying) /\ busy \in Nat /\ busy <= Cardinality(Replayers)
        /\ IsFiniteSet(Replaying') /\ Cardinality(Replaying') \in Nat
        /\ Cardinality(Replaying') <= Cardinality(Replayers)
        /\ Len(dlq) + busy <= DlqMax + Cardinality(Replayers)
    <2>1. Replaying \subseteq Replayers /\ Replaying' \subseteq Replayers
      BY DEF Replaying
    <2>2. Len(dlq) \in Nat /\ DlqMax \in Nat
      BY LenProperties, SizesAssumption DEF Typed, DlqTyped
    <2>3. Len(dlq) + busy <= DlqMax + Cardinality(Replayers)
      BY DEF ExcessBounded
    <2> QED  BY <2>1, <2>2, <2>3, ThreadsAssumption, FS_Subset, FS_CardinalityType
  <1>1. ASSUME NEW d \in Deliveries, DeadLetter(d)
        PROVE  Len(dlq') + Cardinality(Replaying') <= DlqMax + Cardinality(Replayers)
    <2>1. Len(dlq') \in Nat /\ Len(dlq') <= DlqMax
      BY <1>1, DeadLettered
    <2> QED  BY <1>0, <2>1
  <1>2. ASSUME NEW r \in Replayers, NEW i \in DOMAIN dlq, ReplayTake(r, i)
        PROVE  Len(dlq') + Cardinality(Replaying') <= DlqMax + Cardinality(Replayers)
    <2>1. Len(dlq') = Len(dlq) - 1
      BY <1>2, TakenOut
    <2>2. Replaying' = Replaying \union {r}
      BY <1>2 DEF ReplayTake, Replaying, Typed, ReplayTyped, Replays
    <2>3. Cardinality(Replaying') <= busy + 1
      BY <1>0, <2>2, FS_AddElement
    <2> QED  BY <1>0, <2>1, <2>3
  <1>3. ASSUME NEW r \in Replayers, PutBack(r)
        PROVE  Len(dlq') + Cardinality(Replaying') <= DlqMax + Cardinality(Replayers)
    <2>1. Len(dlq') = Len(dlq) + 1
      BY <1>3, PutBackAgain
    <2>2. Replaying' = Replaying \ {r} /\ r \in Replaying
      BY <1>3 DEF PutBack, NotReplaying, Replaying, Typed, ReplayTyped, Replays
    <2>3. Cardinality(Replaying') = busy - 1
      BY <1>0, <2>2, FS_RemoveElement
    <2> QED  BY <1>0, <2>1, <2>3
  <1>4. ASSUME NEW r \in Replayers,
               ReplayLook(r) \/ ReplayFails(r) \/ ReplaySucceeds(r) \/ ReplayAnswerLost(r)
        PROVE  Len(dlq') + Cardinality(Replaying') <= DlqMax + Cardinality(Replayers)
    <2>1. dlq' = dlq
      BY <1>4 DEF ReplayLook, ReplayFails, ReplaySucceeds, ReplayAnswerLost
    <2>2. Replaying' \subseteq Replaying
      BY <1>4 DEF ReplayLook, ReplayFails, ReplaySucceeds, ReplayAnswerLost, NotReplaying,
                  Replaying, Typed, ReplayTyped, Replays
    <2>3. Cardinality(Replaying') <= busy
      BY <1>0, <2>2, FS_Subset
    <2> QED  BY <1>0, <2>1, <2>3
  <1>5. CASE Clear
    <2>1. Len(dlq') = 0
      BY <1>5, EmptySeq DEF Clear
    <2> QED  BY <1>0, <2>1
  <1>6. CASE UNCHANGED <<dlq, replay>>
    <2>1. Replaying' = Replaying
      BY <1>6 DEF Replaying
    <2> QED  BY <1>0, <1>6, <2>1
  <1>7. \/ UNCHANGED <<dlq, replay>>
        \/ \E d \in Deliveries : DeadLetter(d)
        \/ \E r \in Replayers, i \in DOMAIN dlq : ReplayTake(r, i)
        \/ \E r \in Replayers : Replay(r)
        \/ Clear
    <2>1. \A p \in Publishers : GoOn(p) \/ SubmitFails(p) => UNCHANGED <<dlq, replay>>
      BY DEF GoOn, Submit, SubmitFails, AllDone, TimeOut, Cancel, FallBackTo, FallBackRaises
    <2>2. \A d \in Deliveries : Deliver(d) => DeadLetter(d) \/ UNCHANGED <<dlq, replay>>
      BY DEF Deliver, Take, Raises, Delivered, AnswerLost, AttemptFails
    <2> QED  BY <2>1, <2>2 DEF Next, vars, Subscribe, Unsubscribe, Publish
  <1> QED  BY <1>1, <1>2, <1>3, <1>4, <1>5, <1>6, <1>7 DEF Replay

-----------------------------------------------------------------------------
(* The invariant, and what follows from it                                 *)

\* The invariant holds at first,
LEMMA Initially == Init => IInv
  <1> SUFFICES ASSUME Init PROVE IInv
    OBVIOUS
  <1>1. Typed
    BY InitIsTyped
  <1>2. PublishInv
    BY DEF Init, NotPublishing, PublishInv, TaskFits, CallFits, At
  <1>3. PlacesInv
    <2>1. Inj(dlq) /\ \A d : ~Has(dlq, d)
      BY DEF Init, Inj, Has
    <2>2. \A d \in Deliveries : ~Held(d) /\ gone[d] = "no" /\ task[d].at = "none"
      BY NoneAssumption DEF Init, NotReplaying, Held
    <2>3. \A r \in Replayers : replay[r].entry = None
      BY DEF Init, NotReplaying
    <2> QED  BY <2>1, <2>2, <2>3 DEF PlacesInv
  <1>4. SpentInv
    <2>1. \A d \in Deliveries : Spent(d) = 0
      BY DEF Init, Spent
    <2>2. \A e \in Events, i \in Ids : accepted[e][i] = 0 /\ lost[e][i] = 0
      BY DEF Init
    <2> QED  BY <2>1, <2>2, DeliveriesAre DEF SpentInv
  <1>5. ExcessBounded
    <2>1. Len(dlq) = 0 /\ Replaying = {}
      BY EmptySeq DEF Init, Replaying, NotReplaying
    <2>2. Cardinality(Replaying) = 0 /\ Cardinality(Replayers) \in Nat /\ DlqMax \in Nat
      BY <2>1, FS_EmptySet, ThreadsAssumption, FS_CardinalityType, SizesAssumption
    <2> QED  BY <2>1, <2>2 DEF ExcessBounded
  <1>6. DoingInv
    BY DEF Init, NotPublishing, DoingInv
  <1> QED  BY <1>1, <1>2, <1>3, <1>4, <1>5, <1>6 DEF IInv

\* is kept by every step,
LEMMA Inductive == IInv /\ [Next]_vars => IInv'
  <1> SUFFICES ASSUME IInv, [Next]_vars PROVE IInv'
    OBVIOUS
  <1>1. Typed'
    BY TypedStep DEF IInv
  <1> QED  BY <1>1, PublishStep, DoingStep, PlacesStep, SpentStep, ExcessStep DEF IInv

\* and so holds in every state that is reached.
LEMMA Always == Spec => []IInv
  BY Initially, Inductive, PTL DEF Spec

\* A delivery that failed for good is in one place, and no other delivery is in any:
\* _add_to_dlq, replay_dead_letter and clear_dead_letter_queue lose no dead letter and
\* double none, for any number of threads and any size of the queue.
THEOREM EachInOnePlace == Spec => []OnePlaceEach
  <1>1. IInv => OnePlaceEach
    <2> SUFFICES ASSUME IInv, NEW d \in Deliveries
                 PROVE  /\ task[d].at = "dead" <=> Places(d) # {}
                        /\ \A x, y \in Places(d) : x = y
      BY DEF OnePlaceEach
    <2> DEFINE queue == {<<"queue", i>> : i \in {j \in DOMAIN dlq : dlq[j] = d}}
               held == {<<"replay", r>> : r \in {q \in Replayers : replay[q].entry = d}}
               left == {<<"gone", g>> : g \in {gone[d]} \ {"no"}}
    <2>1. DOMAIN dlq = 1 .. Len(dlq)
      BY LenProperties DEF IInv, Typed, DlqTyped
    <2>2. queue # {} <=> Has(dlq, d)
      BY <2>1 DEF Has
    <2>3. held # {} <=> Held(d)
      BY DEF Held
    <2>4. left # {} <=> gone[d] # "no"
      OBVIOUS
    <2>5. \A x, y \in queue : x = y
      BY <2>1 DEF IInv, PlacesInv, Inj
    <2>6. \A x, y \in held : x = y
      BY NoneAssumption DEF IInv, PlacesInv
    <2>7. \A x, y \in left : x = y
      OBVIOUS
    <2>8. Places(d) = queue \union held \union left
      BY DEF Places
    <2> HIDE DEF queue, held, left
    <2>9. /\ task[d].at = "dead" <=> queue # {} \/ held # {} \/ left # {}
          /\ queue # {} => held = {} /\ left = {}
          /\ held # {} => left = {}
      BY <2>2, <2>3, <2>4 DEF IInv, PlacesInv
    <2> QED  BY <2>5, <2>6, <2>7, <2>8, <2>9
  <1> QED  BY <1>1, Always, PTL

\* publish_event forgets no subscription the event was for, in whatever order the pool's
\* threads come to the deliveries and the time is up, but for one that the time limit
\* cancelled untried, and for those whose delivery, or one of the fallback, raised.
THEOREM NoneForgotten == Spec => []NobodyForgotten
  <1>1. IInv => NobodyForgotten
    <2> SUFFICES ASSUME IInv, NEW e \in 1 .. events, ~Publishing(e), NEW i \in matched[e]
                 PROVE  \/ \E d \in {Pooled(e, i), Direct(e, i)} :
                              \/ Running(d) \/ task[d].at \in {"delivered", "dead"}
                              \/ task[d].at = "raised" /\ task[d].tries = 0
                        \/ /\ e \in timedOut /\ task[Pooled(e, i)].at = "cancelled"
                           /\ task[Pooled(e, i)].tries = 0
                        \/ e \in fellBack /\ \E j \in matched[e] : task[Direct(e, j)].at = "raised"
      BY DEF NobodyForgotten
    <2>1. Settled(e) /\ \A d \in Deliveries : TaskFits(d)
      BY DEF IInv, PublishInv
    <2>2. Pooled(e, i) \in Deliveries /\ Direct(e, i) \in Deliveries
      <3>1. e \in Events
        BY BoundsAssumption DEF IInv, Typed, CountsTyped, Events
      <3> QED  BY <3>1, DeliveriesAre DEF IInv, Typed, MatchedTyped
    <2> QED  BY <2>1, <2>2 DEF Settled, Started, Running, TaskFits
  <1> QED  BY <1>1, Always, PTL

\* As long as a delivery that was begun has not been answered, fewer answers have
\* arrived than there are deliveries of the event to the subscription.
LEMMA Unanswered ==
    ASSUME IInv, NEW d \in Deliveries, Spent(d) = 0, task[d].at # "none"
    PROVE  accepted[d.event][d.to] < lost[d.event][d.to] + IF d.event \in fellBack THEN 2 ELSE 1
  <1> DEFINE e == d.event
             i == d.to
  <1>1. e \in Events /\ i \in Ids /\ (d = Pooled(e, i) \/ d = Direct(e, i))
    BY DeliveriesAre
  <1>2. /\ accepted[e][i] = lost[e][i] + Spent(Pooled(e, i)) + Spent(Direct(e, i))
        /\ lost[e][i] \in Nat
    BY <1>1 DEF IInv, SpentInv, Typed, LostTyped
  <1>3. Spent(Pooled(e, i)) \in {0, 1} /\ Spent(Direct(e, i)) \in {0, 1}
    BY DEF Spent
  <1>4. ASSUME e \notin fellBack PROVE Spent(Direct(e, i)) = 0
    <2>1. /\ Direct(e, i) \in Deliveries /\ Direct(e, i).event = e
          /\ Direct(e, i).by = "caller"
      BY <1>1, DeliveriesAre
    <2>2. task[Direct(e, i)].at = "none"
      BY <1>4, <2>1 DEF IInv, PublishInv, TaskFits
    <2>3. gone[Direct(e, i)] = "no"
      BY <2>1, <2>2 DEF IInv, PlacesInv
    <2> QED  BY <2>2, <2>3 DEF Spent
  <1>5. CASE d = Pooled(e, i)
    <2>1. Spent(Pooled(e, i)) = 0
      BY <1>5
    <2> QED  BY <1>2, <1>3, <1>4, <2>1
  <1>6. CASE d = Direct(e, i)
    <2>1. Spent(Direct(e, i)) = 0
      BY <1>6
    <2>2. e \in fellBack
      BY <1>1, <1>6, DeliveriesAre DEF IInv, PublishInv, TaskFits
    <2> QED  BY <1>2, <1>3, <2>1, <2>2
  <1> QED  BY <1>1, <1>5, <1>6

\* However often it is tried and replayed, an endpoint accepts an event again only while
\* no answer to the times before has arrived, and once more where the fallback delivers
\* what the pool has taken as well.
THEOREM AgainOnlyInTheDark == Spec => AcceptedAgainOnlyUnanswered
  <1> DEFINE Again == \A e \in Events, i \in Ids : accepted'[e][i] # accepted[e][i] =>
                          accepted[e][i] < lost[e][i] + IF e \in fellBack THEN 2 ELSE 1
  <1>1. IInv /\ [Next]_vars => [Again]_vars
    <2> SUFFICES ASSUME IInv, Next PROVE Again
      OBVIOUS
    <2>1. ASSUME NEW d \in Deliveries, Spent(d) = 0, task[d].at # "none",
                 accepted' = [accepted EXCEPT ![d.event][d.to] = @ + 1]
          PROVE  Again
      <3> SUFFICES ASSUME NEW e \in Events, NEW i \in Ids, accepted'[e][i] # accepted[e][i]
                   PROVE  accepted[e][i] < lost[e][i] + IF e \in fellBack THEN 2 ELSE 1
        OBVIOUS
      <3>1. d.event = e /\ d.to = i
        BY <2>1, DeliveriesAre DEF IInv, Typed, AcceptedTyped
      <3> QED  BY <2>1, <3>1, Unanswered
    <2>2. ASSUME NEW d \in Deliveries, Delivered(d) \/ AnswerLost(d) PROVE Again
      <3>1. task[d].at = "trying" /\ accepted' = [accepted EXCEPT ![d.event][d.to] = @ + 1]
        BY <2>2 DEF Delivered, AnswerLost
      <3>2. Spent(d) = 0
        BY <3>1 DEF IInv, PlacesInv, Spent
      <3> QED  BY <2>1, <3>1, <3>2
    <2>3. ASSUME NEW r \in Replayers, ReplaySucceeds(r) \/ ReplayAnswerLost(r) PROVE Again
      <3>0. PICK d : d = replay[r].entry
        OBVIOUS
      <3>1. replay[r].at = "post" /\ accepted' = [accepted EXCEPT ![d.event][d.to] = @ + 1]
        BY <2>3, <3>0 DEF ReplaySucceeds, ReplayAnswerLost
      <3>2. d \in Deliveries /\ Held(d)
        BY <3>0, <3>1 DEF IInv, Typed, ReplayTyped, Replays, Held
      <3>3. Spent(d) = 0 /\ task[d].at # "none"
        BY <3>2 DEF IInv, PlacesInv, Spent
      <3> QED  BY <2>1, <3>1, <3>2, <3>3
    <2>4. CASE UNCHANGED accepted
      BY <2>4
    <2>5. \/ UNCHANGED accepted
          \/ \E d \in Deliveries : Delivered(d) \/ AnswerLost(d)
          \/ \E r \in Replayers : ReplaySucceeds(r) \/ ReplayAnswerLost(r)
      BY DEF Next, history, Subscribe, Unsubscribe, Publish, GoOn, Submit, SubmitFails, AllDone,
             TimeOut, Cancel, FallBackTo, FallBackRaises, Deliver, Take, Raises, AttemptFails,
             DeadLetter, ReplayTake, Replay, ReplayLook, ReplayFails, PutBack, Clear
    <2> QED  BY <2>2, <2>3, <2>4, <2>5
  <1> QED  BY <1>1, Always, PTL DEF Spec, AcceptedAgainOnlyUnanswered

\* The re-insertion that replay_dead_letter makes without looking at dlq_max_size takes
\* the queue above it by no more than the number of replaying threads.
THEOREM ExcessIsBounded == Spec => []ExcessBounded
  <1>1. IInv => ExcessBounded
    BY DEF IInv
  <1> QED  BY <1>1, Always, PTL
=============================================================================

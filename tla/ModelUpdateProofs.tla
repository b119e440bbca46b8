-------------------------- MODULE ModelUpdateProofs --------------------------
(***************************************************************************)
(* Theorems about the two queues that an update of the Revit model goes    *)
(* through: the one clients and the bridge share (ModelUpdateQueue, on the *)
(* heaps of Heapq), and the add-in's behind the pipe (RevitBridge).        *)
(***************************************************************************)
EXTENDS ModelUpdateQueue, RevitBridge, SequenceTheorems, FiniteSetTheorems,
        WellFoundedInduction, TLAPS
-----------------------------------------------------------------------------
(* The tree of heapq: places 2 * i and 2 * i + 1 are the children of i.    *)

LEMMA Halves ==
    ASSUME NEW k \in Nat, k > 1
    PROVE  /\ Parent(k) \in Nat /\ 1 <= Parent(k) /\ Parent(k) < k
           /\ k = 2 * Parent(k) \/ k = 2 * Parent(k) + 1
  BY DEF Parent

LEMMA HalfBelow ==
    ASSUME NEW k \in Nat, k >= 1
    PROVE  Parent(k) \in Nat /\ Parent(k) < k
  BY DEF Parent

LEMMA Children ==
    ASSUME NEW k \in Nat
    PROVE  Parent(2 * k) = k /\ Parent(2 * k + 1) = k
  BY DEF Parent

LEMMA ParentsInOrder ==
    ASSUME NEW j \in Nat, NEW k \in Nat, j <= k
    PROVE  Parent(j) <= Parent(k)
  BY DEF Parent

\* The least of a set of naturals.
LEMMA LeastOf ==
    ASSUME NEW S, S \subseteq Nat, S # {}
    PROVE  \E n \in S : \A p \in S : n <= p
  <1> DEFINE R == OpToRel(<, Nat)
  <1>1. PICK n \in S : \A p \in S : <<p, n>> \notin R
    <2>1. IsWellFoundedOn(R, Nat)
      BY NatLessThanWellFounded
    <2> HIDE DEF R
    <2> QED  BY <2>1, WFMin
  <1>2. \A p \in S : ~(p < n)
    BY <1>1 DEF OpToRel
  <1> QED  BY <1>2

\* Upward(i) is the least set that holds i and with each place, but the root, the
\* parent of it.
LEMMA UpwardCloses ==
    ASSUME NEW i \in Nat \ {0}
    PROVE  /\ Upward(i) \subseteq 1 .. i /\ i \in Upward(i)
           /\ \A k \in Upward(i) : k # 1 => Parent(k) \in Upward(i)
  <1>1. Upward(i) \subseteq 1 .. i /\ i \in Upward(i)
    BY DEF Upward
  <1>2. ASSUME NEW k \in Upward(i), k # 1
        PROVE  Parent(k) \in Upward(i)
    <2>1. k \in 1 .. i /\ k \in Nat /\ k > 1
      BY <1>1, <1>2
    <2>2. Parent(k) \in 1 .. i
      BY <2>1, Halves
    <2>3. ASSUME NEW S \in SUBSET (1 .. i), i \in S, \A l \in S \ {1} : Parent(l) \in S
          PROVE  Parent(k) \in S
      <3>1. k \in S
        BY <2>3 DEF Upward
      <3> QED  BY <1>2, <2>3, <3>1
    <2> QED  BY <2>2, <2>3 DEF Upward
  <1> QED  BY <1>1, <1>2

LEMMA UpwardIsLeast ==
    ASSUME NEW i \in Nat \ {0}, NEW S, S \subseteq 1 .. i, i \in S,
           \A k \in S : k # 1 => Parent(k) \in S
    PROVE  Upward(i) \subseteq S
  BY DEF Upward

\* It is a chain, in which each place but i has a child.
LEMMA UpwardIsChain ==
    ASSUME NEW i \in Nat \ {0}
    PROVE  /\ \A j, k \in Upward(i) : j < k => j <= Parent(k)
           /\ \A j \in Upward(i) : j # i => \E k \in Upward(i) : k # 1 /\ Parent(k) = j
  <1>0. /\ Upward(i) \subseteq 1 .. i /\ i \in Upward(i)
        /\ \A k \in Upward(i) : k # 1 => Parent(k) \in Upward(i)
    BY UpwardCloses
  <1>1. ASSUME NEW q \in Upward(i)
        PROVE  q \in Nat /\ q >= 1 /\ (q # 1 => q > 1)
    BY <1>0
  <1>2. \A j, k \in Upward(i) : j < k => j <= Parent(k)
    <2> DEFINE Fits(q) == \A p \in Upward(i) : p < q => p <= Parent(q)
               S == {q \in Upward(i) : Fits(q)}
    <2>1. i \in S
      <3> DEFINE T == {p \in Upward(i) : p = i \/ p <= Parent(i)}
      <3>1. ASSUME NEW k \in T, k # 1
            PROVE  Parent(k) \in T
        <4>1. Parent(k) \in Upward(i) /\ k \in Nat /\ k > 1 /\ Parent(k) < k /\ Parent(k) \in Nat
          BY <1>0, <1>1, <3>1, Halves
        <4>2. CASE k = i
          BY <4>1, <4>2
        <4>3. CASE k <= Parent(i)
          <5>1. Parent(i) \in Nat
            BY DEF Parent
          <5> QED  BY <4>1, <4>3, <5>1
        <4> QED  BY <3>1, <4>2, <4>3
      <3>2. T \subseteq 1 .. i /\ i \in T
        BY <1>0
      <3>3. Upward(i) \subseteq T
        <4> HIDE DEF T
        <4> QED  BY <3>1, <3>2, UpwardIsLeast
      <3> QED  BY <1>0, <3>3
    <2>2. ASSUME NEW q \in S, q # 1
          PROVE  Parent(q) \in S
      <3> DEFINE r == Parent(q)
      <3>1. /\ q \in Nat /\ q > 1 /\ r \in Nat /\ 1 <= r /\ r < q /\ r \in Upward(i)
            /\ Parent(r) \in Nat
        BY <1>0, <1>1, <2>2, Halves DEF Parent
      <3> DEFINE T == {p \in Upward(i) : p >= r \/ p <= Parent(r)}
      <3>2. ASSUME NEW k \in T, k # 1
            PROVE  Parent(k) \in T
        <4>1. /\ Parent(k) \in Upward(i) /\ k \in Nat /\ k > 1 /\ Parent(k) < k
              /\ Parent(k) \in Nat
          BY <1>0, <1>1, <3>2, Halves
        <4>2. CASE k = r
          BY <4>1, <4>2
        <4>3. CASE k > r
          <5>1. ~(k < q)
            BY <2>2, <3>1, <4>1, <4>3
          <5>2. Parent(q) <= Parent(k)
            BY <3>1, <4>1, <5>1, ParentsInOrder
          <5> QED  BY <4>1, <5>2
        <4>4. CASE k <= Parent(r)
          BY <3>1, <4>1, <4>4
        <4> QED  BY <3>1, <3>2, <4>1, <4>2, <4>3, <4>4
      <3>3. i \in T
        BY <1>0, <3>1
      <3>4. Upward(i) \subseteq T
        <4>1. T \subseteq 1 .. i
          BY <1>0
        <4> HIDE DEF T
        <4> QED  BY <3>2, <3>3, <4>1, UpwardIsLeast
      <3>5. Fits(r)
        BY <1>1, <3>1, <3>4
      <3> QED  BY <3>1, <3>5
    <2>3. S \subseteq 1 .. i
      BY <1>0
    <2>4. Upward(i) \subseteq S
      <3> HIDE DEF S
      <3> QED  BY <2>1, <2>2, <2>3, UpwardIsLeast
    <2> QED  BY <2>4
  <1>3. ASSUME NEW j \in Upward(i), j # i
        PROVE  \E k \in Upward(i) : k # 1 /\ Parent(k) = j
    <2> DEFINE S == {q \in Upward(i) : q = i \/ \E k \in Upward(i) : k # 1 /\ Parent(k) = q}
    <2>1. i \in S /\ S \subseteq 1 .. i
      BY <1>0
    <2>2. \A k \in S : k # 1 => Parent(k) \in S
      BY <1>0
    <2>3. Upward(i) \subseteq S
      <3> HIDE DEF S
      <3> QED  BY <2>1, <2>2, UpwardIsLeast
    <2> QED  BY <1>3, <2>3
  <1> QED  BY <1>2, <1>3

-----------------------------------------------------------------------------
(* siftdown.                                                               *)

Elements(line) == {line[j] : j \in 1 .. Len(line)}

\* The list after the element at i rose to top.
RisenTo(tree, i, top) ==
    [j \in 1 .. Len(tree) |->
        IF j = top THEN tree[i]
        ELSE IF j \in Upward(i) /\ j > top THEN tree[Parent(j)]
        ELSE tree[j]]

\* It rises past what has a greater priority, and stops where its parent has not.
StopsAt(rank, tree, i, top) ==
    /\ top \in Upward(i)
    /\ \A k \in Upward(i) : k > top => rank[tree[i]] < rank[tree[Parent(k)]]
    /\ top # 1 => ~(rank[tree[i]] < rank[tree[Parent(top)]])

LEMMA RiseShape ==
    ASSUME NEW A, NEW rank \in [A -> Nat], NEW tree \in Seq(A), NEW i \in 1 .. Len(tree)
    PROVE  \E top : /\ StopsAt(rank, tree, i, top)
                    /\ Rise(rank, tree, i).heap = RisenTo(tree, i, top)
                    /\ Rise(rank, tree, i).raised
                         <=> top # 1 /\ rank[tree[Parent(top)]] = rank[tree[i]]
  <1> DEFINE S == {j \in Upward(i) : Passed(rank, tree, i, j)}
             top == Summit(rank, tree, i)
  <1>0. i \in Nat \ {0}
    OBVIOUS
  <1>1. /\ Upward(i) \subseteq 1 .. i /\ i \in Upward(i)
        /\ \A k \in Upward(i) : k # 1 => Parent(k) \in Upward(i)
        /\ \A j, k \in Upward(i) : j < k => j <= Parent(k)
    BY <1>0, UpwardCloses, UpwardIsChain
  <1>2. \A k \in Upward(i) : k \in Nat /\ k >= 1 /\ Parent(k) \in Nat /\ Parent(k) < k
    <2>1. \A k \in Upward(i) : k \in Nat /\ k >= 1
      BY <1>1
    <2> QED  BY <2>1, HalfBelow
  <1>3. \E n \in S : \A p \in S : n <= p
    <2>1. i \in S
      BY <1>1, <1>2 DEF Passed
    <2>2. S \subseteq Nat
      BY <1>2
    <2> HIDE DEF S
    <2> QED  BY <2>1, <2>2, LeastOf
  <1>4. /\ top \in Upward(i) /\ Passed(rank, tree, i, top)
        /\ \A k \in Upward(i) : Passed(rank, tree, i, k) => top <= k
    BY <1>3, Zenon DEF Summit
  <1> HIDE DEF S, top
  <1>5. top \in Nat /\ top >= 1
    BY <1>2, <1>4
  <1>6. \A k \in Upward(i) : k > top => rank[tree[i]] < rank[tree[Parent(k)]]
    BY <1>1, <1>4 DEF Passed
  <1>7. ASSUME top # 1
        PROVE  ~(rank[tree[i]] < rank[tree[Parent(top)]])
    <2>1. Parent(top) \in Upward(i) /\ Parent(top) < top /\ Parent(top) \in Nat /\ Parent(top) >= 1
      BY <1>1, <1>2, <1>4, <1>7
    <2>2. ~Passed(rank, tree, i, Parent(top))
      BY <1>4, <1>5, <2>1
    <2>3. PICK k \in Upward(i) : /\ Parent(top) <= Parent(k)
                                 /\ ~(rank[tree[i]] < rank[tree[Parent(k)]])
      BY <2>2 DEF Passed
    <2>4. ~(top <= Parent(k))
      BY <1>4, <2>3 DEF Passed
    <2>5. k # 1
      BY <2>1, <2>3 DEF Parent
    <2>6. Parent(k) <= Parent(top)
      BY <1>1, <1>2, <1>4, <1>5, <2>4, <2>5
    <2>7. Parent(k) = Parent(top)
      BY <1>2, <2>1, <2>3, <2>6
    <2> QED  BY <2>3, <2>7
  <1>8. StopsAt(rank, tree, i, top)
    BY <1>4, <1>6, <1>7 DEF StopsAt
  <1>9. /\ Rise(rank, tree, i).heap = RisenTo(tree, i, top)
        /\ Rise(rank, tree, i).raised
             <=> top # 1 /\ rank[tree[Parent(top)]] = rank[tree[i]]
    BY Zenon DEF Rise, RisenTo, top
  <1> QED  BY <1>8, <1>9

\* Whatever the priorities are, nothing is lost from the list and nothing gets into it.
LEMMA RiseKeepsElements ==
    ASSUME NEW A, NEW rank \in [A -> Nat], NEW tree \in Seq(A), NEW i \in 1 .. Len(tree)
    PROVE  /\ Rise(rank, tree, i).heap \in Seq(A)
           /\ Len(Rise(rank, tree, i).heap) = Len(tree)
           /\ Elements(Rise(rank, tree, i).heap) = Elements(tree)
  <1>0. PICK n \in Nat : n = Len(tree)
    OBVIOUS
  <1>1. PICK top : StopsAt(rank, tree, i, top) /\ Rise(rank, tree, i).heap = RisenTo(tree, i, top)
    BY RiseShape
  <1>2. PICK r : r = RisenTo(tree, i, top)
    OBVIOUS
  <1>3. /\ Upward(i) \subseteq 1 .. i /\ i \in Upward(i)
        /\ \A k \in Upward(i) : k # 1 => Parent(k) \in Upward(i)
        /\ \A j, k \in Upward(i) : j < k => j <= Parent(k)
        /\ \A j \in Upward(i) : j # i => \E k \in Upward(i) : k # 1 /\ Parent(k) = j
    BY UpwardCloses, UpwardIsChain
  <1>4. top \in Upward(i) /\ i \in 1 .. n /\ top \in 1 .. n /\ Upward(i) \subseteq 1 .. n
    BY <1>0, <1>1, <1>3 DEF StopsAt
  <1>5. \A j \in 1 .. n : tree[j] \in A
    BY <1>0
  <1>6. /\ r \in Seq(A) /\ Len(r) = n
        /\ \A j \in 1 .. n : r[j] = IF j = top THEN tree[i]
                                    ELSE IF j \in Upward(i) /\ j > top THEN tree[Parent(j)]
                                    ELSE tree[j]
    <2>1. ASSUME NEW j \in 1 .. n, j \in Upward(i), j > top
          PROVE  Parent(j) \in 1 .. n
      BY <1>3, <1>4, <2>1
    <2>2. r = [j \in 1 .. n |-> IF j = top THEN tree[i]
                                ELSE IF j \in Upward(i) /\ j > top THEN tree[Parent(j)]
                                ELSE tree[j]]
      BY <1>0, <1>2 DEF RisenTo
    <2>3. \A j \in 1 .. n : r[j] \in A
      BY <1>4, <1>5, <2>1, <2>2
    <2>4. r \in [1 .. n -> A]
      BY <2>2, <2>3
    <2> QED  BY <2>2, <2>4
  <1>7. Elements(r) \subseteq Elements(tree)
    <2> SUFFICES ASSUME NEW j \in 1 .. n PROVE r[j] \in Elements(tree)
      BY <1>6 DEF Elements
    <2>1. j \in Upward(i) /\ j > top => Parent(j) \in 1 .. n
      BY <1>3, <1>4
    <2> QED  BY <1>0, <1>4, <1>6, <2>1 DEF Elements
  <1>8. Elements(tree) \subseteq Elements(r)
    <2>0. ASSUME \A j \in 1 .. n : \E k \in 1 .. n : r[k] = tree[j]
          PROVE  Elements(tree) \subseteq Elements(r)
      <3> SUFFICES ASSUME NEW x \in Elements(tree) PROVE x \in Elements(r)
        OBVIOUS
      <3>1. PICK j \in 1 .. n : x = tree[j]
        BY <1>0 DEF Elements
      <3>2. PICK k \in 1 .. n : r[k] = x
        BY <2>0, <3>1
      <3> QED  BY <1>6, <3>2 DEF Elements
    <2> SUFFICES ASSUME NEW j \in 1 .. n PROVE \E k \in 1 .. n : r[k] = tree[j]
      BY <2>0
    <2>1. CASE j = i
      BY <1>4, <1>6, <2>1
    <2>2. CASE j # i /\ j \in Upward(i) /\ j >= top
      <3>1. PICK k \in Upward(i) : k # 1 /\ Parent(k) = j
        BY <1>3, <2>2
      <3>2. k \in 1 .. n /\ k > j
        BY <1>0, <1>4, <3>1, Halves
      <3>3. k > top
        BY <1>0, <1>4, <2>2, <3>2
      <3>4. r[k] = tree[Parent(k)]
        BY <1>0, <1>4, <1>6, <3>2, <3>3
      <3> QED  BY <3>1, <3>2, <3>4
    <2>3. CASE j # i /\ (j \notin Upward(i) \/ j < top)
      <3>1. j # top /\ ~(j \in Upward(i) /\ j > top)
        BY <1>4, <2>3
      <3> QED  BY <1>6, <3>1
    <2> QED  BY <1>4, <2>1, <2>2, <2>3
  <1> QED  BY <1>0, <1>1, <1>2, <1>6, <1>7, <1>8

\* Each place but the root, and but those of E, has a greater priority than its parent.
OrderedBut(rank, tree, E) ==
    \A j \in 2 .. Len(tree) : j \notin E => rank[tree[Parent(j)]] < rank[tree[j]]

\* No two places of the list have the same priority.
Untied(rank, tree) ==
    \A j, k \in 1 .. Len(tree) : rank[tree[j]] = rank[tree[k]] => j = k

\* From a leaf that may be wrong, siftdown makes a heap.
LEMMA RiseMakesHeap ==
    ASSUME NEW A, NEW rank \in [A -> Nat], NEW tree \in Seq(A), NEW i \in 1 .. Len(tree),
           2 * i > Len(tree), OrderedBut(rank, tree, {i}), Untied(rank, tree)
    PROVE  /\ OrderedBut(rank, Rise(rank, tree, i).heap, {})
           /\ ~Rise(rank, tree, i).raised
  <1>0. PICK n \in Nat : n = Len(tree)
    OBVIOUS
  <1>1. PICK top : /\ StopsAt(rank, tree, i, top)
                   /\ Rise(rank, tree, i).heap = RisenTo(tree, i, top)
                   /\ Rise(rank, tree, i).raised
                        <=> top # 1 /\ rank[tree[Parent(top)]] = rank[tree[i]]
    BY RiseShape
  <1>2. PICK r : r = RisenTo(tree, i, top)
    OBVIOUS
  <1>3. /\ Upward(i) \subseteq 1 .. i /\ i \in Upward(i)
        /\ \A k \in Upward(i) : k # 1 => Parent(k) \in Upward(i)
        /\ \A j, k \in Upward(i) : j < k => j <= Parent(k)
    BY UpwardCloses, UpwardIsChain
  <1>4. /\ top \in Upward(i) /\ i \in 1 .. n /\ top \in 1 .. i
        /\ \A k \in Upward(i) : k > top => rank[tree[i]] < rank[tree[Parent(k)]]
        /\ top # 1 => ~(rank[tree[i]] < rank[tree[Parent(top)]])
    BY <1>0, <1>1, <1>3 DEF StopsAt
  <1>5. PICK P \in [1 .. n -> Nat] : \A j \in 1 .. n : P[j] = rank[tree[j]]
    <2>1. [j \in 1 .. n |-> rank[tree[j]]] \in [1 .. n -> Nat]
      BY <1>0
    <2> QED  BY <2>1
  <1>6. \A j \in 2 .. n : Parent(j) \in 1 .. n /\ Parent(j) < j
    BY Halves
  <1>7. \A j \in 2 .. n : j # i => P[Parent(j)] < P[j]
    BY <1>0, <1>5, <1>6 DEF OrderedBut
  <1>8. \A j, k \in 1 .. n : P[j] = P[k] => j = k
    BY <1>0, <1>5 DEF Untied
  <1>9. /\ \A k \in Upward(i) : k > top => P[i] < P[Parent(k)]
        /\ top # 1 => ~(P[i] < P[Parent(top)])
    <2>1. ASSUME NEW k \in Upward(i), k > top
          PROVE  P[i] < P[Parent(k)]
      <3>1. k \in 2 .. n
        <4>1. k \in 1 .. i
          BY <1>3
        <4> QED  BY <1>0, <1>4, <2>1, <4>1
      <3>2. Parent(k) \in 1 .. n
        BY <1>6, <3>1
      <3> QED  BY <1>4, <1>5, <2>1, <3>2
    <2>2. top # 1 => ~(P[i] < P[Parent(top)])
      <3>1. top # 1 => top \in 2 .. n /\ Parent(top) \in 1 .. n
        BY <1>0, <1>4, <1>6
      <3> QED  BY <1>4, <1>5, <3>1
    <2> QED  BY <2>1, <2>2
  <1>10. ~Rise(rank, tree, i).raised
    <2> SUFFICES ASSUME top # 1, rank[tree[Parent(top)]] = rank[tree[i]] PROVE FALSE
      BY <1>1
    <2>1. Parent(top) < top /\ Parent(top) \in 1 .. n
      BY <1>0, <1>4, <1>6
    <2>2. P[Parent(top)] = P[i]
      BY <1>4, <1>5, <2>1
    <2> QED  BY <1>0, <1>4, <1>8, <2>1, <2>2
  <1>11. /\ Len(r) = n
         /\ \A j \in 1 .. n : r[j] = IF j = top THEN tree[i]
                                     ELSE IF j \in Upward(i) /\ j > top THEN tree[Parent(j)]
                                     ELSE tree[j]
    <2>1. r = [j \in 1 .. n |-> IF j = top THEN tree[i]
                                ELSE IF j \in Upward(i) /\ j > top THEN tree[Parent(j)]
                                ELSE tree[j]]
      BY <1>0, <1>2 DEF RisenTo
    <2>2. Len(r) = n
      BY <1>0, <1>1, <1>2, RiseKeepsElements
    <2> QED  BY <2>1, <2>2
  <1>12. \A j \in 1 .. n : rank[r[j]] = IF j = top THEN P[i]
                                        ELSE IF j \in Upward(i) /\ j > top THEN P[Parent(j)]
                                        ELSE P[j]
    <2> SUFFICES ASSUME NEW j \in 1 .. n
                 PROVE  rank[r[j]] = IF j = top THEN P[i]
                                     ELSE IF j \in Upward(i) /\ j > top THEN P[Parent(j)]
                                     ELSE P[j]
      OBVIOUS
    <2>1. j \in Upward(i) /\ j > top => Parent(j) \in 1 .. n
      BY <1>0, <1>4, <1>6
    <2> QED  BY <1>4, <1>5, <1>11, <2>1
  <1>13. ASSUME NEW j \in 2 .. n
         PROVE  rank[r[Parent(j)]] < rank[r[j]]
    <2> DEFINE k == Parent(j)
    <2>1. k \in 1 .. n /\ k < j /\ j \in 1 .. n /\ (k = 1 \/ k \in 2 .. n)
      BY <1>6
    <2>2. j \in Upward(i) => k \in Upward(i)
      BY <1>3
    <2>3. CASE j = top
      <3>1. ~(k \in Upward(i) /\ k > top) /\ k # top
        BY <1>4, <2>1, <2>3
      <3>2. P[k] # P[i]
        BY <1>4, <1>8, <2>1, <2>3
      <3>3. rank[r[k]] = P[k] /\ rank[r[j]] = P[i]
        BY <1>12, <2>1, <2>3, <3>1
      <3>4. ~(P[i] < P[k])
        BY <1>9, <2>1, <2>3
      <3> QED  BY <1>4, <1>5, <2>1, <3>2, <3>3, <3>4
    <2>4. CASE j # top /\ j \in Upward(i) /\ j > top
      <3>1. rank[r[j]] = P[k]
        BY <1>12, <2>1, <2>4
      <3>2. CASE k = top
        BY <1>9, <1>12, <2>1, <2>4, <3>1, <3>2
      <3>3. CASE k # top
        <4>1. top <= k
          BY <1>3, <1>4, <2>4
        <4>2. k > top /\ k < i /\ k \in 2 .. n
          <5>1. j \in 1 .. i
            BY <1>3, <2>4
          <5> QED  BY <1>0, <1>4, <2>1, <3>3, <4>1, <5>1
        <4>3. rank[r[k]] = P[Parent(k)]
          BY <1>12, <2>1, <2>2, <2>4, <3>3, <4>2
        <4> QED  BY <1>7, <3>1, <4>2, <4>3
      <3> QED  BY <3>2, <3>3
    <2>5. CASE j # top /\ ~(j \in Upward(i) /\ j > top)
      <3>1. rank[r[j]] = P[j]
        BY <1>12, <2>1, <2>5
      <3>2. j # i
        BY <1>3, <1>4, <2>5
      <3>3. P[k] < P[j] /\ P[k] \in Nat /\ P[j] \in Nat
        BY <1>5, <1>7, <2>1, <3>2
      <3>4. k # i
        <4>1. j \in Nat /\ j > 1
          BY <1>0
        <4>2. j = 2 * k \/ j = 2 * k + 1
          BY <4>1, Halves
        <4> QED  BY <1>0, <2>1, <4>2
      <3>5. CASE k = top
        <4>1. PICK l \in Upward(i) : l # 1 /\ Parent(l) = top
          BY <1>4, <3>4, <3>5, UpwardIsChain
        <4>2. l > top
          BY <1>0, <1>3, <1>4, <4>1, Halves
        <4>5. P[i] < P[top]
          BY <1>9, <4>1, <4>2
        <4>3. rank[r[k]] = P[i]
          BY <1>12, <2>1, <3>5
        <4> QED  BY <1>4, <1>5, <3>1, <3>3, <3>5, <4>5, <4>3
      <3>6. CASE k # top /\ k \in Upward(i) /\ k > top
        <4>1. rank[r[k]] = P[Parent(k)] /\ k \in 2 .. n
          BY <1>0, <1>4, <1>12, <2>1, <3>6
        <4>2. P[Parent(k)] < P[k] /\ P[Parent(k)] \in Nat
          BY <1>5, <1>6, <1>7, <3>4, <4>1
        <4> QED  BY <3>1, <3>3, <4>1, <4>2
      <3>7. CASE k # top /\ ~(k \in Upward(i) /\ k > top)
        BY <1>12, <2>1, <3>1, <3>3, <3>7
      <3> QED  BY <3>5, <3>6, <3>7
    <2> QED  BY <2>3, <2>4, <2>5
  <1> QED  BY <1>1, <1>2, <1>10, <1>11, <1>13 DEF OrderedBut

-----------------------------------------------------------------------------
(* siftup.                                                                 *)

LEMMA LesserProperties ==
    ASSUME NEW rank, NEW tree, Len(tree) \in Nat, NEW i \in 1 .. Len(tree)
    PROVE  /\ Lesser(rank, tree, i) \in Nat /\ Lesser(rank, tree, i) > i
           /\ Parent(Lesser(rank, tree, i)) = i
           /\ ~Ends(rank, tree, i) => Lesser(rank, tree, i) \in 1 .. Len(tree)
  <1>1. Lesser(rank, tree, i) \in {2 * i, 2 * i + 1}
    BY DEF Lesser
  <1>2. /\ 2 * i \in Nat /\ 2 * i > i /\ 2 * i + 1 \in Nat /\ 2 * i + 1 > i /\ 1 <= 2 * i
        /\ i \in Nat
    OBVIOUS
  <1>3. Parent(2 * i) = i /\ Parent(2 * i + 1) = i
    BY <1>2, Children
  <1>4. ASSUME ~Ends(rank, tree, i)
        PROVE  Lesser(rank, tree, i) \in 1 .. Len(tree)
    BY <1>2, <1>4 DEF Ends, Lesser
  <1> QED  BY <1>1, <1>2, <1>3, <1>4

\* Downward is the least set that holds the root and with each place that has one the
\* smaller child of it.
LEMMA DownwardCloses ==
    ASSUME NEW rank, NEW tree, Len(tree) \in Nat \ {0}
    PROVE  /\ Downward(rank, tree) \subseteq 1 .. Len(tree) /\ 1 \in Downward(rank, tree)
           /\ \A k \in Downward(rank, tree) :
                  ~Ends(rank, tree, k) => Lesser(rank, tree, k) \in Downward(rank, tree)
  <1> DEFINE D == Downward(rank, tree)
             Closed(S) == 1 \in S /\ \A k \in S : \/ Ends(rank, tree, k)
                                                  \/ Lesser(rank, tree, k) \in S
  <1>1. D = {j \in 1 .. Len(tree) : \A S \in SUBSET (1 .. Len(tree)) : Closed(S) => j \in S}
    BY DEF Downward
  <1>2. D \subseteq 1 .. Len(tree) /\ 1 \in D
    BY <1>1
  <1>3. ASSUME NEW k \in D, ~Ends(rank, tree, k)
        PROVE  Lesser(rank, tree, k) \in D
    <2>1. k \in 1 .. Len(tree) /\ Lesser(rank, tree, k) \in 1 .. Len(tree)
      <3> HIDE DEF D
      <3> QED  BY <1>2, <1>3, LesserProperties
    <2>2. ASSUME NEW S \in SUBSET (1 .. Len(tree)), Closed(S)
          PROVE  Lesser(rank, tree, k) \in S
      <3>1. k \in S
        BY <1>1, <2>2
      <3> QED  BY <1>3, <2>2, <3>1
    <2> HIDE DEF Closed
    <2> QED  BY <1>1, <2>1, <2>2
  <1> QED  BY <1>2, <1>3

LEMMA DownwardIsLeast ==
    ASSUME NEW rank, NEW tree, NEW S, S \subseteq 1 .. Len(tree), 1 \in S,
           \A k \in S : ~Ends(rank, tree, k) => Lesser(rank, tree, k) \in S
    PROVE  Downward(rank, tree) \subseteq S
  BY DEF Downward

\* It is a chain as well, in which each place but the root is the smaller child of its
\* parent.
LEMMA DownwardIsChain ==
    ASSUME NEW rank, NEW tree, Len(tree) \in Nat \ {0}
    PROVE  /\ \A p, q \in Downward(rank, tree) :
                  p < q => ~Ends(rank, tree, p) /\ Lesser(rank, tree, p) <= q
           /\ \A q \in Downward(rank, tree) :
                  q # 1 => /\ Parent(q) \in Downward(rank, tree)
                           /\ ~Ends(rank, tree, Parent(q))
                           /\ Lesser(rank, tree, Parent(q)) = q
  <1> DEFINE D == Downward(rank, tree)
             L(p) == Lesser(rank, tree, p)
             E(p) == Ends(rank, tree, p)
  <1>1. D \subseteq 1 .. Len(tree) /\ 1 \in D /\ \A k \in D : ~E(k) => L(k) \in D
    BY DownwardCloses
  <1>2. \A k \in 1 .. Len(tree) : L(k) \in Nat /\ L(k) > k /\ Parent(L(k)) = k
    BY LesserProperties
  <1>3. \A S : S \subseteq 1 .. Len(tree) /\ 1 \in S /\ (\A k \in S : ~E(k) => L(k) \in S)
                 => D \subseteq S
    BY DownwardIsLeast
  <1>4. \A k \in D : k \in Nat /\ k >= 1 /\ L(k) \in Nat /\ L(k) > k /\ Parent(L(k)) = k
    BY <1>1, <1>2
  <1> HIDE DEF D, L, E
  <1>5. \A p, q \in D : p < q => ~E(p) /\ L(p) <= q
    <2> DEFINE Fits(p) == \A q \in D : /\ q < p => ~E(q) /\ L(q) <= p
                                       /\ q > p => ~E(p) /\ L(p) <= q
               S == {p \in D : Fits(p)}
    <2>1. 1 \in S
      <3> DEFINE T == {q \in D : q = 1 \/ (~E(1) /\ L(1) <= q)}
      <3>1. T \subseteq 1 .. Len(tree) /\ 1 \in T
        BY <1>1
      <3>2. ASSUME NEW k \in T, ~E(k) PROVE L(k) \in T
        BY <1>1, <1>4, <3>2
      <3>3. D \subseteq T
        <4> HIDE DEF T
        <4> QED  BY <1>3, <3>1, <3>2
      <3> QED  BY <1>1, <1>4, <3>3
    <2>2. ASSUME NEW p \in S, ~E(p) PROVE L(p) \in S
      <3> DEFINE r == L(p)
      <3>1. r \in D /\ p \in D /\ r \in Nat /\ p \in Nat /\ r > p /\ L(r) \in Nat
        BY <1>1, <1>4, <2>2
      <3>2. ASSUME NEW q \in D, q < r PROVE ~E(q) /\ L(q) <= r
        <4>1. q \in Nat /\ L(q) \in Nat
          BY <1>4
        <4>2. ~(q > p)
          BY <2>2, <3>1, <3>2, <4>1
        <4>3. CASE q = p
          BY <2>2, <3>1, <4>3
        <4>4. CASE q < p
          BY <2>2, <3>1, <4>1, <4>4
        <4> QED  BY <3>1, <4>1, <4>2, <4>3, <4>4
      <3> DEFINE T == {q \in D : q <= r \/ (~E(r) /\ L(r) <= q)}
      <3>3. T \subseteq 1 .. Len(tree) /\ 1 \in T
        BY <1>1, <1>4, <3>1
      <3>4. ASSUME NEW k \in T, ~E(k) PROVE L(k) \in T
        <4>1. k \in Nat /\ L(k) \in Nat /\ L(k) > k /\ L(k) \in D
          BY <1>1, <1>4, <3>4
        <4>2. CASE k < r
          BY <3>2, <4>1, <4>2
        <4>3. CASE k = r
          BY <3>1, <3>4, <4>1, <4>3
        <4>4. CASE ~E(r) /\ L(r) <= k
          BY <3>1, <4>1, <4>4
        <4> QED  BY <3>1, <3>4, <4>1, <4>2, <4>3, <4>4
      <3>5. D \subseteq T
        <4> HIDE DEF T
        <4> QED  BY <1>3, <3>3, <3>4
      <3>6. ASSUME NEW q \in D, q > r PROVE ~E(r) /\ L(r) <= q
        BY <1>4, <3>1, <3>5, <3>6
      <3>7. Fits(r)
        BY <3>2, <3>6
      <3> QED  BY <3>1, <3>7
    <2>3. D \subseteq S
      <3>1. S \subseteq 1 .. Len(tree)
        BY <1>1
      <3> HIDE DEF S
      <3> QED  BY <1>3, <2>1, <2>2, <3>1
    <2> QED  BY <2>3
  <1>6. ASSUME NEW q \in D, q # 1
        PROVE  Parent(q) \in D /\ ~E(Parent(q)) /\ L(Parent(q)) = q
    <2> DEFINE S == {k \in D : k # 1 => Parent(k) \in D /\ ~E(Parent(k)) /\ L(Parent(k)) = k}
    <2>1. S \subseteq 1 .. Len(tree) /\ 1 \in S
      BY <1>1
    <2>2. \A k \in S : ~E(k) => L(k) \in S
      BY <1>1, <1>4
    <2>3. D \subseteq S
      <3> HIDE DEF S
      <3> QED  BY <1>3, <2>1, <2>2
    <2> QED  BY <1>6, <2>3
  <1> QED  BY <1>5, <1>6 DEF D, L, E

\* It has one end.
LEMMA BottomEnds ==
    ASSUME NEW rank, NEW tree, Len(tree) \in Nat \ {0}
    PROVE  /\ Bottom(rank, tree) \in Downward(rank, tree) /\ Ends(rank, tree, Bottom(rank, tree))
           /\ \A k \in Downward(rank, tree) :
                  k # Bottom(rank, tree) => k < Bottom(rank, tree) /\ ~Ends(rank, tree, k)
  <1> DEFINE D == Downward(rank, tree)
             b == Bottom(rank, tree)
  <1>1. /\ D \subseteq 1 .. Len(tree) /\ 1 \in D
        /\ \A k \in D : ~Ends(rank, tree, k) => Lesser(rank, tree, k) \in D
        /\ \A p, q \in D : p < q => ~Ends(rank, tree, p) /\ Lesser(rank, tree, p) <= q
    BY DownwardCloses, DownwardIsChain
  <1>2. \A k \in D : Lesser(rank, tree, k) \in Nat /\ Lesser(rank, tree, k) > k
    BY <1>1, LesserProperties
  <1> HIDE DEF D
  <1>3. \E k \in D : Ends(rank, tree, k)
    <2> DEFINE S == {Len(tree) - k : k \in D}
    <2>1. S \subseteq Nat /\ S # {}
      BY <1>1
    <2>2. PICK n \in S : \A m \in S : n <= m
      <3> HIDE DEF S
      <3> QED  BY <2>1, LeastOf
    <2>3. PICK k \in D : n = Len(tree) - k
      BY <2>2
    <2>4. \A l \in D : l <= k
      <3> SUFFICES ASSUME NEW l \in D PROVE l <= k
        OBVIOUS
      <3>1. n <= Len(tree) - l
        BY <2>2
      <3>2. k \in 1 .. Len(tree) /\ l \in 1 .. Len(tree)
        BY <1>1
      <3> QED  BY <2>3, <3>1, <3>2
    <2>5. k \in Nat
      BY <1>1
    <2> QED  BY <1>1, <1>2, <2>4, <2>5
  <1>4. b \in D /\ Ends(rank, tree, b)
    BY <1>3, Zenon DEF Bottom, D
  <1> HIDE DEF b
  <1>5. ASSUME NEW k \in D, k # b PROVE k < b /\ ~Ends(rank, tree, k)
    <2>1. k \in Nat /\ b \in Nat
      <3>1. k \in 1 .. Len(tree) /\ b \in 1 .. Len(tree)
        BY <1>1, <1>4
      <3> QED  BY <3>1
    <2>2. ~(b < k)
      BY <1>1, <1>4
    <2> QED  BY <1>1, <1>4, <1>5, <2>1, <2>2
  <1> QED  BY <1>4, <1>5 DEF D, b

\* Each of the smaller children takes the place above, and the element of the root the
\* place where they end.
LEMMA SunkShape ==
    ASSUME NEW A, NEW rank, NEW tree \in Seq(A), tree # <<>>
    PROVE  LET D == Downward(rank, tree)
               b == Bottom(rank, tree)
               r == Sunk(rank, tree)
           IN  /\ r \in Seq(A) /\ Len(r) = Len(tree) /\ Elements(r) = Elements(tree)
               /\ D \subseteq 1 .. Len(tree) /\ b \in D /\ r[b] = tree[1]
               /\ \A j \in D : j # b => r[j] = tree[Lesser(rank, tree, j)]
               /\ \A j \in 1 .. Len(tree) : j \notin D => r[j] = tree[j]
  <1> DEFINE D == Downward(rank, tree)
             b == Bottom(rank, tree)
             r == Sunk(rank, tree)
             L(j) == Lesser(rank, tree, j)
  <1>0. PICK n \in Nat \ {0} : n = Len(tree)
    OBVIOUS
  <1>1. /\ D \subseteq 1 .. n /\ 1 \in D /\ b \in D
        /\ \A k \in D : k # b => ~Ends(rank, tree, k) /\ L(k) \in D
    BY <1>0, DownwardCloses, BottomEnds
  <1>2. \A q \in D : q # 1 => /\ Parent(q) \in D /\ ~Ends(rank, tree, Parent(q))
                              /\ L(Parent(q)) = q
    BY <1>0, DownwardIsChain
  <1>3. Ends(rank, tree, b)
    BY <1>0, BottomEnds
  <1>4. r = [j \in 1 .. n |-> IF j = b THEN tree[1] ELSE IF j \in D THEN tree[L(j)] ELSE tree[j]]
    BY <1>0 DEF Sunk
  <1> HIDE DEF D, b, r, L
  <1>5. /\ \A j \in 1 .. n : tree[j] \in A
        /\ \A j \in D : j # b => L(j) \in 1 .. n
        /\ 1 \in 1 .. n
    <2>1. \A j \in 1 .. n : tree[j] \in A
      BY <1>0
    <2>2. \A j \in D : j # b => L(j) \in 1 .. n
      BY <1>1
    <2> QED  BY <1>0, <2>1, <2>2
  <1>6. r \in [1 .. n -> A]
    <2>1. \A j \in 1 .. n : r[j] \in A
      BY <1>4, <1>5
    <2> QED  BY <1>4, <2>1
  <1>7. r \in Seq(A) /\ Len(r) = n
    BY <1>6
  <1>8. Elements(r) \subseteq Elements(tree)
    <2> SUFFICES ASSUME NEW x \in Elements(r) PROVE x \in Elements(tree)
      OBVIOUS
    <2>1. PICK j \in 1 .. n : x = r[j]
      BY <1>7 DEF Elements
    <2>2. \E k \in 1 .. n : x = tree[k]
      BY <1>4, <1>5, <2>1
    <2> QED  BY <1>0, <2>2 DEF Elements
  <1>9. Elements(tree) \subseteq Elements(r)
    <2> SUFFICES ASSUME NEW x \in Elements(tree) PROVE x \in Elements(r)
      OBVIOUS
    <2>1. PICK j \in 1 .. n : x = tree[j]
      BY <1>0 DEF Elements
    <2>2. \E k \in 1 .. n : x = r[k]
      <3>1. CASE j \notin D
        BY <1>1, <1>4, <2>1, <3>1
      <3>2. CASE j = 1
        BY <1>1, <1>4, <2>1, <3>2
      <3>3. CASE j \in D /\ j # 1
        <4>1. Parent(j) \in D /\ Parent(j) # b /\ L(Parent(j)) = j
          BY <1>2, <1>3, <3>3
        <4> QED  BY <1>1, <1>4, <2>1, <4>1
      <3> QED  BY <3>1, <3>2, <3>3
    <2> QED  BY <1>7, <2>2 DEF Elements
  <1>10. /\ r[b] = tree[1] /\ \A j \in D : j # b => r[j] = tree[L(j)]
         /\ \A j \in 1 .. n : j \notin D => r[j] = tree[j]
    BY <1>1, <1>4
  <1> QED  BY <1>0, <1>1, <1>7, <1>8, <1>9, <1>10 DEF D, b, r, L

\* When the list is a heap but for its root, the only place that may be wrong after it
\* is the one where the path ends.
LEMMA SunkOrder ==
    ASSUME NEW A, NEW rank \in [A -> Nat], NEW tree \in Seq(A), tree # <<>>,
           OrderedBut(rank, tree, {2, 3}), Untied(rank, tree)
    PROVE  /\ OrderedBut(rank, Sunk(rank, tree), {Bottom(rank, tree)})
           /\ ~Torn(rank, tree, Bottom(rank, tree)) /\ 2 * Bottom(rank, tree) > Len(tree)
  <1> DEFINE D == Downward(rank, tree)
             b == Bottom(rank, tree)
             r == Sunk(rank, tree)
             L(j) == Lesser(rank, tree, j)
  <1>0. PICK n \in Nat \ {0} : n = Len(tree)
    OBVIOUS
  <1>1. /\ D \subseteq 1 .. n /\ 1 \in D /\ b \in D
        /\ \A k \in D : k # b => ~Ends(rank, tree, k) /\ L(k) \in D
    BY <1>0, DownwardCloses, BottomEnds
  <1>2. \A q \in D : q # 1 => Parent(q) \in D /\ ~Ends(rank, tree, Parent(q)) /\ L(Parent(q)) = q
    BY <1>0, DownwardIsChain
  <1>3. Ends(rank, tree, b)
    BY <1>0, BottomEnds
  <1>4. /\ Len(r) = n
        /\ \A j \in D : j # b => r[j] = tree[L(j)]
        /\ \A j \in 1 .. n : j \notin D => r[j] = tree[j]
    BY <1>0, SunkShape
  <1>5. ~Torn(rank, tree, b)
    <2> SUFFICES ASSUME Torn(rank, tree, b) PROVE FALSE
      OBVIOUS
    <2>1. b \in 1 .. n /\ 2 * b + 1 <= n /\ rank[tree[2 * b]] = rank[tree[2 * b + 1]]
      BY <1>0, <1>1 DEF Torn
    <2>2. 2 * b \in 1 .. n /\ 2 * b + 1 \in 1 .. n /\ 2 * b # 2 * b + 1
      BY <1>0, <2>1
    <2> QED  BY <1>0, <2>1, <2>2 DEF Untied
  <1>6. 2 * b > n
    BY <1>0, <1>3, <1>5 DEF Ends
  <1>7. PICK P \in [1 .. n -> Nat] : \A j \in 1 .. n : P[j] = rank[tree[j]]
    <2>1. [j \in 1 .. n |-> rank[tree[j]]] \in [1 .. n -> Nat]
      BY <1>0
    <2> QED  BY <2>1
  <1>8. \A j \in 2 .. n : /\ Parent(j) \in 1 .. n /\ Parent(j) < j
                          /\ j = 2 * Parent(j) \/ j = 2 * Parent(j) + 1
    BY <1>0, Halves
  <1>9. \A j \in 4 .. n : P[Parent(j)] < P[j]
    <2> SUFFICES ASSUME NEW j \in 4 .. n PROVE P[Parent(j)] < P[j]
      OBVIOUS
    <2>1. j \in 2 .. n /\ j \in 1 .. n /\ j \notin {2, 3}
      BY <1>0
    <2> QED  BY <1>0, <1>7, <1>8, <2>1 DEF OrderedBut
  \* The smaller child of a place is smaller than the other.
  <1>10. \A k \in 1 .. n, j \in 2 .. n :
             Parent(j) = k /\ j # L(k) /\ L(k) \in 1 .. n => P[L(k)] < P[j]
    <2> SUFFICES ASSUME NEW k \in 1 .. n, NEW j \in 2 .. n,
                        Parent(j) = k, j # L(k), L(k) \in 1 .. n
                 PROVE  P[L(k)] < P[j]
      OBVIOUS
    <2>1. j = 2 * k \/ j = 2 * k + 1
      BY <1>8
    <2>2. j \in 1 .. n /\ 2 * k \in 1 .. n /\ P[j] \in Nat /\ P[L(k)] \in Nat /\ k \in Nat
      BY <1>0, <1>7, <2>1
    <2>3. P[j] # P[L(k)]
      BY <1>0, <1>7, <2>2 DEF Untied
    <2>4. CASE j = 2 * k
      <3>1. L(k) = 2 * k + 1
        BY <2>4 DEF Lesser
      <3>2. rank[tree[2 * k + 1]] < rank[tree[2 * k]]
        BY <2>2, <3>1 DEF Lesser
      <3> QED  BY <1>7, <2>2, <2>4, <3>1, <3>2
    <2>5. CASE j = 2 * k + 1
      <3>1. L(k) = 2 * k
        BY <2>5 DEF Lesser
      <3>2. ~(rank[tree[2 * k + 1]] < rank[tree[2 * k]])
        BY <1>0, <2>2, <2>5, <3>1 DEF Lesser
      <3>3. ~(P[j] < P[L(k)])
        BY <1>7, <2>2, <2>5, <3>1, <3>2
      <3> QED  BY <2>2, <2>3, <3>3
    <2> QED  BY <2>1, <2>4, <2>5
  <1> HIDE DEF D, b, r, L
  <1>11. ASSUME NEW j \in 2 .. n, j # b
         PROVE  rank[r[Parent(j)]] < rank[r[j]]
    <2> DEFINE k == Parent(j)
    <2>1. k \in 1 .. n /\ j \in 1 .. n /\ k < j /\ j # 1
      BY <1>0, <1>8
    <2>2. k # b
      <3> SUFFICES ASSUME k = b PROVE FALSE
        OBVIOUS
      <3>1. j = 2 * k \/ j = 2 * k + 1
        BY <1>8
      <3>2. 2 * k > n /\ j \in Nat /\ k \in Nat /\ j <= n
        BY <1>0, <1>6, <2>1
      <3> HIDE DEF k
      <3> QED  BY <1>0, <3>1, <3>2
    <2>3. CASE k \in D
      <3>1. r[k] = tree[L(k)] /\ L(k) \in D /\ L(k) \in 1 .. n
        BY <1>1, <1>4, <2>2, <2>3
      <3>2. CASE j = L(k)
        <4>1. j \in D /\ r[j] = tree[L(j)] /\ L(j) \in D /\ L(j) \in 1 .. n
          BY <1>1, <1>4, <1>11, <3>1, <3>2
        <4>2. L(j) > j /\ Parent(L(j)) = j /\ L(j) \in Nat
          BY <1>0, <2>1, LesserProperties DEF L
        <4>3. L(j) \in 4 .. n
          <5>1. L(j) = 2 * j \/ L(j) = 2 * j + 1
            BY DEF L, Lesser
          <5>2. L(j) \in Nat /\ L(j) <= n /\ j \in Nat /\ j >= 2
            BY <1>0, <4>1
          <5>3. L(j) >= 4
            BY <5>1, <5>2
          <5> QED  BY <1>0, <5>2, <5>3
        <4>4. P[j] < P[L(j)]
          BY <1>9, <4>2, <4>3
        <4> QED  BY <1>7, <2>1, <3>1, <3>2, <4>1, <4>4
      <3>3. CASE j # L(k)
        <4>1. j \notin D
          BY <1>2, <2>1, <3>3
        <4>2. r[j] = tree[j]
          BY <1>4, <2>1, <4>1
        <4> QED  BY <1>7, <1>10, <2>1, <3>1, <3>3, <4>2
      <3> QED  BY <3>2, <3>3
    <2>4. CASE k \notin D
      <3>1. j \notin D
        BY <1>2, <2>1, <2>4
      <3>2. r[j] = tree[j] /\ r[k] = tree[k]
        BY <1>4, <2>1, <2>4, <3>1
      <3>3. j \in 4 .. n
        <4>1. k # 1
          BY <1>1, <2>4
        <4>2. j = 2 * k \/ j = 2 * k + 1
          BY <1>8
        <4>3. k \in Nat /\ k >= 2 /\ j \in Nat /\ j <= n
          BY <1>0, <2>1, <4>1
        <4> HIDE DEF k
        <4>4. j >= 4
          BY <4>2, <4>3
        <4> QED  BY <1>0, <4>3, <4>4
      <3> QED  BY <1>7, <1>9, <2>1, <3>2, <3>3
    <2> QED  BY <2>3, <2>4
  <1>12. OrderedBut(rank, r, {b})
    BY <1>4, <1>11 DEF OrderedBut
  <1> QED  BY <1>0, <1>5, <1>6, <1>12 DEF b, r

-----------------------------------------------------------------------------
(* heappush and heappop.                                                   *)

NoTwice(line) == \A i, j \in 1 .. Len(line) : line[i] = line[j] => i = j

LEMMA SameElements ==
    ASSUME NEW A, NEW s \in Seq(A), NEW t \in Seq(A), Len(t) = Len(s),
           Elements(t) = Elements(s), NoTwice(s)
    PROVE  NoTwice(t)
  <1> DEFINE E == Elements(s)
  <1>0. PICK n \in Nat : n = Len(s)
    OBVIOUS
  <1>1. IsFiniteSet(1 .. n)
    BY <1>0, FS_Interval
  <1>2. s \in [1 .. n -> E] /\ \A x \in E : \E i \in 1 .. n : s[i] = x
    BY <1>0 DEF Elements
  <1>3. t \in [1 .. n -> E] /\ \A x \in E : \E i \in 1 .. n : t[i] = x
    <2>1. Len(t) = n /\ t \in [1 .. n -> A]
      BY <1>0
    <2>2. E = {t[j] : j \in 1 .. n}
      BY <2>1 DEF Elements
    <2> QED  BY <2>1, <2>2
  <1>4. \A i, j \in 1 .. n : s[i] = s[j] => i = j
    BY <1>0 DEF NoTwice
  <1> HIDE DEF E
  <1>5. s \in Surjection(1 .. n, E) /\ s \in Injection(1 .. n, E) /\ t \in Surjection(1 .. n, E)
    BY <1>2, <1>3, <1>4 DEF Surjection, Injection, IsInjective
  <1>6. Cardinality(1 .. n) = Cardinality(E)
    BY <1>1, <1>5, FS_Surjection
  <1>7. t \in Injection(1 .. n, E)
    BY <1>1, <1>5, <1>6, FS_SurjSameCardinalityImpliesInj
  <1> QED  BY <1>0, <1>3, <1>7 DEF NoTwice, Injection, IsInjective

\* Nobody is given twice, and no two have the same priority.
LEMMA NoTies ==
    ASSUME NEW A, NEW rank, NEW line \in Seq(A), NoTwice(line),
           \A a, b \in A : rank[a] = rank[b] => a = b
    PROVE  Untied(rank, line)
  <1>0. PICK n \in Nat : n = Len(line)
    OBVIOUS
  <1>1. \A i \in 1 .. n : line[i] \in A
    BY <1>0
  <1> QED  BY <1>0, <1>1 DEF Untied, NoTwice

LEMMA RootIsLeast ==
    ASSUME NEW A, NEW rank \in [A -> Nat], NEW tree \in Seq(A), OrderedBut(rank, tree, {})
    PROVE  \A j \in 1 .. Len(tree) : rank[tree[1]] <= rank[tree[j]]
  <1>0. PICK n \in Nat : n = Len(tree)
    OBVIOUS
  <1> DEFINE S == {j \in 1 .. n : rank[tree[j]] < rank[tree[1]]}
  <1>1. \A j \in 1 .. n : tree[j] \in A /\ rank[tree[j]] \in Nat
    <2>1. \A j \in 1 .. n : tree[j] \in A
      BY <1>0
    <2> QED  BY <2>1
  <1>2. S = {}
    <2> SUFFICES ASSUME S # {} PROVE FALSE
      OBVIOUS
    <2>1. S \subseteq Nat
      BY <1>0
    <2>2. PICK j \in S : \A k \in S : j <= k
      <3> HIDE DEF S
      <3> QED  BY <2>1, LeastOf
    <2>3. j \in Nat /\ j > 1 /\ j \in 2 .. n /\ rank[tree[j]] < rank[tree[1]]
      <3>1. j # 1
        BY <1>0, <1>1
      <3> QED  BY <1>0, <3>1
    <2>4. Parent(j) \in 1 .. n /\ Parent(j) < j /\ Parent(j) \in Nat
      BY <1>0, <2>3, Halves
    <2>5. rank[tree[Parent(j)]] < rank[tree[j]]
      BY <1>0, <2>3 DEF OrderedBut
    <2>6. Parent(j) \in S
      <3>1. /\ rank[tree[Parent(j)]] \in Nat /\ rank[tree[j]] \in Nat /\ rank[tree[1]] \in Nat
        BY <1>0, <1>1, <2>3, <2>4
      <3> QED  BY <2>3, <2>4, <2>5, <3>1
    <2> QED  BY <2>2, <2>3, <2>4, <2>6
  <1>3. ASSUME NEW j \in 1 .. n PROVE rank[tree[1]] <= rank[tree[j]]
    <2>1. ~(rank[tree[j]] < rank[tree[1]])
      BY <1>2
    <2>2. rank[tree[j]] \in Nat /\ rank[tree[1]] \in Nat
      BY <1>0, <1>1
    <2> QED  BY <2>1, <2>2
  <1> QED  BY <1>0, <1>3

LEMMA AppendedList ==
    ASSUME NEW A, NEW tree \in Seq(A), NEW a \in A
    PROVE  /\ Append(tree, a) \in Seq(A) /\ Len(Append(tree, a)) = Len(tree) + 1
           /\ Elements(Append(tree, a)) = Elements(tree) \cup {a}
           /\ Len(tree) + 1 \in 1 .. Len(Append(tree, a))
           /\ \A j \in 1 .. Len(tree) : Append(tree, a)[j] = tree[j]
           /\ Append(tree, a)[Len(tree) + 1] = a
  <1>0. PICK n \in Nat : n = Len(tree)
    OBVIOUS
  <1> DEFINE s == Append(tree, a)
  <1>1. s \in Seq(A) /\ Len(s) = n + 1
    BY <1>0
  <1>2. \A j \in 1 .. n : s[j] = tree[j]
    BY <1>0
  <1>3. s[n + 1] = a
    BY <1>0
  <1>4. \A j \in 1 .. n + 1 : j \in 1 .. n \/ j = n + 1
    BY <1>0
  <1>5. \A j \in 1 .. n : j \in 1 .. n + 1
    BY <1>0
  <1>6. n + 1 \in 1 .. n + 1
    BY <1>0
  <1> HIDE DEF s
  <1>7. Elements(s) = Elements(tree) \cup {a}
    BY <1>0, <1>1, <1>2, <1>3, <1>4, <1>5, <1>6 DEF Elements
  <1> QED  BY <1>0, <1>1, <1>2, <1>3, <1>6, <1>7 DEF s

LEMMA AppendedOnce ==
    ASSUME NEW A, NEW tree \in Seq(A), NEW a \in A, NoTwice(tree), a \notin Elements(tree)
    PROVE  NoTwice(Append(tree, a))
  <1>0. PICK n \in Nat : n = Len(tree)
    OBVIOUS
  <1>1. PICK s : s = Append(tree, a)
    OBVIOUS
  <1>2. /\ Len(s) = n + 1
        /\ \A j \in 1 .. n : s[j] = tree[j]
        /\ s[n + 1] = a
    BY <1>0, <1>1, AppendedList
  <1>3. \A i \in 1 .. n : tree[i] # a
    BY <1>0 DEF Elements
  <1>4. \A j \in 1 .. n + 1 : j \in 1 .. n \/ j = n + 1
    BY <1>0
  <1> QED  BY <1>0, <1>1, <1>2, <1>3, <1>4 DEF NoTwice

\* heappush puts the element in the list, once, whether or not a comparison raises.
LEMMA PushAdds ==
    ASSUME NEW A, NEW rank \in [A -> Nat], NEW tree \in Seq(A), NEW a \in A
    PROVE  /\ Push(rank, tree, a).heap \in Seq(A)
           /\ Len(Push(rank, tree, a).heap) = Len(tree) + 1
           /\ Elements(Push(rank, tree, a).heap) = Elements(tree) \cup {a}
           /\ NoTwice(tree) /\ a \notin Elements(tree) => NoTwice(Push(rank, tree, a).heap)
  <1>1. PICK s : s = Append(tree, a)
    OBVIOUS
  <1>2. PICK i : i = Len(tree) + 1
    OBVIOUS
  <1>3. /\ s \in Seq(A) /\ Len(s) = Len(tree) + 1 /\ i \in 1 .. Len(s)
        /\ Elements(s) = Elements(tree) \cup {a}
    BY <1>1, <1>2, AppendedList
  <1>4. /\ Rise(rank, s, i).heap \in Seq(A) /\ Len(Rise(rank, s, i).heap) = Len(s)
        /\ Elements(Rise(rank, s, i).heap) = Elements(s)
    BY ONLY <1>3, rank \in [A -> Nat], RiseKeepsElements
  <1>5. NoTwice(tree) /\ a \notin Elements(tree) => NoTwice(s)
    BY <1>1, AppendedOnce
  <1>6. NoTwice(s) => NoTwice(Rise(rank, s, i).heap)
    BY ONLY <1>3, <1>4, SameElements
  <1> QED  BY <1>1, <1>2, <1>3, <1>4, <1>5, <1>6 DEF Push

\* Without a tie nothing is raised and the list stays a heap.
LEMMA PushKeepsHeap ==
    ASSUME NEW A, NEW rank \in [A -> Nat], NEW tree \in Seq(A), NEW a \in A,
           \A x, y \in A : rank[x] = rank[y] => x = y,
           NoTwice(tree), a \notin Elements(tree), OrderedBut(rank, tree, {})
    PROVE  /\ ~Push(rank, tree, a).raised
           /\ OrderedBut(rank, Push(rank, tree, a).heap, {})
  <1>0. PICK n \in Nat : n = Len(tree)
    OBVIOUS
  <1>1. PICK s : s = Append(tree, a)
    OBVIOUS
  <1>2. /\ s \in Seq(A) /\ Len(s) = n + 1 /\ n + 1 \in 1 .. Len(s)
        /\ \A j \in 1 .. n : s[j] = tree[j]
        /\ s[n + 1] = a
    BY <1>0, <1>1, AppendedList
  <1>3. NoTwice(s)
    BY <1>1, AppendedOnce
  <1>4. OrderedBut(rank, s, {n + 1})
    <2> SUFFICES ASSUME NEW j \in 2 .. n + 1, j # n + 1
                 PROVE  rank[s[Parent(j)]] < rank[s[j]]
      BY <1>2 DEF OrderedBut
    <2>1. j \in 2 .. n /\ j \in 1 .. n /\ j \in Nat /\ j > 1
      BY <1>0
    <2>2. Parent(j) \in 1 .. n
      BY <1>0, <2>1, Halves
    <2> QED  BY <1>0, <1>2, <2>1, <2>2 DEF OrderedBut
  <1>5. Untied(rank, s)
    BY <1>2, <1>3, NoTies
  <1>6. 2 * (n + 1) > Len(s)
    BY <1>0, <1>2
  <1>7. PICK r : r = Rise(rank, s, n + 1)
    OBVIOUS
  <1>8. OrderedBut(rank, r.heap, {}) /\ ~r.raised
    BY <1>2, <1>4, <1>5, <1>6, <1>7, RiseMakesHeap
  <1> QED  BY <1>0, <1>1, <1>7, <1>8 DEF Push

\* The list that heappop sifts: the last element at the root.
Full(tree) == [SubSeq(tree, 1, Len(tree) - 1) EXCEPT ![1] = tree[Len(tree)]]

LEMMA FullList ==
    ASSUME NEW A, NEW tree \in Seq(A), tree # <<>>, SubSeq(tree, 1, Len(tree) - 1) # <<>>
    PROVE  /\ Full(tree) \in Seq(A) /\ Len(Full(tree)) = Len(tree) - 1 /\ Full(tree) # <<>>
           /\ Full(tree)[1] = tree[Len(tree)]
           /\ \A j \in 2 .. Len(tree) - 1 : Full(tree)[j] = tree[j]
           /\ Elements(tree) = Elements(Full(tree)) \cup {tree[1]}
           /\ Len(tree) - 1 \in Nat \ {0}
  <1>0. PICK n \in Nat \ {0} : n = Len(tree)
    OBVIOUS
  <1>1. PICK m \in Nat : m = n - 1
    BY <1>0
  <1>2. PICK rest : rest = SubSeq(tree, 1, m)
    OBVIOUS
  <1>3. rest \in Seq(A) /\ Len(rest) = m /\ m # 0
    BY <1>0, <1>1, <1>2
  <1>4. \A j \in 1 .. m : rest[j] = tree[j]
    BY <1>0, <1>1, <1>2
  <1>5. PICK full : full = [rest EXCEPT ![1] = tree[n]]
    OBVIOUS
  <1>6. 1 \in 1 .. m /\ n \in 1 .. n /\ tree[n] \in A /\ tree[1] \in A
    BY <1>0, <1>1, <1>3
  <1>7. full \in Seq(A) /\ Len(full) = m /\ full # <<>>
    BY <1>3, <1>5, <1>6
  <1>8. full[1] = tree[n]
    BY <1>3, <1>5, <1>6
  <1>9. \A j \in 2 .. m : full[j] = tree[j] /\ j \in 1 .. m
    BY <1>1, <1>3, <1>4, <1>5
  <1>10. \A j \in 1 .. n : j = 1 \/ j = n \/ j \in 2 .. m
    BY <1>0, <1>1
  <1>11. \A j \in 1 .. m : j = 1 \/ j \in 2 .. m
    BY <1>0, <1>1
  <1>12. \A j \in 1 .. m : j \in 1 .. n
    BY <1>0, <1>1
  <1>13. Elements(tree) = Elements(full) \cup {tree[1]}
    <2>1. Elements(tree) \subseteq Elements(full) \cup {tree[1]}
      BY <1>0, <1>6, <1>7, <1>8, <1>9, <1>10 DEF Elements
    <2>2. Elements(full) \subseteq Elements(tree)
      BY <1>0, <1>6, <1>7, <1>8, <1>9, <1>11, <1>12 DEF Elements
    <2>3. tree[1] \in Elements(tree)
      BY <1>0, <1>6, <1>12 DEF Elements
    <2> QED  BY <2>1, <2>2, <2>3
  <1> QED  BY <1>0, <1>1, <1>2, <1>3, <1>5, <1>7, <1>8, <1>9, <1>13 DEF Full

LEMMA FullOnce ==
    ASSUME NEW A, NEW tree \in Seq(A), tree # <<>>, SubSeq(tree, 1, Len(tree) - 1) # <<>>,
           NoTwice(tree)
    PROVE  NoTwice(Full(tree)) /\ tree[1] \notin Elements(Full(tree))
  <1>0. PICK n \in Nat \ {0} : n = Len(tree)
    OBVIOUS
  <1>1. PICK full : full = Full(tree)
    OBVIOUS
  <1>2. PICK m \in Nat \ {0} : m = n - 1
    BY <1>0, FullList
  <1>3. /\ Len(full) = m /\ full[1] = tree[n]
        /\ \A j \in 2 .. m : full[j] = tree[j]
    BY <1>0, <1>1, <1>2, FullList
  <1>4. \A j \in 1 .. m : /\ j \in 1 .. n /\ j # n /\ (j = 1 \/ j \in 2 .. m)
    BY <1>0, <1>2
  <1>5. \A i, j \in 1 .. n : tree[i] = tree[j] => i = j
    BY <1>0 DEF NoTwice
  <1>6. 1 \in 1 .. n /\ n \in 1 .. n /\ n # 1
    BY <1>0, <1>2
  <1>7. \A j \in 2 .. m : j # 1 /\ j \in 1 .. m
    BY <1>2
  <1>8. NoTwice(full)
    BY <1>3, <1>4, <1>5, <1>6, <1>7 DEF NoTwice
  <1>9. \A j \in 1 .. m : full[j] # tree[1]
    BY <1>3, <1>4, <1>5, <1>6, <1>7
  <1> QED  BY <1>1, <1>3, <1>8, <1>9 DEF Elements

\* heappop takes the first element off the list, whether or not a comparison raises.
LEMMA PopRemoves ==
    ASSUME NEW A, NEW rank \in [A -> Nat], NEW tree \in Seq(A), tree # <<>>
    PROVE  /\ Pop(rank, tree).heap \in Seq(A)
           /\ Len(Pop(rank, tree).heap) = Len(tree) - 1
           /\ Elements(tree) = Elements(Pop(rank, tree).heap) \cup {tree[1]}
           /\ NoTwice(tree) => /\ NoTwice(Pop(rank, tree).heap)
                               /\ tree[1] \notin Elements(Pop(rank, tree).heap)
  <1>1. CASE SubSeq(tree, 1, Len(tree) - 1) = <<>>
    <2>1. Pop(rank, tree).heap = <<>>
      BY <1>1 DEF Pop
    <2>2. Len(tree) = 1
      <3>1. PICK n \in Nat \ {0} : n = Len(tree)
        OBVIOUS
      <3>2. Len(SubSeq(tree, 1, n - 1)) = n - 1
        BY <3>1
      <3>3. Len(<<>>) = 0
        OBVIOUS
      <3>4. n - 1 = Len(SubSeq(tree, 1, Len(tree) - 1))
        BY ONLY <3>1, <3>2
      <3>5. n - 1 = 0
        BY ONLY <1>1, <3>3, <3>4
      <3>6. n = 1
        BY <3>5
      <3> QED  BY ONLY <3>1, <3>6
    <2>3. Elements(tree) = {tree[1]} /\ Elements(<<>>) = {}
      BY <2>2 DEF Elements
    <2>4. <<>> \in Seq(A) /\ Len(<<>>) = 0
      OBVIOUS
    <2>5. NoTwice(<<>>)
      BY <2>4 DEF NoTwice
    <2> QED  BY <2>1, <2>2, <2>3, <2>4, <2>5
  <1>2. CASE SubSeq(tree, 1, Len(tree) - 1) # <<>>
    <2>1. PICK full : full = Full(tree)
      OBVIOUS
    <2>2. /\ full \in Seq(A) /\ Len(full) = Len(tree) - 1 /\ full # <<>>
          /\ Elements(tree) = Elements(full) \cup {tree[1]}
          /\ Len(full) \in Nat \ {0}
      BY <1>2, <2>1, FullList
    <2>3. PICK s : s = Sunk(rank, full)
      OBVIOUS
    <2>4. PICK b : b = Bottom(rank, full)
      OBVIOUS
    <2>5. /\ s \in Seq(A) /\ Len(s) = Len(full) /\ Elements(s) = Elements(full)
          /\ b \in 1 .. Len(s)
      BY <2>2, <2>3, <2>4, SunkShape
    <2>6. /\ Rise(rank, s, b).heap \in Seq(A) /\ Len(Rise(rank, s, b).heap) = Len(s)
          /\ Elements(Rise(rank, s, b).heap) = Elements(s)
      BY <2>5, RiseKeepsElements
    <2>7. \/ Pop(rank, tree).heap = s
          \/ Pop(rank, tree).heap = Rise(rank, s, b).heap
      BY <1>2, <2>1, <2>3, <2>4 DEF Pop, Full
    <2>8. NoTwice(tree) => NoTwice(full) /\ tree[1] \notin Elements(full)
      BY <1>2, <2>1, FullOnce
    <2>9. NoTwice(full) => NoTwice(s)
      BY ONLY <2>2, <2>5, SameElements
    <2>10. NoTwice(s) => NoTwice(Rise(rank, s, b).heap)
      BY ONLY <2>5, <2>6, SameElements
    <2> QED  BY <2>2, <2>5, <2>6, <2>7, <2>8, <2>9, <2>10
  <1> QED  BY <1>1, <1>2

\* Without a tie nothing is raised, and the list stays a heap.
LEMMA PopKeepsHeap ==
    ASSUME NEW A, NEW rank \in [A -> Nat], NEW tree \in Seq(A), tree # <<>>,
           \A x, y \in A : rank[x] = rank[y] => x = y,
           NoTwice(tree), OrderedBut(rank, tree, {})
    PROVE  /\ ~Pop(rank, tree).raised
           /\ OrderedBut(rank, Pop(rank, tree).heap, {})
  <1>0. PICK n \in Nat \ {0} : n = Len(tree)
    OBVIOUS
  <1>1. CASE SubSeq(tree, 1, Len(tree) - 1) = <<>>
    <2>1. Pop(rank, tree) = [heap |-> <<>>, raised |-> FALSE]
      BY <1>1 DEF Pop
    <2>2. Len(<<>>) = 0
      OBVIOUS
    <2> QED  BY <2>1, <2>2 DEF OrderedBut
  <1>2. CASE SubSeq(tree, 1, Len(tree) - 1) # <<>>
    <2>1. PICK full : full = Full(tree)
      OBVIOUS
    <2>2. PICK m \in Nat \ {0} : m = n - 1
      BY <1>0, <1>2, FullList
    <2>3. /\ full \in Seq(A) /\ Len(full) = m /\ full # <<>>
          /\ full[1] = tree[n]
          /\ \A j \in 2 .. m : full[j] = tree[j]
      BY <1>0, <1>2, <2>1, <2>2, FullList
    <2>4. \A j \in 1 .. m : /\ j \in 1 .. n /\ j # n /\ (j = 1 \/ j \in 2 .. m)
      BY <1>0, <2>2
    <2>5. NoTwice(full)
      BY <1>2, <2>1, FullOnce
    <2>6. Untied(rank, full)
      BY <2>3, <2>5, NoTies
    <2>7. OrderedBut(rank, full, {2, 3})
      <3> SUFFICES ASSUME NEW j \in 2 .. m, j \notin {2, 3}
                   PROVE  rank[full[Parent(j)]] < rank[full[j]]
        BY <2>3 DEF OrderedBut
      <3>1. j \in Nat /\ j > 1 /\ j \in 2 .. n /\ j >= 4
        BY <1>0, <2>2
      <3>2. /\ Parent(j) \in Nat /\ Parent(j) < j
            /\ j = 2 * Parent(j) \/ j = 2 * Parent(j) + 1
        BY <3>1, Halves
      <3>3. Parent(j) \in 2 .. m
        BY <2>2, <3>1, <3>2
      <3> QED  BY <1>0, <2>3, <3>1, <3>3 DEF OrderedBut
    <2>8. PICK s : s = Sunk(rank, full)
      OBVIOUS
    <2>9. PICK b : b = Bottom(rank, full)
      OBVIOUS
    <2>10. OrderedBut(rank, s, {b}) /\ ~Torn(rank, full, b) /\ 2 * b > m
      BY <2>3, <2>6, <2>7, <2>8, <2>9, SunkOrder
    <2>11. /\ s \in Seq(A) /\ Len(s) = m /\ Elements(s) = Elements(full) /\ b \in 1 .. Len(s)
      BY <2>3, <2>8, <2>9, SunkShape
    <2>12. NoTwice(s)
      BY <2>3, <2>5, <2>11, SameElements
    <2>13. Untied(rank, s)
      BY <2>11, <2>12, NoTies
    <2>14. PICK r : r = Rise(rank, s, b)
      OBVIOUS
    <2>15. OrderedBut(rank, r.heap, {}) /\ ~r.raised
      BY <2>10, <2>11, <2>13, <2>14, RiseMakesHeap
    <2>16. Pop(rank, tree) = r
      BY <1>2, <2>1, <2>8, <2>9, <2>10, <2>14 DEF Pop, Full
    <2> QED  BY <2>15, <2>16
  <1> QED  BY <1>1, <1>2

-----------------------------------------------------------------------------
(* The queue.  What is true of it whatever the priorities are (QueueInv),  *)
(* and what no two equal priorities add (NoTieInv): the list is a heap,    *)
(* and an action is in one place.                                          *)

Stages == {"new", "put", "log", "count", "idle", "wait", "fetch", "refused"}
Told == {"none", "raised", "full", "queued", "unknown", "timeout", "missing", "pending"}

QueueTyped ==
    /\ prio \in [Actions -> Nat]
    /\ heap \in Seq(Actions)
    /\ results \in [Actions -> {"absent", "pending"} \cup Outcomes]
    /\ stage \in [Actions -> Stages]
    /\ told \in [Actions -> Told \cup Outcomes]
    /\ hand \in Actions \cup {Nothing}
    /\ reported \in Seq([action : Actions, status : Outcomes])

\* Nobody has seen the action: it is in no place.
Untouched(a) == a \notin Elements(heap) /\ a # hand /\ ~IsReported(a)

Recorded(a, s) == \E i \in 1 .. Len(reported) :
                      reported[i].action = a /\ reported[i].status = s

ResultInv(a) ==
    /\ results[a] = "absent" => stage[a] = "new" \/ IsReported(a)
    /\ results[a] \in Outcomes => Recorded(a, results[a])

ToldInv(a) ==
    /\ told[a] \in Outcomes => Recorded(a, told[a])
    /\ told[a] \in {"unknown", "missing"} => IsReported(a)
    /\ told[a] = "full" => stage[a] = "refused" /\ Untouched(a)

FreshInv(a) == stage[a] \in {"new", "put"} => Untouched(a)

QueueInv == /\ QueueTyped
            /\ \A a \in Actions : ResultInv(a) /\ ToldInv(a) /\ FreshInv(a)

\* What a step that only moves a client changes.
Steady == UNCHANGED <<heap, bridge>>

\* Reports are added at the end.
LEMMA Reporting ==
    ASSUME QueueTyped, NEW s \in Outcomes, Report(s)
    PROVE  /\ hand \in Actions /\ reported' \in Seq([action : Actions, status : Outcomes])
           /\ \A a, t : Recorded(a, t) => Recorded(a, t)'
           /\ \A a : a = hand => Recorded(a, s)'
           /\ \A a : IsReported(a)' <=> IsReported(a) \/ a = hand
           /\ \A i \in 1 .. Len(reported) : reported'[i] = reported[i]
           /\ Len(reported') = Len(reported) + 1 /\ reported'[Len(reported) + 1].action = hand
  <1> DEFINE r == [action |-> hand, status |-> s]
  <1>0. PICK n \in Nat : n = Len(reported)
    BY DEF QueueTyped
  <1>1. hand \in Actions /\ reported' = Append(reported, r)
    BY DEF Report, QueueTyped
  <1>2. r \in [action : Actions, status : Outcomes] /\ r.action = hand /\ r.status = s
    BY <1>1
  <1>3. /\ reported \in Seq([action : Actions, status : Outcomes])
        /\ Append(reported, r) \in Seq([action : Actions, status : Outcomes])
        /\ Len(Append(reported, r)) = n + 1
        /\ \A i \in 1 .. n : Append(reported, r)[i] = reported[i]
        /\ Append(reported, r)[n + 1] = r
    BY <1>0, <1>2 DEF QueueTyped
  <1>4. /\ n + 1 \in 1 .. n + 1 /\ \A i \in 1 .. n : i \in 1 .. n + 1
        /\ \A i \in 1 .. n + 1 : i \in 1 .. n \/ i = n + 1
    BY <1>0
  <1> HIDE DEF r
  <1>5. \A a, t : Recorded(a, t) => Recorded(a, t)'
    BY <1>0, <1>1, <1>3, <1>4 DEF Recorded
  <1>6. \A a : a = hand => Recorded(a, s)'
    BY <1>0, <1>1, <1>2, <1>3, <1>4 DEF Recorded
  <1>7. \A a : IsReported(a)' <=> IsReported(a) \/ a = hand
    BY <1>0, <1>1, <1>2, <1>3, <1>4 DEF IsReported
  <1> QED  BY <1>0, <1>1, <1>2, <1>3, <1>5, <1>6, <1>7

\* A place in the records is of an action that was reported.
LEMMA RecordedIsReported ==
    ASSUME NEW a, NEW s, Recorded(a, s) PROVE IsReported(a)
  BY DEF Recorded, IsReported

\* A step that leaves the queue and the bridge alone and moves one client, who is told
\* something that is so.
LEMMA ClientMoves ==
    ASSUME QueueInv, Steady, UNCHANGED <<prio, results>>, NEW a \in Actions,
           stage' \in [Actions -> Stages], told' \in [Actions -> Told \cup Outcomes],
           \A b \in Actions : b # a => stage'[b] = stage[b] /\ told'[b] = told[b],
           stage[a] # "new", stage'[a] \notin {"new", "put"}, ToldInv(a)'
    PROVE  QueueInv'
  <1>1. QueueTyped'
    BY DEF QueueInv, QueueTyped, Steady, bridge
  <1>2. \A b : Untouched(b)' <=> Untouched(b)
    BY DEF Untouched, Elements, IsReported, Steady, bridge
  <1>3. \A b, s : (Recorded(b, s)' <=> Recorded(b, s)) /\ (IsReported(b)' <=> IsReported(b))
    BY DEF Recorded, IsReported, Steady, bridge
  <1>4. ASSUME NEW b \in Actions
        PROVE  ResultInv(b)' /\ ToldInv(b)' /\ FreshInv(b)'
    <2>1. ResultInv(b) /\ ToldInv(b) /\ FreshInv(b)
      BY DEF QueueInv
    <2>2. ResultInv(b)'
      BY <1>3, <2>1 DEF ResultInv
    <2>3. ToldInv(b)'
      BY <1>2, <1>3, <2>1 DEF ToldInv
    <2>4. FreshInv(b)'
      BY <1>2, <2>1 DEF FreshInv
    <2> QED  BY <2>2, <2>3, <2>4
  <1> QED  BY <1>1, <1>4 DEF QueueInv

\* The elements of the list are actions.
LEMMA InHeap ==
    ASSUME QueueTyped
    PROVE  Elements(heap) \subseteq Actions /\ ToSet(heap) = Elements(heap)
  <1>1. \A i \in 1 .. Len(heap) : heap[i] \in Actions
    BY DEF QueueTyped
  <1>2. DOMAIN heap = 1 .. Len(heap)
    BY DEF QueueTyped
  <1> QED  BY <1>1, <1>2 DEF Elements, ToSet

LEMMA PlaceStep == ASSUME QueueInv, NEW a \in Actions, Place(a) PROVE QueueInv'
  <1>1. QueueTyped' /\ stage' = [stage EXCEPT ![a] = "put"]
        /\ results' = [results EXCEPT ![a] = "pending"]
    BY DEF QueueInv, QueueTyped, Place, Goto, bridge, Stages
  <1>2. \A b : Untouched(b)' <=> Untouched(b)
    BY DEF Untouched, Elements, IsReported, Place, bridge
  <1>3. \A b, s : (Recorded(b, s)' <=> Recorded(b, s)) /\ (IsReported(b)' <=> IsReported(b))
    BY DEF Recorded, IsReported, Place, bridge
  <1>4. told' = told /\ stage[a] = "new" /\ stage \in [Actions -> Stages]
        /\ results \in [Actions -> {"absent", "pending"} \cup Outcomes]
    BY DEF Place, QueueInv, QueueTyped
  <1>5. ASSUME NEW b \in Actions
        PROVE  ResultInv(b)' /\ ToldInv(b)' /\ FreshInv(b)'
    <2>1. ResultInv(b) /\ ToldInv(b) /\ FreshInv(b)
      BY DEF QueueInv
    <2>2. ResultInv(b)'
      <3>1. CASE b = a
        <4>1. results'[b] = "pending" /\ "pending" \notin Outcomes
          BY <1>1, <1>4, <3>1, OutcomesAssumption
        <4> QED  BY <4>1 DEF ResultInv
      <3>2. CASE b # a
        BY <1>1, <1>3, <1>4, <2>1, <3>2 DEF ResultInv
      <3> QED  BY <3>1, <3>2
    <2>3. ToldInv(b)'
      BY <1>1, <1>2, <1>3, <1>4, <2>1 DEF ToldInv
    <2>4. FreshInv(b)'
      BY <1>1, <1>2, <1>4, <2>1 DEF FreshInv
    <2> QED  BY <2>2, <2>3, <2>4
  <1> QED  BY <1>1, <1>5 DEF QueueInv

LEMMA PutStep == ASSUME QueueInv, NEW a \in Actions, Put(a) PROVE QueueInv'
  <1>0. QueueTyped
    BY DEF QueueInv
  <1>1. PICK h : h = Push(prio, heap, a).heap
    OBVIOUS
  <1>2. h \in Seq(Actions) /\ Elements(h) = Elements(heap) \cup {a}
    <2>1. prio \in [Actions -> Nat] /\ heap \in Seq(Actions)
      BY <1>0 DEF QueueTyped
    <2> QED  BY ONLY <1>1, <2>1, a \in Actions, PushAdds
  <1>3. /\ heap' = h /\ stage[a] = "put"
        /\ UNCHANGED <<prio, results, hand, reported>>
        /\ \/ stage' = [stage EXCEPT ![a] = "refused"] /\ told' = [told EXCEPT ![a] = "raised"]
           \/ stage' = [stage EXCEPT ![a] = "log"] /\ told' = told
    BY <1>1 DEF Put, Goto, Tell, bridge
  <1>4. QueueTyped'
    BY <1>0, <1>2, <1>3 DEF QueueTyped, Stages, Told
  <1>5. \A b : b # a => (Untouched(b)' <=> Untouched(b))
    <2>1. Elements(heap)' = Elements(heap) \cup {a}
      BY <1>2, <1>3 DEF Elements
    <2> QED  BY <1>3, <2>1 DEF Untouched, IsReported
  <1>6. \A b, s : (Recorded(b, s)' <=> Recorded(b, s)) /\ (IsReported(b)' <=> IsReported(b))
    BY <1>3 DEF Recorded, IsReported
  <1>7. \A b \in Actions : b # a => stage'[b] = stage[b] /\ told'[b] = told[b]
    BY <1>0, <1>3 DEF QueueTyped
  <1>8. stage'[a] \in {"refused", "log"} /\ (told'[a] = told[a] \/ told'[a] = "raised")
    BY <1>0, <1>3 DEF QueueTyped
  <1>9. ASSUME NEW b \in Actions
        PROVE  ResultInv(b)' /\ ToldInv(b)' /\ FreshInv(b)'
    <2>1. ResultInv(b) /\ ToldInv(b) /\ FreshInv(b)
      BY DEF QueueInv
    <2>2. ResultInv(b)'
      BY <1>3, <1>6, <1>7, <2>1 DEF ResultInv
    <2>3. ToldInv(b)'
      <3>1. CASE b # a
        BY <1>5, <1>6, <1>7, <2>1, <3>1 DEF ToldInv
      <3>2. CASE b = a
        <4>1. told[a] # "full"
          BY <1>3, <2>1, <3>2 DEF ToldInv
        <4>2. "raised" \notin Outcomes
          BY OutcomesAssumption
        <4> QED  BY <1>6, <1>8, <2>1, <3>2, <4>1, <4>2 DEF ToldInv
      <3> QED  BY <3>1, <3>2
    <2>4. FreshInv(b)'
      BY <1>5, <1>7, <1>8, <2>1 DEF FreshInv
    <2> QED  BY <2>2, <2>3, <2>4
  <1> QED  BY <1>4, <1>9 DEF QueueInv

LEMMA MovingSteps ==
    ASSUME QueueInv, NEW a \in Actions,
           \/ PutTimeout(a) \/ LogAction(a) \/ Count(a) \/ Wait(a)
           \/ Wake(a) \/ WaitTimeout(a) \/ Fetch(a)
    PROVE  QueueInv'
  <1>0. QueueTyped /\ ResultInv(a) /\ ToldInv(a) /\ FreshInv(a)
    BY DEF QueueInv
  <1>1. Steady /\ UNCHANGED <<prio, results>>
    BY DEF PutTimeout, LogAction, Count, Wait, Wake, WaitTimeout, Fetch, Steady, bridge
  <1>2. stage[a] \notin {"new", "refused"}
    BY DEF PutTimeout, LogAction, Count, Wait, Wake, WaitTimeout, Fetch
  <1>3. PICK g \in {"refused", "count", "idle", "wait", "fetch"} :
            stage' = stage \/ stage' = [stage EXCEPT ![a] = g]
    BY DEF PutTimeout, LogAction, Count, Wait, Wake, WaitTimeout, Fetch, Goto
  <1>4. /\ stage' \in [Actions -> Stages]
        /\ \A b \in Actions : b # a => stage'[b] = stage[b]
    BY <1>0, <1>3 DEF QueueTyped, Stages
  <1>5. stage'[a] \notin {"new", "put"}
    <2>1. stage[a] = "put" => stage' = [stage EXCEPT ![a] = "refused"]
      BY DEF PutTimeout, LogAction, Count, Wait, Wake, WaitTimeout, Fetch, Goto
    <2> QED  BY <1>0, <1>2, <1>3, <2>1 DEF QueueTyped
  <1>6. /\ told' \in [Actions -> Told \cup Outcomes]
        /\ \A b \in Actions : b # a => told'[b] = told[b]
        /\ \/ told'[a] = told[a]
           \/ told'[a] \in {"queued", "timeout"}
           \/ told'[a] \in {"unknown", "missing"} /\ results[a] = "absent"
           \/ told'[a] = results[a] /\ results[a] # "absent"
           \/ told'[a] = "full" /\ PutTimeout(a)
    <2>1. \/ told' = told
          \/ \E s \in {"queued", "timeout"} : told' = [told EXCEPT ![a] = s]
          \/ \E s \in {"unknown", "missing"} :
                 told' = [told EXCEPT ![a] = s] /\ results[a] = "absent"
          \/ told' = [told EXCEPT ![a] = results[a]] /\ results[a] # "absent"
          \/ told' = [told EXCEPT ![a] = "full"] /\ PutTimeout(a)
      BY DEF PutTimeout, LogAction, Count, Wait, Wake, WaitTimeout, Fetch, Tell
    <2>2. results[a] \in {"absent", "pending"} \cup Outcomes
      BY <1>0 DEF QueueTyped
    <2> QED  BY <1>0, <2>1, <2>2 DEF QueueTyped, Told
  <1>7. /\ \A s : Recorded(a, s)' <=> Recorded(a, s)
        /\ IsReported(a)' <=> IsReported(a)
        /\ Untouched(a)' <=> Untouched(a)
    BY <1>1 DEF Recorded, IsReported, Untouched, Elements, Steady, bridge
  <1>8. ToldInv(a)'
    <2>0. {"queued", "timeout", "unknown", "missing", "pending", "full", "absent"} \cap Outcomes = {}
      BY OutcomesAssumption
    <2>1. CASE told'[a] = told[a]
      <3>1. told[a] # "full"
        BY <1>0, <1>2 DEF ToldInv
      <3> QED  BY <1>0, <1>7, <2>1, <3>1 DEF ToldInv
    <2>2. CASE told'[a] \in {"queued", "timeout"}
      BY <2>0, <2>2 DEF ToldInv
    <2>3. CASE told'[a] \in {"unknown", "missing"} /\ results[a] = "absent"
      <3>1. IsReported(a)
        BY <1>0, <1>2, <2>3 DEF ResultInv
      <3> QED  BY <1>7, <2>0, <2>3, <3>1 DEF ToldInv
    <2>4. CASE told'[a] = results[a] /\ results[a] # "absent"
      <3>1. results[a] = "pending" \/ results[a] \in Outcomes
        BY <1>0, <2>4 DEF QueueTyped
      <3> QED  BY <1>0, <1>7, <2>0, <2>4, <3>1 DEF ToldInv, ResultInv
    <2>5. CASE told'[a] = "full" /\ PutTimeout(a)
      <3>1. stage[a] = "put" /\ stage' = [stage EXCEPT ![a] = "refused"]
        BY <2>5 DEF PutTimeout, Goto
      <3>2. stage'[a] = "refused" /\ Untouched(a)
        BY <1>0, <3>1 DEF FreshInv, QueueTyped
      <3> QED  BY <1>7, <2>0, <2>5, <3>2 DEF ToldInv
    <2> QED  BY <1>6, <2>1, <2>2, <2>3, <2>4, <2>5
  <1> QED  BY <1>1, <1>2, <1>4, <1>5, <1>6, <1>8, ClientMoves

LEMMA DequeueQueue == ASSUME QueueInv, Dequeue PROVE QueueInv'
  <1>0. QueueTyped
    BY DEF QueueInv
  <1>1. PICK h : h = Pop(prio, heap).heap
    OBVIOUS
  <1>2. heap # <<>> /\ heap' = h /\ hand = Nothing /\ hand' \in {Nothing, heap[1]}
        /\ UNCHANGED <<prio, results, stage, told, reported>>
    BY <1>1 DEF Dequeue
  <1>3. h \in Seq(Actions) /\ Elements(heap) = Elements(h) \cup {heap[1]}
    <2>1. prio \in [Actions -> Nat] /\ heap \in Seq(Actions) /\ heap # <<>>
      BY <1>0, <1>2 DEF QueueTyped
    <2> QED  BY ONLY <1>1, <2>1, PopRemoves
  <1>4. heap[1] \in Actions
    BY <1>0, <1>3, InHeap
  <1>5. QueueTyped'
    BY <1>0, <1>2, <1>3, <1>4 DEF QueueTyped
  <1>6. \A b \in Actions : Untouched(b) => Untouched(b)'
    <2>1. Elements(heap)' = Elements(h)
      BY <1>2 DEF Elements
    <2> QED  BY <1>2, <1>3, <2>1, NothingAssumption DEF Untouched, IsReported
  <1>7. \A b, s : (Recorded(b, s)' <=> Recorded(b, s)) /\ (IsReported(b)' <=> IsReported(b))
    BY <1>2 DEF Recorded, IsReported
  <1>8. ASSUME NEW b \in Actions
        PROVE  ResultInv(b)' /\ ToldInv(b)' /\ FreshInv(b)'
    <2>1. ResultInv(b) /\ ToldInv(b) /\ FreshInv(b)
      BY DEF QueueInv
    <2> QED  BY <1>2, <1>6, <1>7, <2>1 DEF ResultInv, ToldInv, FreshInv
  <1> QED  BY <1>5, <1>8 DEF QueueInv

LEMMA ReportStep == ASSUME QueueInv, NEW s \in Outcomes, Report(s) PROVE QueueInv'
  <1>0. QueueTyped
    BY DEF QueueInv
  <1>1. /\ results' = [results EXCEPT ![hand] = s] /\ hand' = Nothing
        /\ UNCHANGED <<prio, heap, stage, told>>
    BY DEF Report
  <1>2. /\ hand \in Actions /\ reported' \in Seq([action : Actions, status : Outcomes])
        /\ \A a, t : Recorded(a, t) => Recorded(a, t)'
        /\ \A a : a = hand => Recorded(a, s)'
        /\ \A a : IsReported(a)' <=> IsReported(a) \/ a = hand
    BY <1>0, Reporting
  <1>3. QueueTyped'
    BY <1>0, <1>1, <1>2 DEF QueueTyped
  <1>4. \A b \in Actions : Untouched(b) => Untouched(b)'
    <2>1. Elements(heap)' = Elements(heap)
      BY <1>1 DEF Elements
    <2> QED  BY <1>1, <1>2, <2>1, NothingAssumption DEF Untouched
  <1>5. \A b \in Actions : results'[b] = IF b = hand THEN s ELSE results[b]
    BY <1>0, <1>1, <1>2 DEF QueueTyped
  <1>6. ASSUME NEW b \in Actions
        PROVE  ResultInv(b)' /\ ToldInv(b)' /\ FreshInv(b)'
    <2>1. ResultInv(b) /\ ToldInv(b) /\ FreshInv(b)
      BY DEF QueueInv
    <2>2. ResultInv(b)'
      <3>1. CASE b = hand
        <4>1. results'[b] = s /\ s # "absent"
          BY <1>5, <3>1, OutcomesAssumption
        <4> QED  BY <1>2, <3>1, <4>1 DEF ResultInv
      <3>2. CASE b # hand
        <4>1. results'[b] = results[b]
          BY <1>5, <3>2
        <4> QED  BY <1>1, <1>2, <2>1, <4>1 DEF ResultInv
      <3> QED  BY <3>1, <3>2
    <2>3. ToldInv(b)'
      BY <1>1, <1>2, <1>4, <2>1 DEF ToldInv
    <2>4. FreshInv(b)'
      BY <1>1, <1>4, <2>1 DEF FreshInv
    <2> QED  BY <2>2, <2>3, <2>4
  <1> QED  BY <1>3, <1>6 DEF QueueInv

LEMMA CleanupStep ==
    ASSUME QueueInv, NEW n \in 1 .. Len(reported), Cleanup(n)
    PROVE  QueueInv'
  <1>0. QueueTyped
    BY DEF QueueInv
  <1>1. /\ results' = [a \in Actions |-> IF a \in Old(n) THEN "absent" ELSE results[a]]
        /\ UNCHANGED <<prio, heap, stage, told, hand, reported>>
    BY DEF Cleanup, bridge
  <1>2. QueueTyped'
    <2>1. results' \in [Actions -> {"absent", "pending"} \cup Outcomes]
      BY <1>0, <1>1 DEF QueueTyped
    <2> QED  BY <1>0, <1>1, <2>1 DEF QueueTyped
  <1>3. /\ \A b : Untouched(b)' <=> Untouched(b)
        /\ \A b, s : Recorded(b, s)' <=> Recorded(b, s)
        /\ \A b : IsReported(b)' <=> IsReported(b)
    BY <1>1 DEF Untouched, Elements, IsReported, Recorded
  <1>4. \A b \in Old(n) : IsReported(b)
    <2>1. Len(reported) \in Nat
      BY <1>0 DEF QueueTyped
    <2>2. \A i \in 1 .. n : i \in 1 .. Len(reported)
      BY <2>1
    <2> QED  BY <2>2 DEF Old, IsReported
  <1>5. ASSUME NEW b \in Actions
        PROVE  ResultInv(b)' /\ ToldInv(b)' /\ FreshInv(b)'
    <2>1. ResultInv(b) /\ ToldInv(b) /\ FreshInv(b)
      BY DEF QueueInv
    <2>2. ResultInv(b)'
      <3>1. CASE b \in Old(n)
        <4>1. results'[b] = "absent" /\ "absent" \notin Outcomes /\ IsReported(b)
          BY <1>1, <1>4, <3>1, OutcomesAssumption
        <4> QED  BY <1>3, <4>1 DEF ResultInv
      <3>2. CASE b \notin Old(n)
        BY <1>1, <1>3, <2>1, <3>2 DEF ResultInv
      <3> QED  BY <3>1, <3>2
    <2> QED  BY <1>1, <1>3, <2>1, <2>2 DEF ToldInv, FreshInv
  <1> QED  BY <1>2, <1>5 DEF QueueInv

LEMMA QueueStep == QueueInv /\ [Next]_vars => QueueInv'
  <1> SUFFICES ASSUME QueueInv, [Next]_vars PROVE QueueInv'
    OBVIOUS
  <1>1. ASSUME NEW a \in Actions, Place(a) \/ Wait(a) \/ Call(a) PROVE QueueInv'
    BY <1>1, PlaceStep, PutStep, MovingSteps DEF Call
  <1>2. CASE UNCHANGED vars
    BY <1>2 DEF vars, bridge, books, QueueInv, QueueTyped, ResultInv, ToldInv, FreshInv, Untouched,
                Recorded, IsReported, Elements
  <1> QED  BY <1>1, <1>2, DequeueQueue, ReportStep, CleanupStep DEF Next

LEMMA QueueStart == Init => QueueInv
  <1> SUFFICES ASSUME Init PROVE QueueInv
    OBVIOUS
  <1>1. QueueTyped
    BY PrioritiesAssumption DEF Init, QueueTyped, Stages, Told
  <1>2. Elements(heap) = {} /\ Len(reported) = 0
    <2>1. Len(<<>>) = 0
      OBVIOUS
    <2> QED  BY <2>1 DEF Init, Elements
  <1>3. ASSUME NEW a \in Actions PROVE ResultInv(a) /\ ToldInv(a) /\ FreshInv(a)
    <2>1. "absent" \notin Outcomes /\ "none" \notin Outcomes
      BY OutcomesAssumption
    <2>2. ResultInv(a) /\ ToldInv(a)
      BY <2>1 DEF Init, ResultInv, ToldInv
    <2>3. Untouched(a)
      <3>1. ~IsReported(a)
        BY <1>2 DEF IsReported
      <3>2. a # hand
        BY NothingAssumption DEF Init
      <3> QED  BY <1>2, <3>1, <3>2 DEF Untouched
    <2> QED  BY <2>2, <2>3 DEF FreshInv
  <1> QED  BY <1>1, <1>3 DEF QueueInv

LEMMA QueueAlways == Spec => []QueueInv
  <1> QED  BY QueueStart, QueueStep, PTL DEF Spec

\* What a client is told is so.
LEMMA ToldIsTrue == QueueInv => AnswerIsTrue
  <1> SUFFICES ASSUME QueueInv, NEW a \in Actions
               PROVE  /\ told[a] \in Outcomes =>
                             [action |-> a, status |-> told[a]] \in ToSet(reported)
                      /\ told[a] \in {"unknown", "missing"} => IsReported(a)
                      /\ told[a] = "full" => ~IsReported(a) /\ a \notin ToSet(heap) /\ a # hand
    BY DEF AnswerIsTrue
  <1>1. QueueTyped /\ ToldInv(a)
    BY DEF QueueInv
  <1>2. ASSUME told[a] \in Outcomes
        PROVE  [action |-> a, status |-> told[a]] \in ToSet(reported)
    <2>1. PICK i \in 1 .. Len(reported) : reported[i].action = a /\ reported[i].status = told[a]
      BY <1>1, <1>2 DEF ToldInv, Recorded
    <2>2. reported \in Seq([action : Actions, status : Outcomes])
      BY <1>1 DEF QueueTyped
    <2>3. DOMAIN reported = 1 .. Len(reported)
      BY <2>2
    <2>4. reported[i] \in [action : Actions, status : Outcomes] /\ i \in DOMAIN reported
      BY <2>1, <2>2, <2>3, ElementOfSeq
    <2>5. reported[i] = [action |-> a, status |-> told[a]]
      BY <2>1, <2>4
    <2> QED  BY <2>4, <2>5 DEF ToSet
  <1> QED  BY <1>1, <1>2, InHeap DEF ToldInv, Untouched

\* A status that a client is told is the one reported for its action, a result that is
\* missing was there, and a full queue refused: through timeouts, ties and cleanups.
THEOREM AnswersTold == Spec => []AnswerIsTrue
  BY QueueAlways, ToldIsTrue, PTL

-----------------------------------------------------------------------------
(* Whatever comparisons raise, an action is in one place at a time, once   *)
(* (OnceInv).                                                              *)

ReportedOnce == \A i, j \in 1 .. Len(reported) :
                    reported[i].action = reported[j].action => i = j

OnceInv ==
    /\ NoTwice(heap)
    /\ \A a \in Elements(heap) : a # hand /\ ~IsReported(a)
    /\ hand # Nothing => ~IsReported(hand)
    /\ ReportedOnce

\* A step that leaves the queue and the bridge alone.
LEMMA OnceKept == ASSUME OnceInv, Steady PROVE OnceInv'
  BY DEF OnceInv, NoTwice, Elements, IsReported, ReportedOnce, Steady, bridge

\* The push of an action nobody has seen.
LEMMA PutOnce ==
    ASSUME QueueInv, OnceInv, NEW a \in Actions, Put(a)
    PROVE  OnceInv' /\ Elements(heap)' = Elements(heap) \cup {a}
  <1>0. QueueTyped /\ FreshInv(a)
    BY DEF QueueInv
  <1>1. PICK push : push = Push(prio, heap, a)
    OBVIOUS
  <1>2. heap' = push.heap /\ stage[a] = "put" /\ UNCHANGED <<hand, reported>>
    BY <1>1 DEF Put, bridge
  <1>3. Untouched(a)
    BY <1>0, <1>2 DEF FreshInv
  <1>4. /\ prio \in [Actions -> Nat] /\ heap \in Seq(Actions)
        /\ NoTwice(heap) /\ a \notin Elements(heap)
    BY <1>0, <1>3 DEF OnceInv, QueueTyped, Untouched
  <1>5. Elements(push.heap) = Elements(heap) \cup {a} /\ NoTwice(push.heap)
    BY ONLY <1>1, <1>4, a \in Actions, PushAdds
  <1>6. /\ NoTwice(heap)' /\ Elements(heap)' = Elements(heap) \cup {a}
        /\ \A b : IsReported(b)' <=> IsReported(b)
        /\ ReportedOnce' <=> ReportedOnce
    <2>1. NoTwice(heap)'
      BY <1>2, <1>5 DEF NoTwice
    <2>2. Elements(heap)' = Elements(push.heap)
      BY <1>2 DEF Elements
    <2>3. (\A b : IsReported(b)' <=> IsReported(b)) /\ (ReportedOnce' <=> ReportedOnce)
      BY <1>2 DEF IsReported, ReportedOnce
    <2> QED  BY <1>5, <2>1, <2>2, <2>3
  <1>7. \A b \in Elements(heap)' : b # hand' /\ ~IsReported(b)'
    BY <1>2, <1>3, <1>6 DEF OnceInv, Untouched
  <1>8. hand' # Nothing => ~IsReported(hand)'
    BY <1>2 DEF OnceInv, IsReported
  <1> QED  BY <1>6, <1>7, <1>8 DEF OnceInv

\* The root of the list goes to the bridge, or to nobody.
LEMMA Dequeued ==
    ASSUME QueueInv, OnceInv, Dequeue
    PROVE  /\ hand = Nothing /\ heap[1] \in Actions /\ heap[1] \in Elements(heap)
           /\ hand' \in {Nothing, heap[1]} /\ (Pop(prio, heap).raised <=> hand' = Nothing)
           /\ NoTwice(heap)' /\ Elements(heap)' = Elements(heap) \ {heap[1]}
           /\ UNCHANGED <<prio, stage, told, reported>>
  <1>0. QueueTyped
    BY DEF QueueInv
  <1>1. PICK pop : pop = Pop(prio, heap)
    OBVIOUS
  <1>2. /\ heap' = pop.heap /\ heap # <<>> /\ hand = Nothing
        /\ hand' = IF pop.raised THEN Nothing ELSE heap[1]
        /\ UNCHANGED <<prio, stage, told, reported>>
    BY <1>1 DEF Dequeue
  <1>3. prio \in [Actions -> Nat] /\ heap \in Seq(Actions) /\ heap # <<>> /\ NoTwice(heap)
    BY <1>0, <1>2 DEF OnceInv, QueueTyped
  <1>4. /\ Elements(heap) = Elements(pop.heap) \cup {heap[1]}
        /\ NoTwice(pop.heap) /\ heap[1] \notin Elements(pop.heap)
    BY ONLY <1>1, <1>3, PopRemoves
  <1>5. heap[1] \in Actions /\ heap[1] # Nothing
    BY <1>0, <1>4, InHeap, NothingAssumption
  <1>6. NoTwice(heap)' /\ Elements(heap)' = Elements(pop.heap)
    BY <1>2, <1>4 DEF NoTwice, Elements
  <1> QED  BY <1>1, <1>2, <1>4, <1>5, <1>6

LEMMA DequeueOnce == ASSUME QueueInv, OnceInv, Dequeue PROVE OnceInv'
  <1>1. /\ hand = Nothing /\ heap[1] \in Elements(heap) /\ hand' \in {Nothing, heap[1]}
        /\ NoTwice(heap)' /\ Elements(heap)' = Elements(heap) \ {heap[1]}
        /\ UNCHANGED reported
    BY Dequeued
  <1>2. /\ \A b : IsReported(b)' <=> IsReported(b)
        /\ ReportedOnce' <=> ReportedOnce
    BY <1>1 DEF IsReported, ReportedOnce
  <1>3. \A b \in Elements(heap) : b # Nothing /\ ~IsReported(b)
    BY <1>1 DEF OnceInv
  <1>4. \A b \in Elements(heap)' : b # hand' /\ ~IsReported(b)'
    BY <1>1, <1>2, <1>3
  <1>5. hand' # Nothing => ~IsReported(hand)'
    <2>1. \A b : b = hand' /\ b # Nothing => ~IsReported(b)
      BY <1>1, <1>3
    <2> QED  BY <1>1, <2>1 DEF IsReported
  <1> QED  BY <1>1, <1>2, <1>4, <1>5 DEF OnceInv

LEMMA ReportOnce ==
    ASSUME QueueInv, OnceInv, NEW s \in Outcomes, Report(s)
    PROVE  OnceInv' /\ Elements(heap)' = Elements(heap)
  <1>1. UNCHANGED heap /\ hand' = Nothing /\ hand # Nothing
    BY DEF Report
  <1>2. /\ hand \in Actions
        /\ \A a : IsReported(a)' <=> IsReported(a) \/ a = hand
        /\ \A i \in 1 .. Len(reported) : reported'[i] = reported[i]
        /\ Len(reported') = Len(reported) + 1 /\ reported'[Len(reported) + 1].action = hand
    BY Reporting DEF QueueInv
  <1>3. ~IsReported(hand) /\ \A b \in Elements(heap) : b # hand /\ ~IsReported(b)
    BY <1>1 DEF OnceInv
  <1>4. ReportedOnce'
    <2>0. PICK n \in Nat : n = Len(reported)
      BY DEF QueueInv, QueueTyped
    <2>1. \A i \in 1 .. n : reported[i].action # hand
      BY <1>3, <2>0 DEF IsReported
    <2>2. \A i \in 1 .. n + 1 : i \in 1 .. n \/ i = n + 1
      BY <2>0
    <2>3. \A i, j \in 1 .. n : reported[i].action = reported[j].action => i = j
      BY <2>0 DEF OnceInv, ReportedOnce
    <2> QED  BY <1>2, <2>0, <2>1, <2>2, <2>3 DEF ReportedOnce
  <1>5. NoTwice(heap)' /\ Elements(heap)' = Elements(heap)
    BY <1>1 DEF OnceInv, NoTwice, Elements
  <1>6. \A b \in Elements(heap)' : b # hand' /\ ~IsReported(b)'
    <2>1. Nothing \notin Elements(heap)
      BY InHeap, NothingAssumption DEF QueueInv
    <2> QED  BY <1>1, <1>2, <1>3, <1>5, <2>1
  <1> QED  BY <1>1, <1>4, <1>5, <1>6 DEF OnceInv

LEMMA OnceStep == QueueInv /\ OnceInv /\ [Next]_vars => OnceInv'
  <1> SUFFICES ASSUME QueueInv, OnceInv, [Next]_vars PROVE OnceInv'
    OBVIOUS
  <1>1. ASSUME NEW a \in Actions, Place(a) \/ Wait(a) \/ Call(a) PROVE OnceInv'
    <2>1. Put(a) \/ Steady
      BY <1>1 DEF Call, Place, Wait, PutTimeout, LogAction, Count, Wake, WaitTimeout, Fetch, Steady,
                  bridge
    <2> QED  BY <2>1, PutOnce, OnceKept
  <1>2. ASSUME NEW n \in 1 .. Len(reported), Cleanup(n) PROVE OnceInv'
    BY <1>2, OnceKept DEF Cleanup, Steady
  <1>3. CASE UNCHANGED vars
    BY <1>3, OnceKept DEF vars, bridge, Steady
  <1> QED  BY <1>1, <1>2, <1>3, DequeueOnce, ReportOnce DEF Next

LEMMA OnceStart == Init => OnceInv
  <1> SUFFICES ASSUME Init PROVE OnceInv
    OBVIOUS
  <1>1. Len(heap) = 0 /\ Len(reported) = 0 /\ hand = Nothing
    BY DEF Init
  <1> QED  BY <1>1 DEF OnceInv, NoTwice, ReportedOnce, Elements

-----------------------------------------------------------------------------
(* When no two actions have the same priority, the list is a heap, and     *)
(* what was accepted is somewhere.                                         *)

SomewhereStill(a) == Accepted(a) => a \in Elements(heap) \/ a = hand \/ IsReported(a)

NoTieInv == OrderedBut(prio, heap, {}) /\ \A a \in Actions : SomewhereStill(a)

LEMMA NoTiesHere ==
    ASSUME QueueTyped, Distinct
    PROVE  \A a, b \in Actions : prio[a] = prio[b] => a = b
  BY DEF QueueTyped, Distinct, IsInjective

\* A step that leaves the queue and the bridge alone and accepts nobody.
LEMMA NoTieKept ==
    ASSUME NoTieInv, Steady, UNCHANGED prio,
           \A a \in Actions : Accepted(a)' => Accepted(a)
    PROVE  NoTieInv'
  <1>1. UNCHANGED <<heap, hand, reported, prio>>
    BY DEF Steady, bridge
  <1>2. /\ OrderedBut(prio, heap, {})' /\ Elements(heap)' = Elements(heap)
        /\ \A a : IsReported(a)' <=> IsReported(a)
    BY <1>1 DEF NoTieInv, OrderedBut, Elements, IsReported
  <1>3. \A a \in Actions : SomewhereStill(a)'
    BY <1>1, <1>2 DEF NoTieInv, SomewhereStill
  <1> QED  BY <1>2, <1>3 DEF NoTieInv

LEMMA MovingKept ==
    ASSUME QueueInv, NoTieInv, NEW a \in Actions,
           \/ Place(a) \/ PutTimeout(a) \/ LogAction(a) \/ Count(a) \/ Wait(a)
           \/ Wake(a) \/ WaitTimeout(a) \/ Fetch(a)
    PROVE  NoTieInv'
  <1>1. Steady /\ UNCHANGED prio
    BY DEF Place, PutTimeout, LogAction, Count, Wait, Wake, WaitTimeout, Fetch, Steady, bridge
  <1>2. /\ stage \in [Actions -> Stages]
        /\ \E g \in {"put", "refused", "count", "idle", "wait", "fetch"} :
               stage' = stage \/ stage' = [stage EXCEPT ![a] = g]
        /\ stage[a] \in {"new", "put"} => \E g \in {"put", "refused"} :
               stage' = stage \/ stage' = [stage EXCEPT ![a] = g]
    BY DEF Place, PutTimeout, LogAction, Count, Wait, Wake, WaitTimeout, Fetch, Goto, QueueInv,
           QueueTyped
  <1>3. stage[a] # "refused"
    BY DEF Place, PutTimeout, LogAction, Count, Wait, Wake, WaitTimeout, Fetch
  <1>4. ASSUME NEW b \in Actions, Accepted(b)' PROVE Accepted(b)
    <2>1. CASE b # a
      <3>1. stage'[b] = stage[b]
        BY <1>2, <2>1
      <3> QED  BY <1>4, <3>1 DEF Accepted
    <2>2. CASE b = a
      <3>1. stage[a] \notin {"new", "put"}
        BY <1>2, <1>4, <2>2 DEF Accepted
      <3> QED  BY <1>2, <1>3, <2>2, <3>1 DEF Accepted, Stages
    <2> QED  BY <2>1, <2>2
  <1> QED  BY <1>1, <1>4, NoTieKept

LEMMA PutKept ==
    ASSUME QueueInv, OnceInv, NoTieInv, Distinct, NEW a \in Actions, Put(a)
    PROVE  NoTieInv'
  <1>0. QueueTyped /\ FreshInv(a)
    BY DEF QueueInv
  <1>1. PICK push : push = Push(prio, heap, a)
    OBVIOUS
  <1>2. /\ heap' = push.heap /\ stage[a] = "put"
        /\ UNCHANGED <<prio, hand, reported>>
        /\ ~push.raised => stage' = [stage EXCEPT ![a] = "log"]
    BY <1>1 DEF Put, Goto, bridge
  <1>3. /\ prio \in [Actions -> Nat] /\ heap \in Seq(Actions) /\ a \notin Elements(heap)
        /\ NoTwice(heap) /\ OrderedBut(prio, heap, {})
    BY <1>0, <1>2 DEF NoTieInv, OnceInv, QueueTyped, FreshInv, Untouched
  <1>4. \A x, y \in Actions : prio[x] = prio[y] => x = y
    BY <1>0, NoTiesHere
  <1>5. ~push.raised /\ OrderedBut(prio, push.heap, {})
    BY ONLY <1>1, <1>3, <1>4, a \in Actions, PushKeepsHeap
  <1>6. /\ OrderedBut(prio, heap, {})' /\ Elements(heap)' = Elements(heap) \cup {a}
        /\ \A b : IsReported(b)' <=> IsReported(b)
    BY <1>2, <1>5, PutOnce DEF OrderedBut, IsReported
  <1>7. ASSUME NEW b \in Actions PROVE SomewhereStill(b)'
    <2>1. CASE b = a
      BY <1>6, <2>1 DEF SomewhereStill
    <2>2. CASE b # a
      <3>1. stage'[b] = stage[b]
        BY <1>0, <1>2, <1>5, <2>2 DEF QueueTyped
      <3> QED  BY <1>2, <1>6, <3>1 DEF NoTieInv, SomewhereStill, Accepted
    <2> QED  BY <2>1, <2>2
  <1> QED  BY <1>6, <1>7 DEF NoTieInv

\* The bridge is given the action at the root, which is the most urgent.
LEMMA MostUrgent ==
    ASSUME QueueInv, OnceInv, NoTieInv, Distinct, Dequeue
    PROVE  /\ hand' = heap[1] /\ OrderedBut(prio, heap, {})'
           /\ \A a \in Elements(heap) : prio[heap[1]] <= prio[a]
  <1>0. QueueTyped
    BY DEF QueueInv
  <1>1. PICK pop : pop = Pop(prio, heap)
    OBVIOUS
  <1>2. /\ heap' = pop.heap /\ heap # <<>> /\ UNCHANGED prio
        /\ hand' = IF pop.raised THEN Nothing ELSE heap[1]
    BY <1>1 DEF Dequeue
  <1>3. /\ prio \in [Actions -> Nat] /\ heap \in Seq(Actions) /\ heap # <<>>
        /\ NoTwice(heap) /\ OrderedBut(prio, heap, {})
    BY <1>0, <1>2 DEF NoTieInv, OnceInv, QueueTyped
  <1>4. \A x, y \in Actions : prio[x] = prio[y] => x = y
    BY <1>0, NoTiesHere
  <1>5. ~pop.raised /\ OrderedBut(prio, pop.heap, {})
    BY ONLY <1>1, <1>3, <1>4, PopKeepsHeap
  <1>6. \A j \in 1 .. Len(heap) : prio[heap[1]] <= prio[heap[j]]
    BY ONLY <1>3, RootIsLeast
  <1> QED  BY <1>2, <1>5, <1>6 DEF Elements, OrderedBut

LEMMA DequeueKept ==
    ASSUME QueueInv, OnceInv, NoTieInv, Distinct, Dequeue
    PROVE  NoTieInv'
  <1>1. /\ hand = Nothing /\ hand' = heap[1] /\ OrderedBut(prio, heap, {})'
        /\ Elements(heap)' = Elements(heap) \ {heap[1]}
        /\ UNCHANGED <<stage, reported>>
    BY Dequeued, MostUrgent
  <1>2. /\ \A b : IsReported(b)' <=> IsReported(b)
        /\ \A b : Accepted(b)' <=> Accepted(b)
    BY <1>1 DEF IsReported, Accepted
  <1>3. ASSUME NEW b \in Actions PROVE SomewhereStill(b)'
    <2>1. Accepted(b) => b \in Elements(heap) \/ IsReported(b)
      <3>1. b # hand
        BY <1>1, NothingAssumption
      <3> QED  BY <3>1 DEF NoTieInv, SomewhereStill
    <2> QED  BY <1>1, <1>2, <2>1 DEF SomewhereStill
  <1> QED  BY <1>1, <1>3 DEF NoTieInv

LEMMA ReportKept ==
    ASSUME QueueInv, OnceInv, NoTieInv, NEW s \in Outcomes, Report(s)
    PROVE  NoTieInv'
  <1>1. UNCHANGED <<prio, heap, stage>>
    BY DEF Report
  <1>2. \A a : IsReported(a)' <=> IsReported(a) \/ a = hand
    BY Reporting DEF QueueInv
  <1>3. /\ OrderedBut(prio, heap, {})' /\ Elements(heap)' = Elements(heap)
        /\ \A b : Accepted(b)' <=> Accepted(b)
    BY <1>1 DEF NoTieInv, OrderedBut, Elements, Accepted
  <1>4. \A b \in Actions : SomewhereStill(b)'
    BY <1>2, <1>3 DEF NoTieInv, SomewhereStill
  <1> QED  BY <1>3, <1>4 DEF NoTieInv

LEMMA PrioritiesStay == [Next]_vars => UNCHANGED prio
  BY DEF Next, Call, Place, Put, PutTimeout, LogAction, Count, Wait, Wake, WaitTimeout, Fetch,
         Dequeue, Report, Cleanup, vars

WholeInv == QueueInv /\ OnceInv /\ (Distinct => NoTieInv)

LEMMA NoTieStep == WholeInv /\ [Next]_vars => (Distinct => NoTieInv)'
  <1> SUFFICES ASSUME WholeInv, [Next]_vars, Distinct' PROVE NoTieInv'
    OBVIOUS
  <1>0. QueueInv /\ OnceInv /\ Distinct /\ NoTieInv
    <2>1. UNCHANGED prio
      BY PrioritiesStay
    <2> QED  BY <2>1 DEF Distinct, WholeInv
  <1>1. ASSUME NEW a \in Actions, Place(a) \/ Wait(a) \/ Call(a) PROVE NoTieInv'
    BY <1>0, <1>1, PutKept, MovingKept DEF Call
  <1>2. ASSUME NEW n \in 1 .. Len(reported), Cleanup(n) PROVE NoTieInv'
    <2>1. Steady /\ UNCHANGED <<prio, stage>>
      BY <1>2 DEF Cleanup, Steady
    <2> QED  BY <1>0, <2>1, NoTieKept DEF Accepted
  <1>3. CASE UNCHANGED vars
    <2>1. Steady /\ UNCHANGED <<prio, stage>>
      BY <1>3 DEF vars, bridge, Steady
    <2> QED  BY <1>0, <2>1, NoTieKept DEF Accepted
  <1> QED  BY <1>0, <1>1, <1>2, <1>3, DequeueKept, ReportKept DEF Next

LEMMA NoTieStart == Init => NoTieInv
  <1> SUFFICES ASSUME Init PROVE NoTieInv
    OBVIOUS
  <1>1. Len(heap) = 0
    BY DEF Init
  <1>2. \A a \in Actions : SomewhereStill(a)
    BY DEF Init, SomewhereStill, Accepted
  <1> QED  BY <1>1, <1>2 DEF NoTieInv, OrderedBut

LEMMA WholeAlways == Spec => []WholeInv
  <1>1. Init => WholeInv
    BY QueueStart, OnceStart, NoTieStart DEF WholeInv
  <1>2. WholeInv /\ [Next]_vars => WholeInv'
    BY QueueStep, OnceStep, NoTieStep DEF WholeInv
  <1> QED  BY <1>1, <1>2, PTL DEF Spec

\* At most one place of a line has what no other has.
LEMMA OneOrNone ==
    ASSUME NEW S, \A i, j \in S : i = j
    PROVE  IF S = {} THEN Cardinality(S) = 0 ELSE Cardinality(S) = 1
  <1>1. CASE S = {}
    BY <1>1, FS_EmptySet
  <1>2. CASE S # {}
    <2>1. PICK i : S = {i}
      BY <1>2
    <2> QED  BY <1>2, <2>1, FS_Singleton
  <1> QED  BY <1>1, <1>2

LEMMA PlacesOfEach == WholeInv => NothingLost
  <1> SUFFICES ASSUME WholeInv, NEW a \in Actions
               PROVE  Places(a) <= 1 /\ (Distinct /\ Accepted(a) => Places(a) = 1)
    BY DEF NothingLost
  <1> DEFINE W == {i \in 1 .. Len(heap) : heap[i] = a}
             R == {i \in 1 .. Len(reported) : reported[i].action = a}
             h == IF hand = a THEN 1 ELSE 0
  <1>0. OnceInv /\ (Distinct => NoTieInv)
    BY DEF WholeInv
  <1>1. /\ \A i, j \in W : i = j
        /\ \A i, j \in R : i = j
    BY <1>0 DEF OnceInv, NoTwice, ReportedOnce
  <1>2. /\ W # {} <=> a \in Elements(heap)
        /\ R # {} <=> IsReported(a)
    BY DEF Elements, IsReported
  <1>3. /\ a \in Elements(heap) => a # hand /\ ~IsReported(a)
        /\ a = hand => ~IsReported(a)
    BY <1>0, NothingAssumption DEF OnceInv
  <1>4. Distinct /\ Accepted(a) => a \in Elements(heap) \/ a = hand \/ IsReported(a)
    BY <1>0 DEF NoTieInv, SomewhereStill
  <1>5. Places(a) = Cardinality(W) + Cardinality(R) + h
    BY DEF Places
  <1> HIDE DEF W, R
  <1>6. /\ IF W = {} THEN Cardinality(W) = 0 ELSE Cardinality(W) = 1
        /\ IF R = {} THEN Cardinality(R) = 0 ELSE Cardinality(R) = 1
    BY <1>1, OneOrNone
  <1>7. /\ Cardinality(W) + Cardinality(R) + h <= 1
        /\ Distinct /\ Accepted(a) => Cardinality(W) + Cardinality(R) + h = 1
    BY <1>2, <1>3, <1>4, <1>6
  <1> QED  BY <1>5, <1>7

\* An action is never in two places nor twice in one, whatever comparisons raise, and
\* with priorities that all differ one that was accepted is always somewhere.
THEOREM NothingIsLost == Spec => []NothingLost
  BY WholeAlways, PlacesOfEach, PTL

-----------------------------------------------------------------------------
(* The queue is an ActionQueue.                                            *)

Given == {a \in Actions : stage[a] \notin {"new", "put"} /\ told[a] # "full"}
Done == {reported[i].action : i \in 1 .. Len(reported)}

LEMMA MappedDistinct == Queue!Distinct <=> Distinct
  BY DEF Queue!Distinct, Queue!IsInjective, Distinct, IsInjective

LEMMA MappedInit ==
    Queue!Init <=> /\ prio \in Priorities /\ Given = {} /\ ToSet(heap) = {}
                   /\ hand = Nothing /\ Done = {}
  BY DEF Queue!Init, Given, Done

LEMMA MappedGive ==
    ASSUME NEW a, a \notin Given, Given' = Given \cup {a}, ToSet(heap)' = ToSet(heap) \cup {a},
           UNCHANGED <<prio, hand, Done>>
    PROVE  Queue!Give(a)
  BY DEF Queue!Give, Given, Done

LEMMA MappedTake ==
    ASSUME NEW a, hand = Nothing, a \in ToSet(heap),
           Distinct => \A b \in ToSet(heap) : prio[a] <= prio[b],
           hand' = a, ToSet(heap)' = ToSet(heap) \ {a}, UNCHANGED <<prio, Given, Done>>
    PROVE  Queue!Take(a)
  BY MappedDistinct DEF Queue!Take, Given, Done

LEMMA MappedLose ==
    ASSUME NEW a, ~Distinct, hand = Nothing, a \in ToSet(heap), ToSet(heap)' = ToSet(heap) \ {a},
           UNCHANGED <<prio, Given, hand, Done>>
    PROVE  Queue!Lose(a)
  BY MappedDistinct DEF Queue!Lose, Given, Done

LEMMA MappedFinish ==
    ASSUME hand # Nothing, Done' = Done \cup {hand}, hand' = Nothing,
           UNCHANGED <<prio, Given, ToSet(heap)>>
    PROVE  Queue!Finish
  BY DEF Queue!Finish, Given, Done

LEMMA MappedStutter ==
    ASSUME UNCHANGED <<prio, Given, ToSet(heap), hand, Done>>
    PROVE  UNCHANGED Queue!queueVars
  BY DEF Queue!queueVars, Given, Done

\* The elements of the list are the same in the next state.
LEMMA InHeapNext ==
    ASSUME QueueInv, QueueInv'
    PROVE  ToSet(heap) = Elements(heap) /\ ToSet(heap)' = Elements(heap)'
  <1>1. \A line \in Seq(Actions) : ToSet(line) = Elements(line)
    BY DEF ToSet, Elements
  <1>2. heap \in Seq(Actions) /\ heap' \in Seq(Actions)
    BY DEF QueueInv, QueueTyped
  <1>3. ToSet(heap)' = ToSet(heap') /\ Elements(heap)' = Elements(heap')
    BY DEF ToSet, Elements
  <1> QED  BY <1>1, <1>2, <1>3

LEMMA DoneIsReported == \A a : a \in Done <=> IsReported(a)
  BY DEF Done, IsReported

\* What was put into the queue changes with the put alone.
LEMMA GivenMoves ==
    ASSUME QueueInv, NEW a \in Actions, Place(a) \/ Wait(a) \/ Call(a)
    PROVE  /\ Put(a) => a \notin Given /\ Given' = Given \cup {a}
           /\ ~Put(a) => Given' = Given
  <1>0. /\ stage \in [Actions -> Stages]
        /\ told \in [Actions -> Told \cup Outcomes]
        /\ told[a] = "full" => stage[a] = "refused"
    BY DEF QueueInv, QueueTyped, ToldInv
  <1>1. /\ stage' = stage \/ \E g \in Stages : stage' = [stage EXCEPT ![a] = g]
        /\ told' = told \/ \E s : told' = [told EXCEPT ![a] = s]
    BY DEF Call, Place, Put, Wait, PutTimeout, LogAction, Count, Wake, WaitTimeout, Fetch, Goto, Tell,
           Stages
  <1>2. \A b \in Actions : b # a => stage'[b] = stage[b] /\ told'[b] = told[b]
    BY <1>0, <1>1
  <1>3. ASSUME Put(a) PROVE a \notin Given /\ Given' = Given \cup {a}
    <2>1. /\ stage[a] = "put"
          /\ \/ stage' = [stage EXCEPT ![a] = "refused"] /\ told' = [told EXCEPT ![a] = "raised"]
             \/ stage' = [stage EXCEPT ![a] = "log"] /\ told' = told
      BY <1>3 DEF Put, Goto, Tell
    <2>2. stage'[a] \in {"refused", "log"} /\ told'[a] # "full"
      BY <1>0, <2>1
    <2> QED  BY <1>2, <2>1, <2>2 DEF Given
  <1>4. ASSUME ~Put(a) PROVE Given' = Given
    <2>1. a \in Given' <=> a \in Given
      <3>1. CASE Place(a)
        BY <1>0, <3>1 DEF Place, Goto, Given
      <3>2. CASE PutTimeout(a)
        BY <1>0, <3>2 DEF PutTimeout, Goto, Tell, Given
      <3>3. CASE LogAction(a) \/ Count(a) \/ Wait(a) \/ Wake(a) \/ WaitTimeout(a) \/ Fetch(a)
        <4>1. stage[a] \notin {"new", "put", "refused"} /\ told[a] # "full"
          BY <1>0, <3>3 DEF LogAction, Count, Wait, Wake, WaitTimeout, Fetch
        <4>2. \E g \in {"count", "idle", "wait", "fetch"} :
                  stage' = stage \/ stage' = [stage EXCEPT ![a] = g]
          BY <3>3 DEF LogAction, Count, Wait, Wake, WaitTimeout, Fetch, Goto
        <4>3. told'[a] # "full"
          <5>1. results[a] # "full"
            BY OutcomesAssumption DEF QueueInv, QueueTyped
          <5>2. \/ told' = told
                \/ \E s \in {"queued", "unknown", "timeout", "missing", results[a]} :
                       told' = [told EXCEPT ![a] = s]
            BY <3>3 DEF LogAction, Count, Wait, Wake, WaitTimeout, Fetch, Tell
          <5> QED  BY <1>0, <4>1, <5>1, <5>2
        <4> QED  BY <1>0, <4>1, <4>2, <4>3 DEF Given
      <3> QED  BY <1>4, <3>1, <3>2, <3>3 DEF Call
    <2> QED  BY <1>2, <2>1 DEF Given
  <1> QED  BY <1>3, <1>4

LEMMA MappedStep == WholeInv /\ WholeInv' /\ [Next]_vars => [Queue!Next]_Queue!queueVars
  <1> SUFFICES ASSUME WholeInv, WholeInv', [Next]_vars
               PROVE  Queue!Next \/ UNCHANGED Queue!queueVars
    OBVIOUS
  <1>0. QueueInv /\ QueueInv' /\ OnceInv /\ (Distinct => NoTieInv) /\ QueueTyped
    BY DEF WholeInv, QueueInv
  <1>1. ToSet(heap) = Elements(heap) /\ ToSet(heap)' = Elements(heap)'
    BY <1>0, InHeapNext
  <1>2. UNCHANGED prio
    BY PrioritiesStay
  <1>3. ASSUME NEW a \in Actions, Place(a) \/ Wait(a) \/ Call(a)
        PROVE  Queue!Next \/ UNCHANGED Queue!queueVars
    <2>1. CASE Put(a)
      <3>1. a \notin Given /\ Given' = Given \cup {a}
        BY <1>0, <1>3, <2>1, GivenMoves
      <3>2. ToSet(heap)' = ToSet(heap) \cup {a}
        BY <1>0, <1>1, <2>1, PutOnce
      <3>3. UNCHANGED <<hand, Done>>
        BY <2>1 DEF Put, bridge, Done
      <3>4. Queue!Give(a)
        BY <1>2, <3>1, <3>2, <3>3, MappedGive
      <3> QED  BY <1>3, <3>4 DEF Queue!Next
    <2>2. CASE ~Put(a)
      <3>1. Given' = Given
        BY <1>0, <1>3, <2>2, GivenMoves
      <3>2. UNCHANGED <<heap, hand, reported>>
        BY <1>3, <2>2 DEF Call, Place, Wait, PutTimeout, LogAction, Count, Wake, WaitTimeout, Fetch,
                          bridge
      <3>3. UNCHANGED <<ToSet(heap), Done>>
        BY <3>2 DEF ToSet, Done
      <3> QED  BY <1>2, <3>1, <3>2, <3>3, MappedStutter
    <2> QED  BY <2>1, <2>2
  <1>4. ASSUME Dequeue PROVE Queue!Next \/ UNCHANGED Queue!queueVars
    <2>1. /\ hand = Nothing /\ heap[1] \in Actions /\ heap[1] \in Elements(heap)
          /\ hand' \in {Nothing, heap[1]} /\ (Pop(prio, heap).raised <=> hand' = Nothing)
          /\ Elements(heap)' = Elements(heap) \ {heap[1]}
          /\ UNCHANGED <<prio, stage, told, reported>>
      BY <1>0, <1>4, Dequeued
    <2>2. UNCHANGED <<Given, Done>>
      BY <2>1 DEF Given, Done
    <2>3. Distinct => hand' = heap[1] /\ \A a \in Elements(heap) : prio[heap[1]] <= prio[a]
      BY <1>0, <1>4, MostUrgent
    <2>4. PICK a \in Actions : a = heap[1]
      BY <2>1
    <2>5. CASE hand' = a
      <3>1. Queue!Take(a)
        BY <1>1, <2>1, <2>2, <2>3, <2>4, <2>5, MappedTake
      <3> QED  BY <3>1 DEF Queue!Next
    <2>6. CASE hand' = Nothing
      <3>1. ~Distinct
        BY <2>3, <2>4, <2>6, NothingAssumption
      <3>2. Queue!Lose(a)
        BY <1>1, <2>1, <2>2, <2>4, <2>6, <3>1, MappedLose
      <3> QED  BY <3>2 DEF Queue!Next
    <2> QED  BY <2>1, <2>4, <2>5, <2>6
  <1>5. ASSUME NEW s \in Outcomes, Report(s)
        PROVE  Queue!Next \/ UNCHANGED Queue!queueVars
    <2>1. hand # Nothing /\ hand' = Nothing /\ UNCHANGED <<prio, stage, told>>
      BY <1>5 DEF Report
    <2>2. \A a : IsReported(a)' <=> IsReported(a) \/ a = hand
      BY <1>0, <1>5, Reporting
    <2>3. Done' = Done \cup {hand}
      <3>1. \A a : a \in Done' <=> IsReported(a)'
        BY DEF Done, IsReported
      <3> QED  BY <2>2, <3>1, DoneIsReported
    <2>4. UNCHANGED <<Given, ToSet(heap)>>
      BY <1>0, <1>1, <1>5, <2>1, ReportOnce DEF Given
    <2>5. Queue!Finish
      BY <2>1, <2>3, <2>4, MappedFinish
    <2> QED  BY <2>5 DEF Queue!Next
  <1>6. ASSUME UNCHANGED <<stage, told, heap, hand, reported>>
        PROVE  UNCHANGED Queue!queueVars
    <2>1. UNCHANGED <<Given, ToSet(heap), Done>>
      BY <1>6 DEF Given, ToSet, Done
    <2> QED  BY <1>2, <1>6, <2>1, MappedStutter
  <1>7. ASSUME NEW n \in 1 .. Len(reported), Cleanup(n)
        PROVE  UNCHANGED Queue!queueVars
    BY <1>6, <1>7 DEF Cleanup, bridge
  <1>8. CASE UNCHANGED vars
    BY <1>6, <1>8 DEF vars, bridge
  <1> QED  BY <1>3, <1>4, <1>5, <1>7, <1>8 DEF Next

LEMMA MappedStart == Init => Queue!Init
  <1> SUFFICES ASSUME Init PROVE Queue!Init
    OBVIOUS
  <1>1. Given = {}
    BY DEF Init, Given
  <1>2. ToSet(heap) = {} /\ Done = {}
    <2>1. Len(<<>>) = 0 /\ DOMAIN <<>> = {}
      OBVIOUS
    <2> QED  BY <2>1 DEF Init, ToSet, Done
  <1> QED  BY <1>1, <1>2, MappedInit DEF Init

\* The queue hands each action over at most once, and with priorities that all differ
\* the most urgent first: heapq's list, for any number of clients and any size.
THEOREM ImplementsActionQueue == Spec => RefinesActionQueue
  <1> QED  BY MappedStart, MappedStep, WholeAlways, PTL DEF Spec, RefinesActionQueue, Queue!Spec

-----------------------------------------------------------------------------
(* The bridge, for every set of clients, every size of a server's queue,   *)
(* and any number of updates and of sessions of Revit.                     *)

BridgeCall == [stage : {"idle", "forward", "connected", "written"},
               update : 0 .. MaxUpdates,
               read : {"nothing", "queued", "error", "broken"}]

Answers == {"none", "refused", "raised", "queued", "forwarded", "error"}

ClientsTyped == /\ client \in [Clients -> BridgeCall]
                /\ local \in [Servers -> 0 .. LocalCap]
                /\ asked \in 0 .. MaxUpdates /\ flaw \in [Updates -> Flaws]
                /\ answer \in [Updates -> Answers]

ListenerTyped == listener \in [stage : {"between", "listening", "connected", "built",
                                        "enqueued", "answer"},
                               peer : Clients \cup {"nobody"}]

QueuesTyped == /\ queue \in Seq(Updates) /\ accepted \in Seq(Updates)
               /\ begun \in Seq(Updates)

RevitTyped == /\ phase \in {"up", "stopping", "down"} /\ session \in 0 .. MaxSessions
              /\ raised \in BOOLEAN /\ absorbed \in Nat
              /\ executing \in 0 .. MaxUpdates
              /\ outcome \in [Updates -> {"none", "discarded", "executed"}]

\* A call that has begun has an update of its own, which has no answer yet.
CallsInv ==
    /\ reached \subseteq 1 .. asked
    /\ \A u \in Updates : u \notin 1 .. asked => answer[u] = "none"
    /\ \A c \in Clients :
         /\ client[c].stage \in {"idle", "forward"} => client[c].read = "nothing"
         /\ client[c].stage # "idle" => /\ client[c].update \in 1 .. asked
                                        /\ answer[client[c].update] = "none"
         /\ client[c].read = "queued" => client[c].update \in reached
    /\ \A c, d \in Clients :
         client[c].stage # "idle" /\ client[d].stage # "idle"
           /\ client[c].update = client[d].update => c = d

\* The listener serves a client that waits for it and has read nothing yet.
ListenerInv ==
    /\ listener.stage \in {"between", "listening"} => listener.peer = "nobody"
    /\ listener.stage \in {"connected", "built", "enqueued", "answer"} =>
         /\ listener.peer \in Clients
         /\ client[listener.peer].stage \in {"connected", "written"}
         /\ client[listener.peer].read = "nothing"
         /\ listener.stage # "connected" => client[listener.peer].stage = "written"
    /\ listener.stage \in {"enqueued", "answer"} => Handled \in reached

\* The add-in's state dies with Revit.
DownInv == phase = "down" => /\ queue = <<>> /\ listener.stage = "between"
                             /\ raised = FALSE /\ absorbed = 0

BridgeInv == /\ ClientsTyped /\ ListenerTyped /\ QueuesTyped /\ RevitTyped
             /\ CallsInv /\ ListenerInv /\ DownInv
             /\ NothingLostOrTwice /\ AnswersAreTrue /\ StrandedIsExplained

-----------------------------------------------------------------------------
(* Two sequences, of which the second is a queue.                          *)

LEMMA MoveHead ==
    ASSUME NEW S, NEW s \in Seq(S), NEW q \in Seq(S), q # <<>>
    PROVE  /\ Append(s, Head(q)) \o Tail(q) = s \o q
           /\ Append(s, Head(q)) \in Seq(S) /\ Tail(q) \in Seq(S)
           /\ Head(q) \in S /\ Len(Tail(q)) = Len(q) - 1
  <1> DEFINE a == Append(s, Head(q))
  <1>1. /\ Head(q) \in S /\ Tail(q) \in Seq(S) /\ Len(Tail(q)) = Len(q) - 1
        /\ \A i \in 1 .. Len(Tail(q)) : Tail(q)[i] = q[i + 1]
    BY HeadTailProperties
  <1>2. Head(q) = q[1] /\ Len(q) \in Nat \ {0}
    BY EmptySeq
  <1>3. /\ a \in Seq(S) /\ Len(a) = Len(s) + 1
        /\ \A i \in 1 .. Len(s) : a[i] = s[i]
        /\ a[Len(s) + 1] = q[1]
    BY <1>1, <1>2, AppendProperties
  <1>4. /\ a \o Tail(q) \in Seq(S) /\ Len(a \o Tail(q)) = Len(a) + Len(Tail(q))
        /\ \A i \in 1 .. Len(a) + Len(Tail(q)) : (a \o Tail(q))[i] =
             IF i <= Len(a) THEN a[i] ELSE Tail(q)[i - Len(a)]
    BY <1>1, <1>3, ConcatProperties
  <1>5. /\ s \o q \in Seq(S) /\ Len(s \o q) = Len(s) + Len(q)
        /\ \A i \in 1 .. Len(s) + Len(q) : (s \o q)[i] =
             IF i <= Len(s) THEN s[i] ELSE q[i - Len(s)]
    BY ConcatProperties
  <1>6. Len(s) \in Nat
    BY LenProperties
  <1> HIDE DEF a
  <1>7. Len(a \o Tail(q)) = Len(s \o q)
    BY <1>1, <1>2, <1>3, <1>4, <1>5, <1>6
  <1>8. ASSUME NEW i \in 1 .. Len(a \o Tail(q)) PROVE (a \o Tail(q))[i] = (s \o q)[i]
    <2>1. CASE i <= Len(s)
      BY <2>1, <1>1, <1>2, <1>3, <1>4, <1>5, <1>6, <1>7
    <2>2. CASE i = Len(s) + 1
      BY <2>2, <1>1, <1>2, <1>3, <1>4, <1>5, <1>6, <1>7
    <2>3. CASE i > Len(s) + 1
      <3>1. i - Len(a) \in 1 .. Len(Tail(q)) /\ i - Len(a) + 1 = i - Len(s)
        BY <2>3, <1>1, <1>2, <1>3, <1>4, <1>6
      <3>2. (a \o Tail(q))[i] = Tail(q)[i - Len(a)]
        BY <2>3, <1>1, <1>2, <1>3, <1>4, <1>6
      <3>3. (s \o q)[i] = q[i - Len(s)]
        BY <2>3, <1>5, <1>6, <1>7
      <3> QED  BY <3>1, <3>2, <3>3, <1>1
    <2> QED  BY <2>1, <2>2, <2>3, <1>2, <1>4, <1>6, <1>5, <1>7
  <1>9. a \o Tail(q) = s \o q
    BY <1>4, <1>5, <1>7, <1>8, SeqEqual
  <1> QED  BY <1>1, <1>3, <1>9 DEF a

LEMMA AppendToQueue ==
    ASSUME NEW S, NEW s \in Seq(S), NEW q \in Seq(S), NEW x \in S
    PROVE  /\ Append(s \o q, x) = s \o Append(q, x)
           /\ Append(q, x) \in Seq(S) /\ Append(s \o q, x) \in Seq(S)
           /\ Len(Append(q, x)) = Len(q) + 1
  <1>1. /\ <<x>> \in Seq(S) /\ s \o q \in Seq(S)
    BY ConcatProperties
  <1>2. Append(s \o q, x) = (s \o q) \o <<x>> /\ Append(q, x) = q \o <<x>>
    BY <1>1, AppendIsConcat
  <1>3. (s \o q) \o <<x>> = s \o (q \o <<x>>)
    BY <1>1, ConcatAssociative
  <1> QED  BY <1>1, <1>2, <1>3, AppendProperties
-----------------------------------------------------------------------------
(* The parts of the invariant that an action leaves alone.                 *)

queueVars == <<queue, accepted, begun>>
revitVars == <<phase, session, raised, absorbed, executing, outcome>>

LEMMA AddinKept ==
    ASSUME BridgeInv, UNCHANGED addinVars
    PROVE  /\ ListenerTyped' /\ QueuesTyped' /\ RevitTyped' /\ DownInv'
           /\ NothingLostOrTwice' /\ StrandedIsExplained'
  BY DEF BridgeInv, addinVars, ListenerTyped, QueuesTyped, RevitTyped, DownInv,
         NothingLostOrTwice, StrandedIsExplained

LEMMA ClientsKept ==
    ASSUME BridgeInv, UNCHANGED <<client, clientSide, reached>>
    PROVE  ClientsTyped' /\ CallsInv' /\ AnswersAreTrue'
  BY DEF BridgeInv, clientSide, ClientsTyped, CallsInv, AnswersAreTrue

LEMMA IdleIsCall == Idle \in BridgeCall
  BY MaxUpdatesAssumption DEF Idle, BridgeCall

\* A request that is answered at once: nobody else has its update.
LEMMA AnsweredAtOnce ==
    ASSUME BridgeInv, NEW c, NEW f \in Flaws, NEW what \in {"refused", "raised", "queued"},
           Asks(c, f), Answered(asked', what), local' \in [Servers -> 0 .. LocalCap],
           UNCHANGED <<client, addinVars>>
    PROVE  BridgeInv'
  <1>1. /\ asked' = asked + 1 /\ asked' \in Updates
        /\ answer' = [answer EXCEPT ![asked'] = what]
        /\ flaw' = [flaw EXCEPT ![asked'] = f]
        /\ asked \in Nat
    BY MaxUpdatesAssumption DEF Asks, Answered, BridgeInv, ClientsTyped, Updates
  <1>2. ClientsTyped'
    BY <1>1, MaxUpdatesAssumption DEF BridgeInv, ClientsTyped, Answers, Updates
  <1>3. asked' \notin reached /\ \A u \in 1 .. asked : u # asked'
    BY <1>1 DEF BridgeInv, CallsInv
  <1>4. \A u \in 1 .. asked : u \in Updates /\ answer'[u] = answer[u]
    BY <1>1, <1>3, MaxUpdatesAssumption DEF BridgeInv, ClientsTyped, Updates
  <1>5. reached' = reached /\ client' = client /\ 1 .. asked \subseteq 1 .. asked'
    BY <1>1 DEF addinVars
  <1>6. CallsInv'
    <2>1. \A u \in Updates : u \notin 1 .. asked' => answer'[u] = "none"
      BY <1>1, <1>5 DEF BridgeInv, CallsInv, ClientsTyped
    <2> QED  BY <2>1, <1>4, <1>5 DEF BridgeInv, CallsInv
  <1>7. AnswersAreTrue'
    <2>1. ASSUME NEW u \in Updates
          PROVE  /\ answer'[u] = "forwarded" => u \in reached'
                 /\ answer'[u] \in {"refused", "raised", "queued"} => u \notin reached'
      <3>1. CASE u = asked'
        BY <3>1, <1>1, <1>3, <1>5 DEF BridgeInv, ClientsTyped
      <3>2. CASE u # asked'
        BY <3>2, <1>1, <1>5 DEF BridgeInv, ClientsTyped, AnswersAreTrue
      <3> QED  BY <3>1, <3>2
    <2> QED  BY <2>1 DEF AnswersAreTrue
  <1>8. ListenerInv'
    BY <1>5 DEF BridgeInv, ListenerInv, addinVars, Handled
  <1> QED  BY <1>2, <1>6, <1>7, <1>8, AddinKept DEF BridgeInv

\* A request that goes on to the pipe.
LEMMA Forwarding ==
    ASSUME BridgeInv, NEW c \in Clients, NEW f \in Flaws, Asks(c, f),
           Forwards(c), local' \in [Servers -> 0 .. LocalCap], UNCHANGED <<answer, addinVars>>
    PROVE  BridgeInv'
  <1> DEFINE r == [stage |-> "forward", update |-> asked', read |-> "nothing"]
  <1>1. /\ asked' = asked + 1 /\ asked' \in Updates
        /\ flaw' = [flaw EXCEPT ![asked'] = f]
        /\ asked \in Nat /\ client[c].stage = "idle"
    BY MaxUpdatesAssumption DEF Asks, BridgeInv, ClientsTyped, Updates
  <1>2. r \in BridgeCall /\ r.stage = "forward" /\ r.update = asked' /\ r.read = "nothing"
    <2>1. asked' \in 0 .. MaxUpdates
      BY <1>1 DEF Updates
    <2> QED  BY <2>1 DEF BridgeCall
  <1> HIDE DEF r
  <1>3. client' = [client EXCEPT ![c] = r]
    BY DEF r, Forwards
  <1>4. /\ client'[c] = r /\ \A d \in Clients \ {c} : client'[d] = client[d]
        /\ client' \in [Clients -> BridgeCall]
    BY <1>2, <1>3 DEF BridgeInv, ClientsTyped
  <1>5. ClientsTyped'
    BY <1>1, <1>4, MaxUpdatesAssumption DEF BridgeInv, ClientsTyped, Updates
  <1>6. reached' = reached /\ answer' = answer /\ 1 .. asked \subseteq 1 .. asked'
        /\ asked' \in 1 .. asked' /\ asked' \notin 1 .. asked
    BY <1>1 DEF addinVars
  <1>7. answer[asked'] = "none"
    BY <1>1, <1>6 DEF BridgeInv, CallsInv
  <1>8. CallsInv'
    <2>1. reached' \subseteq 1 .. asked'
          /\ \A u \in Updates : u \notin 1 .. asked' => answer'[u] = "none"
      BY <1>6 DEF BridgeInv, CallsInv
    <2>2. ASSUME NEW d \in Clients
          PROVE  /\ client'[d].stage \in {"idle", "forward"} => client'[d].read = "nothing"
                 /\ client'[d].stage # "idle" => /\ client'[d].update \in 1 .. asked'
                                                /\ answer'[client'[d].update] = "none"
                 /\ client'[d].read = "queued" => client'[d].update \in reached'
      BY <1>2, <1>4, <1>6, <1>7 DEF BridgeInv, CallsInv
    <2>3. ASSUME NEW d \in Clients, NEW e \in Clients, client'[d].stage # "idle",
                 client'[e].stage # "idle", client'[d].update = client'[e].update
          PROVE  d = e
      <3>1. \A x \in Clients \ {c} : client[x].stage # "idle" => client[x].update # asked'
        BY <1>6 DEF BridgeInv, CallsInv
      <3> QED  BY <2>3, <3>1, <1>2, <1>4 DEF BridgeInv, CallsInv
    <2> QED  BY <2>1, <2>2, <2>3 DEF CallsInv
  <1>9. AnswersAreTrue'
    BY <1>6 DEF BridgeInv, AnswersAreTrue
  <1>10. ListenerInv'
    BY <1>1, <1>4, <1>6 DEF BridgeInv, ListenerInv, addinVars, Handled
  <1> QED  BY <1>5, <1>8, <1>9, <1>10, AddinKept DEF BridgeInv
\* A client gives up, or has read what it was told, and returns.
Returns(c, what) ==
    /\ client' = [client EXCEPT ![c] = Idle]
    /\ Answered(client[c].update, what)
    /\ UNCHANGED <<local, asked, flaw, addinVars>>

LEMMA Returning ==
    ASSUME BridgeInv, NEW c \in Clients, NEW what \in {"error", "forwarded"},
           client[c].stage = "forward" \/ client[c].read # "nothing",
           what = "forwarded" => client[c].read = "queued", Returns(c, what)
    PROVE  BridgeInv'
  <1> DEFINE u == client[c].update
  <1>1. client[c].stage # "idle" /\ u \in 1 .. asked /\ u \in Updates
    BY MaxUpdatesAssumption DEF BridgeInv, CallsInv, ClientsTyped, Updates
  <1>2. what = "forwarded" => u \in reached
    BY DEF BridgeInv, CallsInv
  <1> HIDE DEF u
  <1>3. /\ client'[c] = Idle /\ \A d \in Clients \ {c} : client'[d] = client[d]
        /\ client' \in [Clients -> BridgeCall]
    BY IdleIsCall DEF BridgeInv, ClientsTyped, Returns
  <1>4. /\ answer' = [answer EXCEPT ![u] = what] /\ asked' = asked /\ reached' = reached
        /\ UNCHANGED <<local, flaw, addinVars>>
    BY DEF Returns, Answered, addinVars, u
  <1>5. ClientsTyped'
    BY <1>3, <1>4, <1>1 DEF BridgeInv, ClientsTyped, Answers
  <1>6. \A d \in Clients \ {c} : client[d].stage # "idle" => client[d].update # u
    BY <1>1 DEF BridgeInv, CallsInv, u
  <1>7. CallsInv'
    <2>1. reached' \subseteq 1 .. asked'
          /\ \A v \in Updates : v \notin 1 .. asked' => answer'[v] = "none"
      BY <1>1, <1>4 DEF BridgeInv, CallsInv, ClientsTyped
    <2>2. ASSUME NEW d \in Clients
          PROVE  /\ client'[d].stage \in {"idle", "forward"} => client'[d].read = "nothing"
                 /\ client'[d].stage # "idle" => /\ client'[d].update \in 1 .. asked'
                                                /\ answer'[client'[d].update] = "none"
                 /\ client'[d].read = "queued" => client'[d].update \in reached'
      <3>1. CASE d = c
        BY <3>1, <1>3 DEF Idle
      <3>2. CASE d # c
        <4>1. client'[d] = client[d]
          BY <3>2, <1>3
        <4>2. ASSUME client[d].stage # "idle" PROVE answer'[client[d].update] = "none"
          <5>1. client[d].update # u /\ answer[client[d].update] = "none"
            BY <3>2, <4>2, <1>6 DEF BridgeInv, CallsInv
          <5>2. client[d].update \in Updates
            BY <4>2, MaxUpdatesAssumption DEF BridgeInv, CallsInv, ClientsTyped, Updates
          <5> QED  BY <5>1, <5>2, <1>4 DEF BridgeInv, ClientsTyped
        <4> QED  BY <4>1, <4>2, <1>4 DEF BridgeInv, CallsInv
      <3> QED  BY <3>1, <3>2
    <2>3. ASSUME NEW d \in Clients, NEW e \in Clients, client'[d].stage # "idle",
                 client'[e].stage # "idle", client'[d].update = client'[e].update
          PROVE  d = e
      BY <2>3, <1>3 DEF BridgeInv, CallsInv, Idle
    <2> QED  BY <2>1, <2>2, <2>3 DEF CallsInv
  <1>8. AnswersAreTrue'
    <2>1. ASSUME NEW v \in Updates
          PROVE  /\ answer'[v] = "forwarded" => v \in reached'
                 /\ answer'[v] \in {"refused", "raised", "queued"} => v \notin reached'
      <3>1. CASE v = u
        BY <3>1, <1>1, <1>2, <1>4 DEF BridgeInv, ClientsTyped
      <3>2. CASE v # u
        BY <3>2, <1>1, <1>4 DEF BridgeInv, ClientsTyped, AnswersAreTrue
      <3> QED  BY <3>1, <3>2
    <2> QED  BY <2>1 DEF AnswersAreTrue
  <1>9. ListenerInv'
    <2>1. listener' = listener /\ (listener.peer \in Clients /\ listener.peer # c
                                    => client'[listener.peer] = client[listener.peer])
      BY <1>3, <1>4 DEF addinVars
    <2>2. listener.stage \in {"connected", "built", "enqueued", "answer"}
            => listener.peer \in Clients /\ listener.peer # c
      BY DEF BridgeInv, ListenerInv
    <2> QED  BY <2>1, <2>2, <1>4 DEF BridgeInv, ListenerInv, Handled
  <1> QED  BY <1>4, <1>5, <1>7, <1>8, <1>9, AddinKept DEF BridgeInv

LEMMA ConnectStep ==
    ASSUME BridgeInv, NEW c \in Clients, Connect(c)
    PROVE  BridgeInv'
  <1>1. /\ client'[c].stage = "connected" /\ client'[c].update = client[c].update
        /\ client'[c].read = client[c].read /\ client'[c] \in BridgeCall
        /\ \A d \in Clients \ {c} : client'[d] = client[d]
        /\ client' \in [Clients -> BridgeCall]
    BY DEF Connect, BridgeInv, ClientsTyped, BridgeCall
  <1>2. listener' = [stage |-> "connected", peer |-> c] /\ listener.stage = "listening"
        /\ client[c].stage = "forward"
        /\ UNCHANGED <<local, asked, flaw, answer, reached, queueVars, revitVars>>
    BY DEF Connect, queueVars, revitVars
  <1>3. ClientsTyped' /\ QueuesTyped' /\ RevitTyped' /\ NothingLostOrTwice' /\ AnswersAreTrue'
    BY <1>1, <1>2 DEF BridgeInv, ClientsTyped, QueuesTyped, RevitTyped, NothingLostOrTwice,
                      AnswersAreTrue, queueVars, revitVars
  <1>4. ListenerTyped' /\ DownInv' /\ StrandedIsExplained'
    BY <1>2 DEF BridgeInv, ListenerTyped, DownInv, StrandedIsExplained, queueVars, revitVars
  <1>5. CallsInv'
    BY <1>1, <1>2 DEF BridgeInv, CallsInv
  <1>6. ListenerInv'
    BY <1>1, <1>2 DEF BridgeInv, CallsInv, ListenerInv
  <1> QED  BY <1>3, <1>4, <1>5, <1>6 DEF BridgeInv

LEMMA WriteStep ==
    ASSUME BridgeInv, NEW c \in Clients, Write(c)
    PROVE  BridgeInv'
  <1>1. /\ client'[c].stage = "written" /\ client'[c].update = client[c].update
        /\ client'[c].read = "nothing" /\ client'[c] \in BridgeCall
        /\ \A d \in Clients \ {c} : client'[d] = client[d]
        /\ client' \in [Clients -> BridgeCall]
    BY DEF Write, BridgeInv, ClientsTyped, BridgeCall
  <1>2. client[c].stage = "connected" /\ client[c].read = "nothing"
        /\ UNCHANGED <<local, asked, flaw, answer, addinVars>> /\ UNCHANGED <<reached, listener>>
    BY DEF Write, addinVars
  <1>3. ClientsTyped' /\ AnswersAreTrue'
    BY <1>1, <1>2 DEF BridgeInv, ClientsTyped, AnswersAreTrue
  <1>5. CallsInv'
    BY <1>1, <1>2 DEF BridgeInv, CallsInv
  <1>6. ListenerInv'
    BY <1>1, <1>2 DEF BridgeInv, ListenerInv, Handled
  <1> QED  BY <1>2, <1>3, <1>5, <1>6, AddinKept DEF BridgeInv
-----------------------------------------------------------------------------
(* The listener's thread.                                                  *)

LEMMA HangsUp ==
    ASSUME BridgeInv, NEW what \in {"queued", "error", "broken"}, Hangs(what),
           listener.stage \in {"connected", "built", "enqueued", "answer"},
           what = "queued" => Handled \in reached, UNCHANGED <<clientSide, reached>>
    PROVE  ClientsTyped' /\ CallsInv' /\ AnswersAreTrue' /\ ListenerTyped' /\ ListenerInv'
  <1> DEFINE c == listener.peer
  <1>1. c \in Clients /\ client[c].stage \in {"connected", "written"}
    BY DEF BridgeInv, ListenerInv
  <1>2. client' = [client EXCEPT ![c].read = what] /\ listener' = Between
        /\ (what = "queued" => client[c].update \in reached)
    BY DEF Hangs, Handled
  <1> HIDE DEF c
  <1>3. /\ client'[c].stage = client[c].stage /\ client'[c].update = client[c].update
        /\ client'[c].read = what /\ client'[c] \in BridgeCall
        /\ \A d \in Clients \ {c} : client'[d] = client[d]
        /\ client' \in [Clients -> BridgeCall]
    BY <1>1, <1>2 DEF BridgeInv, ClientsTyped, BridgeCall
  <1>4. asked' = asked /\ answer' = answer /\ local' = local /\ flaw' = flaw /\ reached' = reached
    BY DEF clientSide
  <1>5. CallsInv'
    BY <1>1, <1>2, <1>3, <1>4 DEF BridgeInv, CallsInv
  <1>6. ListenerTyped' /\ ListenerInv'
    BY <1>2 DEF ListenerTyped, ListenerInv, Between
  <1> QED  BY <1>3, <1>4, <1>5, <1>6 DEF BridgeInv, ClientsTyped, AnswersAreTrue

\* What the listener hangs up on stays as it is in the add-in.
LEMMA HangingUp ==
    ASSUME BridgeInv, NEW what \in {"queued", "error", "broken"}, Hangs(what),
           listener.stage \in {"connected", "built", "enqueued", "answer"},
           listener.stage = "enqueued" => phase # "up",
           what = "queued" => Handled \in reached,
           UNCHANGED <<clientSide, sessionVars, queue, raised, executing, outcome,
                       historyVars>>
    PROVE  BridgeInv'
  <1>1. UNCHANGED <<clientSide, reached>> /\ UNCHANGED <<queueVars, revitVars>>
    BY DEF sessionVars, historyVars, queueVars, revitVars
  <1>2. ClientsTyped' /\ CallsInv' /\ AnswersAreTrue' /\ ListenerTyped' /\ ListenerInv'
    BY <1>1, HangsUp
  <1>3. listener' = Between
    BY DEF Hangs
  <1>4. QueuesTyped' /\ RevitTyped' /\ NothingLostOrTwice'
    BY <1>1 DEF BridgeInv, QueuesTyped, RevitTyped, NothingLostOrTwice, queueVars, revitVars
  <1>5. DownInv'
    BY <1>1, <1>3 DEF BridgeInv, DownInv, Between, queueVars, revitVars
  <1>6. StrandedIsExplained'
    BY <1>1, <1>3 DEF BridgeInv, StrandedIsExplained, Between, queueVars, revitVars
  <1> QED  BY <1>2, <1>4, <1>5, <1>6 DEF BridgeInv

\* The listener goes on, and the clients and the add-in's queue do not notice.
LEMMA ListenerMoves ==
    ASSUME BridgeInv, ListenerTyped', ListenerInv',
           listener.stage = "enqueued" \/ listener'.stage # "enqueued",
           listener.stage = "enqueued" => listener'.stage = "enqueued",
           phase = "down" => listener'.stage = "between",
           UNCHANGED <<client, clientSide, sessionVars, queue, raised, executing,
                       outcome, historyVars>>
    PROVE  BridgeInv'
  <1>1. UNCHANGED <<client, clientSide, reached>> /\ UNCHANGED <<queueVars, revitVars>>
    BY DEF sessionVars, historyVars, queueVars, revitVars
  <1>2. QueuesTyped' /\ RevitTyped' /\ NothingLostOrTwice'
    BY <1>1 DEF BridgeInv, QueuesTyped, RevitTyped, NothingLostOrTwice, queueVars, revitVars
  <1>3. DownInv' /\ StrandedIsExplained'
    BY <1>1 DEF BridgeInv, DownInv, StrandedIsExplained, queueVars, revitVars
  <1> QED  BY <1>1, <1>2, <1>3, ClientsKept DEF BridgeInv

LEMMA ListenStep == ASSUME BridgeInv, Listen PROVE BridgeInv'
  <1>1. listener'.stage = "listening" /\ listener'.peer = listener.peer /\ phase = "up"
        /\ listener.stage = "between" /\ ListenerTyped'
    BY DEF Listen, BridgeInv, ListenerTyped
  <1>2. ListenerInv'
    BY <1>1 DEF BridgeInv, ListenerInv
  <1> QED  BY <1>1, <1>2, ListenerMoves DEF Listen

LEMMA ProbeStep ==
    ASSUME BridgeInv, listener.stage = "listening", listener' = Between,
           UNCHANGED <<client, clientSide, sessionVars, queue, raised, executing,
                       outcome, historyVars>>
    PROVE  BridgeInv'
  <1>1. ListenerTyped' /\ ListenerInv' /\ listener'.stage = "between"
    BY DEF ListenerTyped, ListenerInv, Between
  <1> QED  BY <1>1, ListenerMoves

LEMMA ReadStep == ASSUME BridgeInv, Read PROVE BridgeInv'
  <1>1. CASE flaw[Handled] = "none"
    <2>0. CASE client' = client /\ listener' = [listener EXCEPT !.stage = "built"]
      <3>1. listener'.stage = "built" /\ listener'.peer = listener.peer /\ ListenerTyped'
            /\ listener.stage = "connected" /\ client[listener.peer].stage = "written"
        BY <2>0 DEF Read, BridgeInv, ListenerTyped
      <3>2. ListenerInv' /\ phase # "down"
        BY <2>0, <3>1 DEF BridgeInv, ListenerInv, DownInv
      <3> QED  BY <2>0, <3>1, <3>2, ListenerMoves DEF Read
    <2> QED  BY <1>1, <2>0 DEF Read
  <1>2. ASSUME NEW what \in {"error", "broken"}, Hangs(what) PROVE BridgeInv'
    BY <1>2, HangingUp DEF Read
  <1> QED  BY <1>1, <1>2 DEF Read

LEMMA RaiseFailsStep == ASSUME BridgeInv, RaiseFails PROVE BridgeInv'
  BY HangingUp DEF RaiseFails

LEMMA RespondStep == ASSUME BridgeInv, Respond PROVE BridgeInv'
  <1>1. Handled \in reached
    BY DEF Respond, BridgeInv, ListenerInv
  <1> QED  BY <1>1, HangingUp DEF Respond

LEMMA CancelledStep == ASSUME BridgeInv, Cancelled PROVE BridgeInv'
  <1>1. CASE listener.stage = "listening" /\ listener' = Between /\ client' = client
    BY <1>1, ProbeStep DEF Cancelled
  <1>2. CASE listener.stage = "connected" /\ Hangs("broken")
    BY <1>2, HangingUp DEF Cancelled
  <1> QED  BY <1>1, <1>2 DEF Cancelled

LEMMA EnqueueStep == ASSUME BridgeInv, EnqueueAction PROVE BridgeInv'
  <1> DEFINE u == Handled
  <1>1. /\ listener'.stage = "enqueued" /\ listener'.peer = listener.peer /\ ListenerTyped'
        /\ listener.stage = "built" /\ listener.peer \in Clients
        /\ client[listener.peer].stage = "written" /\ client[listener.peer].read = "nothing"
        /\ UNCHANGED <<client, clientSide>> /\ UNCHANGED revitVars /\ begun' = begun
    BY DEF EnqueueAction, BridgeInv, ListenerTyped, ListenerInv, sessionVars, revitVars
  <1>2. u \in 1 .. asked /\ u \in Updates /\ answer[u] = "none" /\ u' = u
    BY <1>1, MaxUpdatesAssumption DEF BridgeInv, CallsInv, ClientsTyped, Handled, Updates
  <1>3. queue' = Append(queue, u) /\ accepted' = Append(accepted, u) /\ reached' = reached \cup {u}
    BY DEF EnqueueAction
  <1>4. ListenerInv'
    <2>1. Handled' = u
      BY <1>1 DEF Handled
    <2> QED  BY <1>1, <1>3, <2>1 DEF ListenerInv
  <1> HIDE DEF u
  <1>5. /\ QueuesTyped' /\ NothingLostOrTwice' /\ Len(queue') = Len(queue) + 1
    <2>1. /\ Append(begun \o queue, u) = begun \o Append(queue, u)
          /\ Append(queue, u) \in Seq(Updates) /\ Append(begun \o queue, u) \in Seq(Updates)
          /\ Len(Append(queue, u)) = Len(queue) + 1
      BY <1>2, AppendToQueue DEF BridgeInv, QueuesTyped
    <2> QED  BY <1>1, <1>3, <2>1 DEF BridgeInv, QueuesTyped, NothingLostOrTwice
  <1>6. ClientsTyped' /\ RevitTyped'
    BY <1>1 DEF BridgeInv, ClientsTyped, RevitTyped, clientSide, revitVars
  <1>7. CallsInv'
    BY <1>1, <1>2, <1>3 DEF BridgeInv, CallsInv, clientSide
  <1>8. AnswersAreTrue'
    BY <1>1, <1>2, <1>3 DEF BridgeInv, AnswersAreTrue, clientSide
  <1>9. DownInv'
    BY <1>1 DEF BridgeInv, DownInv, revitVars
  <1>10. StrandedIsExplained'
    <2>1. Len(queue) \in Nat /\ absorbed \in Nat
      BY DEF BridgeInv, QueuesTyped, RevitTyped
    <2> QED  BY <1>1, <1>5, <2>1 DEF BridgeInv, StrandedIsExplained, revitVars
  <1> QED  BY <1>1, <1>4, <1>5, <1>6, <1>7, <1>8, <1>9, <1>10 DEF BridgeInv

LEMMA RaiseStep == ASSUME BridgeInv, Raise PROVE BridgeInv'
  <1>1. /\ listener'.stage = "answer" /\ listener'.peer = listener.peer /\ ListenerTyped'
        /\ listener.stage = "enqueued"
        /\ UNCHANGED <<client, clientSide, reached>> /\ UNCHANGED queueVars
        /\ UNCHANGED <<phase, session, executing, outcome>>
        /\ raised' = TRUE /\ absorbed' = IF raised THEN absorbed + 1 ELSE absorbed
    BY DEF Raise, BridgeInv, ListenerTyped, sessionVars, queueVars
  <1>2. ListenerInv'
    <2>1. Handled' = Handled
      BY <1>1 DEF Handled
    <2> QED  BY <1>1, <2>1 DEF BridgeInv, ListenerInv
  <1>3. QueuesTyped' /\ NothingLostOrTwice' /\ RevitTyped' /\ DownInv'
    BY <1>1 DEF BridgeInv, QueuesTyped, NothingLostOrTwice, RevitTyped, DownInv, queueVars
  <1>4. StrandedIsExplained'
    <2>1. Len(queue) \in Nat /\ absorbed \in Nat /\ raised \in BOOLEAN
      BY DEF BridgeInv, QueuesTyped, RevitTyped
    <2> QED  BY <1>1, <2>1 DEF BridgeInv, StrandedIsExplained, queueVars
  <1> QED  BY <1>1, <1>2, <1>3, <1>4, ClientsKept DEF BridgeInv
-----------------------------------------------------------------------------
(* Revit's user interface thread, and the fate of its process.             *)

\* What Execute does to a queue that is not empty.
LEMMA DequeueStep ==
    ASSUME BridgeInv, Called, Dequeues, outcome' \in [Updates -> {"none", "discarded", "executed"}],
           executing' \in {0, Head(queue)}
    PROVE  BridgeInv'
  <1>1. /\ Append(begun, Head(queue)) \o Tail(queue) = begun \o queue
        /\ Append(begun, Head(queue)) \in Seq(Updates) /\ Tail(queue) \in Seq(Updates)
        /\ Head(queue) \in Updates /\ Len(Tail(queue)) = Len(queue) - 1
    BY MoveHead DEF Dequeues, BridgeInv, QueuesTyped
  <1>2. /\ UNCHANGED <<client, clientSide, reached>>
        /\ UNCHANGED <<phase, session, listener, absorbed, accepted>>
        /\ raised /\ ~raised' /\ raised' \in BOOLEAN /\ phase = "up"
        /\ queue' = Tail(queue) /\ begun' = Append(begun, Head(queue))
    BY DEF Called, Dequeues, sessionVars
  <1>3. QueuesTyped' /\ NothingLostOrTwice'
    BY <1>1, <1>2 DEF BridgeInv, QueuesTyped, NothingLostOrTwice
  <1>4. RevitTyped'
    BY <1>1, <1>2, MaxUpdatesAssumption DEF BridgeInv, RevitTyped, Updates
  <1>5. ListenerTyped' /\ ListenerInv' /\ DownInv'
    BY <1>2 DEF BridgeInv, ListenerTyped, ListenerInv, DownInv, Handled
  <1>6. StrandedIsExplained'
    <2>1. Len(queue) \in Nat /\ absorbed \in Nat
      BY DEF BridgeInv, QueuesTyped, RevitTyped
    <2> QED  BY <1>1, <1>2, <2>1 DEF BridgeInv, StrandedIsExplained
  <1> QED  BY <1>2, <1>3, <1>4, <1>5, <1>6, ClientsKept DEF BridgeInv

LEMMA ExecutingStep == ASSUME BridgeInv, Executing PROVE BridgeInv'
  <1>1. CASE ExecuteDiscards
    <2>1. executing' \in {0, Head(queue)}
      BY <1>1 DEF ExecuteDiscards, Called
    <2>2. outcome' \in [Updates -> {"none", "discarded", "executed"}]
      BY <1>1 DEF ExecuteDiscards, Ended, BridgeInv, RevitTyped
    <2> QED  BY <1>1, <2>1, <2>2, DequeueStep DEF ExecuteDiscards
  <1>2. CASE Execute
    <2>1. outcome' \in [Updates -> {"none", "discarded", "executed"}]
      BY <1>2 DEF Execute, BridgeInv, RevitTyped
    <2> QED  BY <1>2, <2>1, DequeueStep DEF Execute
  <1>3. CASE ExecuteEnds
    <2>1. /\ UNCHANGED <<client, clientSide, reached>> /\ UNCHANGED queueVars
          /\ UNCHANGED <<phase, session, listener, absorbed, raised>>
          /\ executing' = 0 /\ outcome' = [outcome EXCEPT ![executing] = "executed"]
      BY <1>3 DEF ExecuteEnds, Ended, sessionVars, historyVars, queueVars
    <2>2. RevitTyped'
      <3>1. raised' \in BOOLEAN /\ outcome' \in [Updates -> {"none", "discarded", "executed"}]
        BY <2>1 DEF BridgeInv, RevitTyped
      <3>2. 0 \in 0 .. MaxUpdates
        BY MaxUpdatesAssumption
      <3> QED  BY <2>1, <3>1, <3>2 DEF BridgeInv, RevitTyped
    <2>3. /\ ListenerTyped' /\ ListenerInv' /\ DownInv' /\ QueuesTyped'
          /\ NothingLostOrTwice' /\ StrandedIsExplained'
      BY <2>1 DEF BridgeInv, ListenerTyped, ListenerInv, DownInv, QueuesTyped,
                  NothingLostOrTwice, StrandedIsExplained, Handled, queueVars
    <2> QED  BY <2>1, <2>2, <2>3, ClientsKept DEF BridgeInv
  <1> QED  BY <1>1, <1>2, <1>3 DEF Executing

LEMMA RevitEndsStep == ASSUME BridgeInv, RevitEnds PROVE BridgeInv'
  <1>1. ClientsTyped' /\ CallsInv' /\ AnswersAreTrue' /\ ListenerTyped' /\ ListenerInv'
    <2>0. UNCHANGED <<clientSide, reached>> /\ listener' = Between
      BY DEF RevitEnds
    <2>1. CASE listener.peer \in Clients
      <3>1. Hangs("broken")
        BY <2>1 DEF RevitEnds, Hangs
      <3>2. listener.stage \in {"connected", "built", "enqueued", "answer"}
        BY <2>1, ClientsAssumption DEF BridgeInv, ListenerTyped, ListenerInv, Clients
      <3> QED  BY <2>0, <3>1, <3>2, HangsUp
    <2>2. CASE listener.peer \notin Clients
      <3>1. client' = client
        BY <2>2 DEF RevitEnds
      <3>2. ListenerTyped' /\ ListenerInv'
        BY <2>0 DEF ListenerTyped, ListenerInv, Between
      <3> QED  BY <2>0, <3>1, <3>2, ClientsKept
    <2> QED  BY <2>1, <2>2
  <1>2. /\ phase' = "down" /\ listener' = Between /\ session' = session /\ outcome' = outcome
        /\ queue' = <<>> /\ raised' = FALSE /\ executing' = 0
        /\ absorbed' = 0 /\ accepted' = <<>> /\ begun' = <<>>
    BY DEF RevitEnds
  <1>3. QueuesTyped' /\ NothingLostOrTwice'
    <2>1. <<>> \in Seq(Updates) /\ <<>> \o <<>> = <<>>
      BY EmptySeq, ConcatEmptySeq
    <2> QED  BY <1>2, <2>1 DEF QueuesTyped, NothingLostOrTwice
  <1>4. RevitTyped'
    <2>1. raised' \in BOOLEAN
      BY <1>2
    <2>2. 0 \in 0 .. MaxUpdates /\ 0 \in Nat
      BY MaxUpdatesAssumption
    <2> QED  BY <1>2, <2>1, <2>2 DEF BridgeInv, RevitTyped
  <1>5. DownInv' /\ StrandedIsExplained'
    BY <1>2 DEF DownInv, StrandedIsExplained, Between
  <1> QED  BY <1>1, <1>3, <1>4, <1>5 DEF BridgeInv

LEMMA SessionStep ==
    ASSUME BridgeInv, OnShutdown \/ OnStartup
    PROVE  BridgeInv'
  <1>1. /\ UNCHANGED <<client, clientSide, reached>> /\ UNCHANGED queueVars
        /\ UNCHANGED <<listener, absorbed, raised, executing, outcome>>
        /\ phase' \in {"up", "stopping"} /\ (phase' = "up" => phase = "down")
        /\ session' \in 0 .. MaxSessions
    BY MaxSessionsAssumption
       DEF OnShutdown, OnStartup, historyVars, queueVars, BridgeInv, RevitTyped
  <1>2. /\ ListenerTyped' /\ ListenerInv' /\ DownInv' /\ QueuesTyped' /\ RevitTyped'
        /\ NothingLostOrTwice'
    BY <1>1 DEF BridgeInv, ListenerTyped, ListenerInv, DownInv, QueuesTyped, RevitTyped,
                NothingLostOrTwice, Handled, queueVars
  <1>3. StrandedIsExplained'
    <2>1. CASE phase = "down"
      <3>1. /\ Len(queue) = 0 /\ absorbed = 0 /\ raised = FALSE
            /\ listener.stage # "enqueued"
        BY <2>1, EmptySeq DEF BridgeInv, DownInv
      <3>2. Len(queue') = 0 /\ absorbed' = 0 /\ raised' = FALSE /\ listener' = listener
        BY <1>1, <3>1 DEF queueVars
      <3> QED  BY <3>1, <3>2 DEF StrandedIsExplained
    <2>2. CASE phase # "down"
      BY <1>1, <2>2 DEF StrandedIsExplained
    <2> QED  BY <2>1, <2>2
  <1> QED  BY <1>1, <1>2, <1>3, ClientsKept DEF BridgeInv

-----------------------------------------------------------------------------
LEMMA AskingStep == ASSUME BridgeInv, Asking PROVE BridgeInv'
  <1>1. ASSUME NEW c \in Servers, UpdateRefused(c) PROVE BridgeInv'
    <2>1. local' \in [Servers -> 0 .. LocalCap]
      BY <1>1 DEF UpdateRefused, BridgeInv, ClientsTyped
    <2> QED  BY <1>1, <2>1, AnsweredAtOnce DEF UpdateRefused, Flaws
  <1>2. ASSUME NEW c \in Servers, UpdateRaises(c) PROVE BridgeInv'
    <2>1. local' \in [Servers -> 0 .. LocalCap]
      BY <1>2, LocalCapAssumption DEF UpdateRaises, BridgeInv, ClientsTyped
    <2> QED  BY <1>2, <2>1, AnsweredAtOnce DEF UpdateRaises, Flaws
  <1>3. ASSUME NEW c \in Servers, Classify(c) PROVE BridgeInv'
    <2>1. local' \in [Servers -> 0 .. LocalCap]
      BY <1>3, LocalCapAssumption DEF Classify, BridgeInv, ClientsTyped
    <2> QED  BY <1>3, <2>1, AnsweredAtOnce DEF Classify, Flaws
  <1>4. ASSUME NEW c \in Servers, Update(c) PROVE BridgeInv'
    <2>1. local' \in [Servers -> 0 .. LocalCap]
      BY <1>4, LocalCapAssumption DEF Update, BridgeInv, ClientsTyped
    <2> QED  BY <1>4, <2>1, Forwarding DEF Update, Flaws, Clients
  <1>5. ASSUME NEW c \in Servers, NewServer(c) PROVE BridgeInv'
    <2>1. local' \in [Servers -> 0 .. LocalCap]
      BY <1>5, LocalCapAssumption DEF NewServer, BridgeInv, ClientsTyped
    <2>2. UNCHANGED <<client, asked, flaw, answer, reached, listener>> /\ UNCHANGED addinVars
      BY <1>5 DEF NewServer, addinVars
    <2>3. ClientsTyped' /\ CallsInv' /\ AnswersAreTrue' /\ ListenerInv'
      BY <2>1, <2>2 DEF BridgeInv, ClientsTyped, CallsInv, AnswersAreTrue, ListenerInv, Handled
    <2> QED  BY <2>2, <2>3, AddinKept DEF BridgeInv
  <1>6. ASSUME NEW c \in Direct, NEW f \in Flaws, SendDirectly(c, f) PROVE BridgeInv'
    <2>1. local' \in [Servers -> 0 .. LocalCap]
      BY <1>6 DEF SendDirectly, BridgeInv, ClientsTyped
    <2> QED  BY <1>6, <2>1, Forwarding DEF SendDirectly, Clients
  <1> QED  BY <1>1, <1>2, <1>3, <1>4, <1>5, <1>6 DEF Asking

LEMMA SendingStep == ASSUME BridgeInv, NEW c \in Clients, Sending(c) PROVE BridgeInv'
  <1>1. CASE ConnectFails(c)
    BY <1>1, Returning DEF ConnectFails, Returns
  <1>2. CASE WriteFails(c)
    BY <1>2, Returning DEF WriteFails, Returns
  <1>3. CASE ReadAnswer(c)
    <2>1. CASE client[c].read = "queued"
      BY <1>3, <2>1, Returning DEF ReadAnswer, Returns
    <2>2. CASE client[c].read # "queued"
      BY <1>3, <2>2, Returning DEF ReadAnswer, Returns
    <2> QED  BY <2>1, <2>2
  <1> QED  BY <1>1, <1>2, <1>3, ConnectStep, WriteStep DEF Sending

LEMMA BridgeStep == BridgeInv /\ [BridgeNext]_bridgeVars => BridgeInv'
  <1> SUFFICES ASSUME BridgeInv, [BridgeNext]_bridgeVars PROVE BridgeInv'
    OBVIOUS
  <1>1. CASE Listening
    BY <1>1, ListenStep, ReadStep, EnqueueStep, RaiseStep, RaiseFailsStep, RespondStep,
       CancelledStep DEF Listening
  <1>2. CASE Environment
    BY <1>2, ProbeStep, RevitEndsStep, SessionStep DEF Environment, Probe
  <1>3. CASE UNCHANGED bridgeVars
    <2>1. UNCHANGED <<client, clientSide, reached>> /\ UNCHANGED addinVars /\ listener' = listener
      BY <1>3 DEF bridgeVars, clientSide, addinVars
    <2>2. ListenerInv'
      BY <2>1 DEF BridgeInv, ListenerInv, Handled
    <2> QED  BY <2>1, <2>2, ClientsKept, AddinKept DEF BridgeInv
  <1> QED  BY <1>1, <1>2, <1>3, AskingStep, ExecutingStep, SendingStep DEF BridgeNext

LEMMA BridgeStart == BridgeInit => BridgeInv
  <1> SUFFICES ASSUME BridgeInit PROVE BridgeInv
    OBVIOUS
  <1>1. ClientsTyped
    BY IdleIsCall, LocalCapAssumption, MaxUpdatesAssumption
       DEF BridgeInit, ClientsTyped, Answers, Flaws
  <1>2. ListenerTyped /\ ListenerInv /\ DownInv
    BY DEF BridgeInit, ListenerTyped, ListenerInv, DownInv, Between
  <1>3. QueuesTyped /\ NothingLostOrTwice
    <2>1. <<>> \in Seq(Updates) /\ <<>> \o <<>> = <<>>
      BY EmptySeq, ConcatEmptySeq
    <2> QED  BY <2>1 DEF BridgeInit, QueuesTyped, NothingLostOrTwice
  <1>4. RevitTyped
    <2>1. raised \in BOOLEAN
      BY DEF BridgeInit
    <2>2. 0 \in 0 .. MaxUpdates /\ 0 \in 0 .. MaxSessions /\ 0 \in Nat
      BY MaxUpdatesAssumption, MaxSessionsAssumption
    <2> QED  BY <2>1, <2>2 DEF BridgeInit, RevitTyped
  <1>5. CallsInv /\ AnswersAreTrue /\ StrandedIsExplained
    BY EmptySeq DEF BridgeInit, CallsInv, AnswersAreTrue, StrandedIsExplained, Idle
  <1> QED  BY <1>1, <1>2, <1>3, <1>4, <1>5 DEF BridgeInv

LEMMA BridgeAlways == BridgeSpec => []BridgeInv
  BY BridgeStart, BridgeStep, PTL DEF BridgeSpec

\* Type correctness of the bridge: clients, listener, queues and Revit.
THEOREM BridgeTyped == BridgeSpec => []TypeOK
  <1>1. BridgeInv => TypeOK
    <2> SUFFICES ASSUME BridgeInv PROVE TypeOK
      OBVIOUS
    <2>1. reached \subseteq Updates
      BY MaxUpdatesAssumption DEF BridgeInv, CallsInv, ClientsTyped, Updates
    <2> QED  BY <2>1 DEF BridgeInv, ClientsTyped, ListenerTyped, QueuesTyped, RevitTyped,
                         TypeOK, BridgeCall, Answers
  <1> QED  BY <1>1, BridgeAlways, PTL

\* The add-in begins what it accepted in the order in which it was accepted,
\* each once, and loses none of it while Revit is up (EnqueueAction, Execute).
THEOREM AcceptedInOrder == BridgeSpec => []NothingLostOrTwice
  BY BridgeAlways, PTL DEF BridgeInv

\* A client that is told its update was forwarded is told the truth, whatever
\* broke, and one that was refused was not forwarded behind its back.
THEOREM AnswersAlwaysTrue == BridgeSpec => []AnswersAreTrue
  BY BridgeAlways, PTL DEF BridgeInv

\* Exactly as many actions wait without an event as Raise calls were absorbed by
\* one that was pending, and no event finds nothing (ListenLoop, Execute).
THEOREM StrandedAlwaysExplained == BridgeSpec => []StrandedIsExplained
  BY BridgeAlways, PTL DEF BridgeInv
=============================================================================

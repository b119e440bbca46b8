------------------------------- MODULE Heapq -------------------------------
(***************************************************************************)
(* CPython's heapq, as queue.PriorityQueue uses it for the pairs           *)
(* (priority, action) of fireai/mcp_server/thread_safe_queue.py.  Two pairs *)
(* of equal priority are compared by their actions, a dataclass without an *)
(* order: the comparison raises TypeError, and the heap stays as the       *)
(* exchanges made before it left it.                                       *)
(*                                                                         *)
(* Each loop of heapq moves one element along a path of the tree: the      *)
(* module says along which and how far.  HeapqLoops has the loops.         *)
(***************************************************************************)
EXTENDS Naturals, Sequences

Parent(i) == i \div 2

\* The places from i up to the root.
Upward(i) ==
    {j \in 1 .. i : \A S \in SUBSET (1 .. i) :
        (i \in S /\ \A k \in S \ {1} : Parent(k) \in S) => j \in S}

\* siftdown: the element at i rises past the parents of a greater priority, and
\* each of them takes the place below.
Passed(prio, heap, i, j) ==
    \A k \in Upward(i) : j <= Parent(k) => prio[heap[i]] < prio[heap[Parent(k)]]

Summit(prio, heap, i) ==
    CHOOSE j \in Upward(i) : /\ Passed(prio, heap, i, j)
                             /\ \A k \in Upward(i) : Passed(prio, heap, i, k) => j <= k

Rise(prio, heap, i) ==
    LET top == Summit(prio, heap, i) IN
    [heap |-> [j \in 1 .. Len(heap) |->
                 IF j = top THEN heap[i]
                 ELSE IF j \in Upward(i) /\ j > top THEN heap[Parent(j)]
                 ELSE heap[j]],
     raised |-> top # 1 /\ prio[heap[Parent(top)]] = prio[heap[i]]]

\* siftup: the element at the root sinks along the smaller children until there is
\* none, and rises from there.
Torn(prio, heap, i) ==
    2 * i + 1 <= Len(heap) /\ prio[heap[2 * i]] = prio[heap[2 * i + 1]]

Ends(prio, heap, i) == 2 * i > Len(heap) \/ Torn(prio, heap, i)

Lesser(prio, heap, i) ==
    IF 2 * i + 1 <= Len(heap) /\ prio[heap[2 * i + 1]] < prio[heap[2 * i]]
    THEN 2 * i + 1 ELSE 2 * i

Downward(prio, heap) ==
    {j \in 1 .. Len(heap) : \A S \in SUBSET (1 .. Len(heap)) :
        (1 \in S /\ \A k \in S : Ends(prio, heap, k) \/ Lesser(prio, heap, k) \in S)
            => j \in S}

Bottom(prio, heap) == CHOOSE i \in Downward(prio, heap) : Ends(prio, heap, i)

Sunk(prio, heap) ==
    [j \in 1 .. Len(heap) |->
        IF j = Bottom(prio, heap) THEN heap[1]
        ELSE IF j \in Downward(prio, heap) THEN heap[Lesser(prio, heap, j)]
        ELSE heap[j]]

\* heappush: the element is in the list before anything is compared.
Push(prio, heap, a) == Rise(prio, Append(heap, a), Len(heap) + 1)

\* heappop: the last element takes the place of the first, which is returned, or
\* lost when a comparison raises.
Pop(prio, heap) ==
    LET rest == SubSeq(heap, 1, Len(heap) - 1)
        full == [rest EXCEPT ![1] = heap[Len(heap)]]
    IN IF rest = <<>> THEN [heap |-> rest, raised |-> FALSE]
       ELSE IF Torn(prio, full, Bottom(prio, full))
            THEN [heap |-> Sunk(prio, full), raised |-> TRUE]
       ELSE Rise(prio, Sunk(prio, full), Bottom(prio, full))
=============================================================================

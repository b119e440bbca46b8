----------------------------- MODULE HeapqLoops -----------------------------
(***************************************************************************)
(* The loops of CPython's heapq, one exchange after another, against what  *)
(* Heapq says that they come to.                                           *)
(***************************************************************************)
EXTENDS Heapq

Done(heap) == [heap |-> heap, raised |-> FALSE]
Raised(heap) == [heap |-> heap, raised |-> TRUE]

Swap(heap, i, j) == [heap EXCEPT ![i] = heap[j], ![j] = heap[i]]

\* siftdown: the element at i is exchanged with its parent while that has a
\* greater priority.
RECURSIVE SiftDown(_, _, _)
SiftDown(prio, heap, i) ==
    IF i = 1 \/ prio[heap[Parent(i)]] < prio[heap[i]] THEN Done(heap)
    ELSE IF prio[heap[Parent(i)]] = prio[heap[i]] THEN Raised(heap)
    ELSE SiftDown(prio, Swap(heap, i, Parent(i)), Parent(i))

\* siftup: the element at i is exchanged with its smaller child down to a leaf, and
\* sifted down from there.
RECURSIVE SiftUp(_, _, _)
SiftUp(prio, heap, i) ==
    LET left == 2 * i
        right == 2 * i + 1
    IN IF left > Len(heap) THEN SiftDown(prio, heap, i)
       ELSE IF right > Len(heap) THEN SiftUp(prio, Swap(heap, i, left), left)
       ELSE IF prio[heap[left]] = prio[heap[right]] THEN Raised(heap)
       ELSE LET child == IF prio[heap[left]] < prio[heap[right]] THEN left ELSE right
            IN SiftUp(prio, Swap(heap, i, child), child)

HeapPush(prio, heap, a) == SiftDown(prio, Append(heap, a), Len(heap) + 1)

HeapPop(prio, heap) ==
    LET rest == SubSeq(heap, 1, Len(heap) - 1) IN
    IF rest = <<>> THEN Done(rest)
    ELSE SiftUp(prio, [rest EXCEPT ![1] = heap[Len(heap)]], 1)

\* Bounds: the length of the lists, and the priorities.
Longest == 6
Values == 1 .. 3

ASSUME LoopsAgree ==
    \A n \in 1 .. Longest : \A prio \in [1 .. n + 1 -> Values] :
        LET list == [i \in 1 .. n |-> i] IN
        /\ Push(prio, list, n + 1) = HeapPush(prio, list, n + 1)
        /\ Pop(prio, list) = HeapPop(prio, list)
=============================================================================

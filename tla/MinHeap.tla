------------------------------- MODULE MinHeap -------------------------------
(***************************************************************************)
(* The array heap of tries/minheap.go.  ApplyTransitions and the prover    *)
(* rings push items and then read the array with All, without popping, so  *)
(* what matters to them is the order of the array itself.  An item stands  *)
(* for when it was pushed: the first one is 1, and its priority is         *)
(* priority[1].  Positions count from 1 here and from 0 in the code.       *)
(***************************************************************************)
EXTENDS Integers, Sequences

Swap(items, i, j) == [items EXCEPT ![i] = items[j], ![j] = items[i]]

\* An iteration of upheap: the item at i moves up if its parent has a higher
\* priority value.
Up(heap, priority) ==
    LET parent == heap.i \div 2
    IN IF heap.i > 1 /\ priority[heap.items[heap.i]] < priority[heap.items[parent]]
       THEN [items |-> Swap(heap.items, heap.i, parent), i |-> parent]
       ELSE heap

\* There are fewer iterations than items.
Upheap(items, i, priority) ==
    LET heap[k \in 0 .. Len(items)] ==
            IF k = 0 THEN [items |-> items, i |-> i] ELSE Up(heap[k - 1], priority)
    IN heap[Len(items)].items

Push(items, item, priority) ==
    Upheap(Append(items, item), Len(items) + 1, priority)

\* The array after pushing items of these priorities one after the other.
All(priority) ==
    LET pushed[k \in 0 .. Len(priority)] ==
            IF k = 0 THEN <<>> ELSE Push(pushed[k - 1], k, priority)
    IN pushed[Len(priority)]
=============================================================================

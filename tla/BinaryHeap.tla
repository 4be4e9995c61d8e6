------------------------------ MODULE BinaryHeap ------------------------------
(***************************************************************************)
(* The array heap of binary_heap.c, with the comparison and swap callbacks *)
(* that astrolog.c gives it (compare_server_state, swap_server_state).     *)
(*                                                                         *)
(* A call is one action up to its sifting loop, and every iteration of     *)
(* heapify_up or heapify_down is one more; the next call can start only    *)
(* when the loop has ended, as in the single-threaded caller.  A refused   *)
(* call (push on a full heap, top and pop on an empty one, remove past the *)
(* end) returns -1 before it writes anything: the guards are its tests.    *)
(*                                                                         *)
(* Some definitions are preceded by a faulty variant, without a comment    *)
(* (ReindexedOne, UpToSecond, ...).  No behaviour uses these; they         *)
(* document which slip in the code each property would notice.             *)
(***************************************************************************)
EXTENDS Integers

CONSTANTS
    Elem,      \* the struct server_state objects, identified by address
    Key,       \* the deadlines an element may have
    Capacity,  \* heap->capacity
    SIZE_MAX,  \* the greatest size_t
    NULL       \* the content of a slot never written

ASSUME HeapAssumption ==
    /\ Key \subseteq Int
    /\ Key # {}
    /\ Capacity \in Nat \ {0}
    /\ SIZE_MAX \in Nat
    /\ SIZE_MAX > 2 * Capacity
    /\ NULL \notin Elem

VARIABLES
    arr,       \* heap->arr: slots 0..Capacity-1; those from size on are stale
    size,      \* heap->size
    ts,        \* the deadline of each element
    heap_ix,   \* the slot each element believes it is in
    pc,        \* "idle", or the loop that runs: "up" or "down"
    ix,        \* the loop's index
    p_elem     \* what the last top, pop or remove handed out

vars == <<arr, size, ts, heap_ix, pc, ix, p_elem>>

Slots == 0 .. Capacity - 1

Live == {arr[i] : i \in 0 .. size - 1}

-----------------------------------------------------------------------------
\* size_t arithmetic: 0 - 1 wraps.
Dec(n) == IF n = 0 THEN SIZE_MAX ELSE n - 1

PARENT(i) == Dec(i) \div 2

LEFT_CHILD(i) == 2 * i + 1

\* compare_server_state returns less_ts, which is >= on the deadlines.
Compare(a, t, i, j) == t[a[i]] >= t[a[j]]

compare(i, j) == Compare(arr, ts, i, j)

\* The callback exchanges two slots and the heap_ix of their occupants.
Swapped(a, i, j) == [a EXCEPT ![i] = a[j], ![j] = a[i]]

ReindexedOne(i, j) == [heap_ix EXCEPT ![arr[i]] = heap_ix[arr[j]]]

Reindexed(i, j) ==
    [heap_ix EXCEPT ![arr[i]] = heap_ix[arr[j]], ![arr[j]] = heap_ix[arr[i]]]

swap(i, j) ==
    /\ arr' = Swapped(arr, i, j)
    /\ heap_ix' = Reindexed(i, j)

-----------------------------------------------------------------------------
Init ==
    /\ arr = [i \in Slots |-> NULL]
    /\ size = 0
    /\ \E k \in Key : ts = [e \in Elem |-> k]
    /\ heap_ix = [e \in Elem |-> 0]
    /\ pc = "idle"
    /\ ix = 0
    /\ p_elem = NULL

\* The caller has just allocated e: it sets heap_ix to the heap's size, gives
\* e a deadline and pushes it.
binary_heap_push(e, k) ==
    /\ pc = "idle"
    /\ e \notin Live
    /\ size < Capacity
    /\ heap_ix' = [heap_ix EXCEPT ![e] = size]
    /\ ts' = [ts EXCEPT ![e] = k]
    /\ arr' = [arr EXCEPT ![size] = e]
    /\ size' = size + 1
    /\ pc' = "up"
    /\ ix' = size
    /\ UNCHANGED p_elem

TopIsLast ==
    /\ pc = "idle"
    /\ size > 0
    /\ p_elem' = arr[size - 1]
    /\ UNCHANGED <<arr, size, ts, heap_ix, pc, ix>>

binary_heap_top ==
    /\ pc = "idle"
    /\ size > 0
    /\ p_elem' = arr[0]
    /\ UNCHANGED <<arr, size, ts, heap_ix, pc, ix>>

binary_heap_pop ==
    /\ pc = "idle"
    /\ size > 0
    /\ p_elem' = arr[0]
    /\ size' = size - 1
    /\ swap(0, size - 1)
    /\ pc' = "down"
    /\ ix' = 0
    /\ UNCHANGED ts

SiftDown(a, t, i) == pc' = "down" /\ ix' = i

\* The branch of binary_heap_update, on array a with deadlines t.
Sift(a, t, i) ==
    /\ pc' = IF i > 0 /\ ~Compare(a, t, i, PARENT(i)) THEN "up" ELSE "down"
    /\ ix' = i

\* update_server_state_ts: a new deadline, then binary_heap_update at the slot
\* the element believes it is in.
binary_heap_update(e, k) ==
    /\ pc = "idle"
    /\ e \in Live
    /\ ts' = [ts EXCEPT ![e] = k]
    /\ Sift(arr, ts', heap_ix[e])
    /\ UNCHANGED <<arr, size, heap_ix, p_elem>>

binary_heap_remove(i) ==
    /\ pc = "idle"
    /\ i < size
    /\ p_elem' = arr[i]
    /\ size' = size - 1
    /\ \/ /\ i # size - 1
          /\ swap(i, size - 1)
          /\ Sift(arr', ts, i)
       \/ /\ i = size - 1
          /\ UNCHANGED <<arr, heap_ix, pc, ix>>
    /\ UNCHANGED ts

-----------------------------------------------------------------------------
UpToSecond == ix > 1 /\ ~compare(ix, PARENT(ix))

UpGuard == ix > 0 /\ ~compare(ix, PARENT(ix))

heapify_up ==
    /\ pc = "up"
    /\ UpGuard
    /\ swap(ix, PARENT(ix))
    /\ ix' = PARENT(ix)
    /\ UNCHANGED <<size, ts, pc, p_elem>>

\* The smaller child, the left one when they are equal.
ChildIx(i) ==
    IF LEFT_CHILD(i) + 1 < size /\ ~compare(LEFT_CHILD(i) + 1, LEFT_CHILD(i))
    THEN LEFT_CHILD(i) + 1
    ELSE LEFT_CHILD(i)

DownGuard ==
    /\ size >= 2
    /\ ix <= PARENT(size - 1)
    /\ ~compare(ChildIx(ix), ix)

SwapsInPlace ==
    /\ pc = "down"
    /\ DownGuard
    /\ swap(ix, ChildIx(ix))
    /\ UNCHANGED <<size, ts, pc, ix, p_elem>>

heapify_down ==
    /\ pc = "down"
    /\ DownGuard
    /\ swap(ix, ChildIx(ix))
    /\ ix' = ChildIx(ix)
    /\ UNCHANGED <<size, ts, pc, p_elem>>

Return ==
    /\ \/ pc = "up" /\ ~UpGuard
       \/ pc = "down" /\ ~DownGuard
    /\ pc' = "idle"
    /\ ix' = 0
    /\ UNCHANGED <<arr, size, ts, heap_ix, p_elem>>

Loop == heapify_up \/ heapify_down \/ Return

Call ==
    \/ \E e \in Elem, k \in Key : binary_heap_push(e, k) \/ binary_heap_update(e, k)
    \/ \E i \in Slots : binary_heap_remove(i)
    \/ binary_heap_top
    \/ binary_heap_pop

Next == Call \/ Loop

Spec == Init /\ [][Next]_vars

-----------------------------------------------------------------------------
TypeOK ==
    /\ arr \in [Slots -> Elem \cup {NULL}]
    /\ size \in 0 .. Capacity
    /\ ts \in [Elem -> Key]
    /\ heap_ix \in [Elem -> Nat]
    /\ pc \in {"idle", "up", "down"}
    /\ ix \in Slots
    /\ p_elem \in Elem \cup {NULL}

\* Every queued element knows its own slot, also in the middle of a sift.
\* remove_server_state and update_server_state_ts address the heap through
\* s->heap_ix, and remove_server_state frees whatever that slot holds.
IndexConsistent ==
    \A i \in 0 .. size - 1 : arr[i] \in Elem /\ heap_ix[arr[i]] = i

\* The order of the array in the middle of a call: only the element being
\* sifted may be out of place, and its children never belong above its parent,
\* so one more swap cannot create a second disorder.
SiftInv ==
    /\ pc = "up" => ix < size
    /\ pc = "down" => ix < size \/ ix = 0
    /\ \A i \in 1 .. size - 1 :
          /\ \/ pc = "up" /\ i = ix
             \/ pc = "down" /\ PARENT(i) = ix
             \/ ts[arr[PARENT(i)]] <= ts[arr[i]]
          /\ pc # "idle" /\ ix > 0 /\ PARENT(i) = ix =>
                 ts[arr[PARENT(ix)]] <= ts[arr[i]]

\* binary_heap_validate: 0 iff no parent has a smaller child.
binary_heap_validate ==
    IF size < 2 \/ \A i \in 0 .. PARENT(size - 1) : compare(ChildIx(i), i)
    THEN 0
    ELSE -1

\* After every call the heap validates, as binary_heap_test.c asks after each
\* push, update, remove and pop.
HeapValid == pc = "idle" => binary_heap_validate = 0

\* A sifting loop ends, and soon: it never turns round, going up its index at
\* least halves, and going down it at least doubles and stays inside the heap.
SiftEnds ==
    [][pc # "idle" /\ pc' # "idle" =>
          /\ pc' = pc
          /\ pc = "up" => 2 * ix' < ix
          /\ pc = "down" => 2 * ix < ix' /\ ix' < size]_vars

\* The heap is a priority queue of its live slots: what top and pop hand out
\* has the smallest deadline, remove at an element's heap_ix takes that element
\* and no other, and the sifting loops neither lose nor duplicate an element.
PQ == INSTANCE PriorityQueue WITH
        members <- Live, key <- ts, taken <- p_elem

ImplementsQueue == PQ!Spec

=============================================================================

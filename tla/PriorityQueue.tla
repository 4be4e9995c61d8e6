----------------------------- MODULE PriorityQueue -----------------------------
(***************************************************************************)
(* What the timer heap promises its user, without arrays or indices: a     *)
(* bounded set of elements, each with a key, from which the element with   *)
(* the smallest key can be read or taken, and from which any element can   *)
(* be removed or re-keyed.  A call that cannot be served (push on a full   *)
(* queue, top or pop on an empty one) changes nothing.  BinaryHeap         *)
(* implements this specification; the server model (Astrolog) uses the     *)
(* queue in this form.                                                     *)
(***************************************************************************)
EXTENDS Integers, FiniteSets

CONSTANTS
    Elem,      \* the elements that may be queued
    Key,       \* the keys, ordered as integers
    Capacity   \* the greatest number of queued elements

VARIABLES
    members,   \* the queued elements
    key,       \* the key of every element, queued or not
    taken      \* the element the last successful top, pop or remove returned

pqVars == <<members, key, taken>>

Minimal == {e \in members : \A d \in members : key[e] <= key[d]}

Init ==
    /\ members = {}
    /\ key \in [Elem -> Key]
    /\ taken \notin Elem

Push(e, k) ==
    /\ e \notin members
    /\ Cardinality(members) < Capacity
    /\ members' = members \cup {e}
    /\ key' = [key EXCEPT ![e] = k]
    /\ UNCHANGED taken

Top ==
    /\ taken' \in Minimal
    /\ UNCHANGED <<members, key>>

Pop ==
    /\ taken' \in Minimal
    /\ members' = members \ {taken'}
    /\ UNCHANGED key

Update(e, k) ==
    /\ e \in members
    /\ key' = [key EXCEPT ![e] = k]
    /\ UNCHANGED <<members, taken>>

Remove(e) ==
    /\ e \in members
    /\ taken' = e
    /\ members' = members \ {e}
    /\ UNCHANGED key

Next ==
    \/ \E e \in Elem, k \in Key : Push(e, k) \/ Update(e, k)
    \/ \E e \in Elem : Remove(e)
    \/ Top
    \/ Pop

Spec == Init /\ [][Next]_pqVars

=============================================================================

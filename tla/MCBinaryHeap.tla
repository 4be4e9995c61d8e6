----------------------------- MODULE MCBinaryHeap -----------------------------
(***************************************************************************)
(* Six slots are the fewest for which binary_heap_remove has to sift its   *)
(* replacement up: the last element is moved under a parent it was not     *)
(* below before.  Three deadlines order parent, child and sifted element.  *)
(***************************************************************************)
EXTENDS BinaryHeap

\* A state up to the names of the elements and up to dead storage (the slots
\* past size, the fields of elements that are not queued).  No action and no
\* property depends on anything else.
LiveView ==
    <<[i \in {j \in Slots : j < size} |-> <<ts[arr[i]], heap_ix[arr[i]]>>], size, pc, ix>>

=============================================================================

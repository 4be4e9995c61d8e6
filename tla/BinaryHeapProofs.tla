--------------------------- MODULE BinaryHeapProofs ---------------------------
(***************************************************************************)
(* The heap of binary_heap.c is correct for every capacity, every set of   *)
(* elements and every set of deadlines.  The inductive invariant is        *)
(* HeapInv: types, the agreement of slots and heap_ix, and SiftInv, which  *)
(* says how far the order may be disturbed while a sift is under way.      *)
(***************************************************************************)
EXTENDS BinaryHeap, FiniteSetTheorems, WellFoundedInduction, TLAPS

HeapInv == TypeOK /\ IndexConsistent /\ SiftInv

\* The first n slots of a are in order by t, but for slot i; and the children
\* of i do not belong above its parent.
OrderedBut(a, t, n, i) ==
    \A j \in 1 .. n - 1 :
        /\ j # i /\ PARENT(j) # i => t[a[PARENT(j)]] <= t[a[j]]
        /\ PARENT(j) = i /\ i > 0 => t[a[PARENT(i)]] <= t[a[j]]

-----------------------------------------------------------------------------
\* A non-empty set of naturals has a least member.
LEMMA LeastOf ==
    ASSUME NEW T, T \subseteq Nat, T # {}
    PROVE  \E x \in T : \A y \in T : x <= y
  <1> DEFINE R == OpToRel(<, Nat)
  <1>1. IsWellFoundedOn(R, Nat)
    BY NatLessThanWellFounded, Zenon
  <1>2. PICK x \in T : \A y \in T : ~ (<<y, x>> \in R)
    <2> HIDE DEF R
    <2> QED BY <1>1, WFMin, Zenon
  <1>3. \A y \in T : ~(y < x)
    BY <1>2, Zenon DEF OpToRel
  <1> QED BY <1>3

\* PARENT of a positive index does not wrap, and is inverse to LEFT_CHILD.
LEMMA ParentFacts ==
    ASSUME NEW i \in Nat, i > 0
    PROVE  /\ PARENT(i) \in Nat
           /\ PARENT(i) < i
           /\ i = LEFT_CHILD(PARENT(i)) \/ i = LEFT_CHILD(PARENT(i)) + 1
  BY DEF PARENT, Dec, LEFT_CHILD

\* The two children of a slot, and whose children they are.
LEMMA ChildFacts ==
    ASSUME NEW i \in Nat
    PROVE  /\ LEFT_CHILD(i) \in Nat
           /\ LEFT_CHILD(i) > i
           /\ PARENT(LEFT_CHILD(i)) = i
           /\ PARENT(LEFT_CHILD(i) + 1) = i
  BY DEF PARENT, Dec, LEFT_CHILD

\* The index test of heapify_down: ix <= PARENT(size - 1) says exactly that
\* ix has a left child.
LEMMA LastRoot ==
    ASSUME NEW i \in Nat, NEW n \in Nat, n >= 2
    PROVE  i <= PARENT(n - 1) <=> LEFT_CHILD(i) < n
  BY DEF PARENT, Dec, LEFT_CHILD

\* The callback exchanges two occupied slots and keeps every other slot, and
\* the occupants still know where they are.
LEMMA SwapFacts ==
    ASSUME TypeOK, IndexConsistent,
           NEW i \in 0 .. size - 1, NEW j \in 0 .. size - 1,
           swap(i, j)
    PROVE  /\ arr' \in [Slots -> Elem \cup {NULL}]
           /\ heap_ix' \in [Elem -> Nat]
           /\ \A k \in 0 .. size - 1 :
                 /\ arr'[k] = arr[IF k = i THEN j ELSE IF k = j THEN i ELSE k]
                 /\ arr'[k] \in Elem
                 /\ heap_ix'[arr'[k]] = k
  <1>1. i \in Slots /\ j \in Slots /\ size \in Nat /\ 0 .. size - 1 \subseteq Slots
    BY HeapAssumption DEF TypeOK, Slots
  <1>2. arr' \in [Slots -> Elem \cup {NULL}]
    BY <1>1 DEF TypeOK, swap, Swapped
  <1>3. arr[i] \in Elem /\ arr[j] \in Elem /\ heap_ix[arr[i]] = i /\ heap_ix[arr[j]] = j
    BY DEF IndexConsistent
  <1>4. heap_ix' \in [Elem -> Nat]
    BY <1>1, <1>3 DEF TypeOK, swap, Reindexed
  <1>5. ASSUME NEW k \in 0 .. size - 1
        PROVE  /\ arr'[k] = arr[IF k = i THEN j ELSE IF k = j THEN i ELSE k]
               /\ arr'[k] \in Elem
               /\ heap_ix'[arr'[k]] = k
    <2>1. arr'[k] = arr[IF k = i THEN j ELSE IF k = j THEN i ELSE k]
      BY <1>1 DEF TypeOK, swap, Swapped
    <2>2. arr[k] \in Elem /\ heap_ix[arr[k]] = k
      BY DEF IndexConsistent
    <2>3. arr'[k] \in Elem
      BY <2>1, <2>2, <1>3
    <2>4. heap_ix'[arr'[k]] = k
      BY <2>1, <2>2, <1>3 DEF TypeOK, swap, Reindexed
    <2> QED BY <2>1, <2>3, <2>4
  <1> QED BY <1>2, <1>4, <1>5

\* The empty heap satisfies HeapInv.
LEMMA InitInv == Init => HeapInv
  BY HeapAssumption DEF Init, HeapInv, TypeOK, IndexConsistent, SiftInv, Slots

\* A push keeps HeapInv: the new slot is the only one out of place.
LEMMA PushInv ==
    ASSUME HeapInv, NEW e \in Elem, NEW k \in Key, binary_heap_push(e, k)
    PROVE  HeapInv'
  <1> USE HeapAssumption
  <1>1. TypeOK'
    BY DEF HeapInv, TypeOK, binary_heap_push, Slots
  <1>2. \A i \in 0 .. size - 1 : arr'[i] = arr[i] /\ arr[i] # e /\ arr[i] \in Elem
    BY DEF HeapInv, TypeOK, IndexConsistent, binary_heap_push, Slots, Live
  <1>3. arr'[size] = e
    BY DEF HeapInv, TypeOK, binary_heap_push, Slots
  <1>4. IndexConsistent'
    BY <1>2, <1>3 DEF HeapInv, TypeOK, IndexConsistent, binary_heap_push
  <1>5. SiftInv'
    <2>1. \A i \in 1 .. size : PARENT(i) \in 0 .. size - 1
      BY ParentFacts DEF HeapInv, TypeOK
    <2>2. \A i \in 1 .. size - 1 : ts'[arr'[PARENT(i)]] <= ts'[arr'[i]]
      BY <1>2, <2>1 DEF HeapInv, TypeOK, SiftInv, binary_heap_push
    <2> QED BY <2>1, <2>2 DEF HeapInv, TypeOK, SiftInv, binary_heap_push
  <1> QED BY <1>1, <1>4, <1>5 DEF HeapInv

\* Neither loop leaves the array when it moves its index.
LEMMA ChildIxFacts ==
    ASSUME HeapInv, NEW i \in Nat, size >= 2, i <= PARENT(size - 1)
    PROVE  /\ ChildIx(i) \in i + 1 .. size - 1
           /\ PARENT(ChildIx(i)) = i
           /\ \A j \in 1 .. size - 1 :
                 PARENT(j) = i => ts[arr[ChildIx(i)]] <= ts[arr[j]]
  <1>1. LEFT_CHILD(i) < size
    BY LastRoot DEF HeapInv, TypeOK
  <1>2. ChildIx(i) \in i + 1 .. size - 1 /\ PARENT(ChildIx(i)) = i
    BY <1>1, ChildFacts DEF ChildIx, HeapInv, TypeOK
  <1>3. ASSUME NEW j \in 1 .. size - 1, PARENT(j) = i
        PROVE  ts[arr[ChildIx(i)]] <= ts[arr[j]]
    <2>1. j = LEFT_CHILD(i) \/ j = LEFT_CHILD(i) + 1
      BY <1>3, ParentFacts DEF HeapInv, TypeOK
    <2>2. \A k \in 0 .. size - 1 : ts[arr[k]] \in Int
      BY HeapAssumption DEF HeapInv, TypeOK, IndexConsistent
    <2>3. LEFT_CHILD(i) \in 0 .. size - 1
      BY <1>1, ChildFacts DEF HeapInv, TypeOK
    <2>4. size \in Nat
      BY DEF HeapInv, TypeOK
    <2> QED BY <1>1, <2>1, <2>2, <2>3, <2>4 DEF ChildIx, compare, Compare
  <1> QED BY <1>2, <1>3

\* An iteration of heapify_up keeps HeapInv: the disorder moves to the parent.
LEMMA HeapifyUpInv ==
    ASSUME HeapInv, heapify_up
    PROVE  HeapInv'
  <1> USE HeapAssumption
  <1> DEFINE p == PARENT(ix)
  <1>1. ix \in 1 .. size - 1 /\ p \in 0 .. size - 1 /\ p < ix
    BY ParentFacts DEF HeapInv, TypeOK, SiftInv, heapify_up, UpGuard, Slots
  <1>2. /\ arr' \in [Slots -> Elem \cup {NULL}]
        /\ heap_ix' \in [Elem -> Nat]
        /\ \A k \in 0 .. size - 1 :
              /\ arr'[k] = arr[IF k = ix THEN p ELSE IF k = p THEN ix ELSE k]
              /\ arr'[k] \in Elem
              /\ heap_ix'[arr'[k]] = k
    <2> HIDE DEF p
    <2>1. p \in 0 .. size - 1 /\ ix \in 0 .. size - 1 /\ swap(ix, p)
      BY <1>1 DEF heapify_up, p, HeapInv, TypeOK
    <2> QED BY <2>1, SwapFacts DEF HeapInv
  <1>3. TypeOK'
    BY <1>1, <1>2 DEF HeapInv, TypeOK, heapify_up, Slots
  <1>4. IndexConsistent'
    BY <1>2 DEF heapify_up, IndexConsistent
  <1>5. SiftInv'
    <2>1. \A k \in 0 .. size - 1 : ts[arr[k]] \in Int
      BY DEF HeapInv, TypeOK, IndexConsistent
    <2>2. ts[arr[ix]] < ts[arr[p]]
      BY <1>1, <2>1 DEF heapify_up, UpGuard, compare, Compare
    <2>3. pc = "up" /\ pc' = "up" /\ ix' = p /\ size' = size /\ ts' = ts
      BY DEF heapify_up
    <2>4. size \in Nat
      BY DEF HeapInv, TypeOK
    <2>5. ASSUME NEW i \in 1 .. size - 1
          PROVE  /\ i = p \/ ts[arr'[PARENT(i)]] <= ts[arr'[i]]
                 /\ p > 0 /\ PARENT(i) = p => ts[arr'[PARENT(p)]] <= ts[arr'[i]]
      <3>1. PARENT(i) \in 0 .. size - 1 /\ PARENT(i) < i
        BY ParentFacts, <2>4
      <3>2. i = ix \/ ts[arr[PARENT(i)]] <= ts[arr[i]]
        BY <2>3 DEF HeapInv, SiftInv
      <3>3. PARENT(i) = ix => ts[arr[p]] <= ts[arr[i]]
        BY <1>1, <2>3 DEF HeapInv, SiftInv
      <3>4. p > 0 => /\ PARENT(p) \in 0 .. size - 1
                     /\ PARENT(p) < p
                     /\ ts[arr[PARENT(p)]] <= ts[arr[p]]
        BY ParentFacts, <1>1, <2>3, <2>4 DEF HeapInv, SiftInv
      <3> HIDE DEF p
      <3>5. i = p \/ ts[arr'[PARENT(i)]] <= ts[arr'[i]]
        <4>1. CASE i = ix
          BY <4>1, <1>1, <1>2, <2>1, <2>2 DEF p
        <4>2. CASE i # ix /\ i # p /\ PARENT(i) = ix
          BY <4>2, <3>1, <3>3, <1>1, <1>2
        <4>3. CASE i # ix /\ i # p /\ PARENT(i) = p
          BY <4>3, <3>1, <3>2, <1>1, <1>2, <2>1, <2>2
        <4>4. CASE i # ix /\ i # p /\ PARENT(i) # ix /\ PARENT(i) # p
          BY <4>4, <3>1, <3>2, <1>1, <1>2
        <4> QED BY <4>1, <4>2, <4>3, <4>4
      <3>6. ASSUME p > 0, PARENT(i) = p PROVE ts[arr'[PARENT(p)]] <= ts[arr'[i]]
        <4>1. ts[arr'[PARENT(p)]] = ts[arr[PARENT(p)]]
          BY <3>6, <3>4, <1>1, <1>2
        <4>2. CASE i = ix
          BY <4>1, <4>2, <3>6, <3>4, <1>1, <1>2
        <4>3. CASE i # ix
          BY <4>1, <4>3, <3>6, <3>1, <3>2, <3>4, <1>1, <1>2, <2>1
        <4> QED BY <4>2, <4>3
      <3> QED BY <3>5, <3>6
    <2> QED BY <1>1, <2>3, <2>4, <2>5 DEF SiftInv
  <1> QED BY <1>3, <1>4, <1>5 DEF HeapInv

\* An iteration of heapify_down keeps HeapInv: the smaller child moves up and
\* the disorder moves to its slot.
LEMMA HeapifyDownInv ==
    ASSUME HeapInv, heapify_down
    PROVE  HeapInv'
  <1> USE HeapAssumption
  <1> DEFINE c == ChildIx(ix)
  <1>0. size \in Nat /\ ix \in Nat /\ size >= 2 /\ size <= Capacity
    BY DEF HeapInv, TypeOK, heapify_down, DownGuard, Slots
  <1>1. /\ ix \in 0 .. size - 1 /\ c \in 1 .. size - 1
        /\ ix < c
        /\ PARENT(c) = ix
        /\ \A j \in 1 .. size - 1 : PARENT(j) = ix => ts[arr[c]] <= ts[arr[j]]
    BY <1>0, ChildIxFacts DEF heapify_down, DownGuard
  <1> HIDE DEF c
  <1>2. /\ arr' \in [Slots -> Elem \cup {NULL}]
        /\ heap_ix' \in [Elem -> Nat]
        /\ \A k \in 0 .. size - 1 :
              /\ arr'[k] = arr[IF k = ix THEN c ELSE IF k = c THEN ix ELSE k]
              /\ arr'[k] \in Elem
              /\ heap_ix'[arr'[k]] = k
    <2>1. c \in 0 .. size - 1 /\ swap(ix, c)
      BY <1>1, <1>0 DEF heapify_down, c
    <2> QED BY <2>1, <1>1, SwapFacts DEF HeapInv
  <1>3. TypeOK'
    BY <1>0, <1>1, <1>2 DEF HeapInv, TypeOK, heapify_down, Slots, c
  <1>4. IndexConsistent'
    BY <1>2 DEF heapify_down, IndexConsistent
  <1>5. SiftInv'
    <2>1. \A k \in 0 .. size - 1 : ts[arr[k]] \in Int
      BY DEF HeapInv, TypeOK, IndexConsistent
    <2>2. ts[arr[c]] < ts[arr[ix]]
      BY <1>0, <1>1, <2>1 DEF heapify_down, DownGuard, compare, Compare, c
    <2>3. pc = "down" /\ pc' = "down" /\ ix' = c /\ size' = size /\ ts' = ts
      BY DEF heapify_down, c
    <2>4. ASSUME NEW i \in 1 .. size - 1
          PROVE  /\ PARENT(i) = c \/ ts[arr'[PARENT(i)]] <= ts[arr'[i]]
                 /\ PARENT(i) = c => ts[arr'[PARENT(c)]] <= ts[arr'[i]]
      <3>1. PARENT(i) \in 0 .. size - 1 /\ PARENT(i) < i
        BY ParentFacts, <1>0
      <3>2. PARENT(i) = ix \/ ts[arr[PARENT(i)]] <= ts[arr[i]]
        BY <2>3 DEF HeapInv, SiftInv
      <3>3. PARENT(i) = ix => ts[arr[c]] <= ts[arr[i]]
        BY <1>1
      <3>4. i = ix => ts[arr[PARENT(ix)]] <= ts[arr[c]]
        BY <1>0, <1>1, <2>3 DEF HeapInv, SiftInv
      <3>5. PARENT(i) = c \/ ts[arr'[PARENT(i)]] <= ts[arr'[i]]
        <4>1. CASE i = c
          BY <4>1, <1>0, <1>1, <1>2, <2>1, <2>2
        <4>2. CASE i = ix
          BY <4>2, <3>1, <3>4, <1>1, <1>2
        <4>3. CASE i # c /\ i # ix /\ PARENT(i) = ix
          BY <4>3, <3>3, <1>1, <1>2
        <4>4. CASE i # c /\ i # ix /\ PARENT(i) # ix /\ PARENT(i) # c
          BY <4>4, <3>1, <3>2, <1>2
        <4> QED BY <4>1, <4>2, <4>3, <4>4
      <3>6. ASSUME PARENT(i) = c PROVE ts[arr'[PARENT(c)]] <= ts[arr'[i]]
        <4>1. i # c /\ i # ix
          BY <3>1, <3>6, <1>0, <1>1
        <4>2. arr'[PARENT(c)] = arr[c] /\ arr'[i] = arr[i]
          BY <4>1, <1>1, <1>2
        <4>3. ts[arr[c]] <= ts[arr[i]]
          BY <3>2, <3>6, <1>0, <1>1
        <4> QED BY <4>2, <4>3
      <3> QED BY <3>5, <3>6
    <2> QED BY <1>0, <1>1, <2>3, <2>4 DEF SiftInv
  <1> QED BY <1>3, <1>4, <1>5 DEF HeapInv

\* binary_heap_update chooses its loop rightly: when nothing but the slot i is
\* out of order, and its children do not belong above its parent, the branch
\* taken starts a sift in order.
LEMMA SiftStart ==
    ASSUME NEW a, NEW t, NEW n \in Nat, NEW i \in 0 .. n - 1,
           \A k \in 0 .. n - 1 : t[a[k]] \in Int,
           OrderedBut(a, t, n, i)
    PROVE  IF i > 0 /\ ~Compare(a, t, i, PARENT(i))
           THEN \A j \in 1 .. n - 1 : j # i => t[a[PARENT(j)]] <= t[a[j]]
           ELSE \A j \in 1 .. n - 1 : PARENT(j) # i => t[a[PARENT(j)]] <= t[a[j]]
  <1>1. \A j \in 1 .. n - 1 : PARENT(j) \in 0 .. n - 1
    BY ParentFacts
  <1>2. CASE i > 0 /\ ~Compare(a, t, i, PARENT(i))
    <2>1. t[a[i]] < t[a[PARENT(i)]]
      BY <1>1, <1>2 DEF Compare
    <2> QED BY <1>1, <1>2, <2>1 DEF OrderedBut
  <1>3. CASE ~(i > 0 /\ ~Compare(a, t, i, PARENT(i)))
    <2>1. i > 0 => t[a[PARENT(i)]] <= t[a[i]]
      BY <1>1, <1>3 DEF Compare
    <2> QED BY <1>3, <2>1 DEF OrderedBut
  <1> QED BY <1>2, <1>3

\* A re-keyed element is sifted the right way.
LEMMA UpdateInv ==
    ASSUME HeapInv, NEW e \in Elem, NEW k \in Key, binary_heap_update(e, k)
    PROVE  HeapInv'
  <1> USE HeapAssumption
  <1> DEFINE i == heap_ix[e]
  <1>1. i \in 0 .. size - 1 /\ arr[i] = e /\ size \in Nat
    BY DEF HeapInv, TypeOK, IndexConsistent, binary_heap_update, Live
  <1>2. TypeOK'
    BY <1>1 DEF HeapInv, TypeOK, binary_heap_update, Sift, Slots
  <1>3. IndexConsistent'
    BY DEF HeapInv, IndexConsistent, binary_heap_update
  <1>4. /\ \A j \in 0 .. size - 1 : ts'[arr[j]] \in Int /\ ts[arr[j]] \in Int
        /\ \A j \in 0 .. size - 1 : j # i => ts'[arr[j]] = ts[arr[j]]
    BY <1>1 DEF HeapInv, TypeOK, IndexConsistent, binary_heap_update
  <1>5. OrderedBut(arr, ts', size, i)
    <2>1. \A j \in 1 .. size - 1 :
             /\ PARENT(j) \in 0 .. size - 1
             /\ PARENT(j) < j
             /\ ts[arr[PARENT(j)]] <= ts[arr[j]]
      BY <1>1, ParentFacts DEF HeapInv, SiftInv, binary_heap_update
    <2> HIDE DEF i
    <2> QED BY <1>1, <1>4, <2>1 DEF OrderedBut
  <1>6. SiftInv'
    <2>1. Sift(arr, ts', i) /\ size' = size /\ arr' = arr
      BY DEF binary_heap_update
    <2>2. \A j \in 0 .. size - 1 : ts'[arr[j]] \in Int
      BY <1>4
    <2> HIDE DEF i
    <2>3. IF i > 0 /\ ~Compare(arr, ts', i, PARENT(i))
          THEN \A j \in 1 .. size - 1 : j # i => ts'[arr[PARENT(j)]] <= ts'[arr[j]]
          ELSE \A j \in 1 .. size - 1 : PARENT(j) # i => ts'[arr[PARENT(j)]] <= ts'[arr[j]]
      BY <1>1, <1>5, <2>2, SiftStart
    <2> QED BY <1>1, <1>5, <2>1, <2>3 DEF Sift, SiftInv, OrderedBut
  <1> QED BY <1>2, <1>3, <1>6 DEF HeapInv

\* The last element replaces the removed one, and may belong above or below.
LEMMA RemoveInv ==
    ASSUME HeapInv, NEW i \in Slots, binary_heap_remove(i)
    PROVE  HeapInv'
  <1> USE HeapAssumption
  <1>1. /\ size \in Nat /\ size <= Capacity /\ i \in 0 .. size - 1
        /\ size - 1 \in 0 .. size - 1 /\ size' = size - 1 /\ ts' = ts
        /\ p_elem' \in Elem
    BY DEF HeapInv, TypeOK, IndexConsistent, binary_heap_remove, Slots
  <1>2. \A j \in 1 .. size - 1 :
             /\ PARENT(j) \in 0 .. size - 1
             /\ PARENT(j) < j
             /\ ts[arr[PARENT(j)]] <= ts[arr[j]]
    BY <1>1, ParentFacts DEF HeapInv, SiftInv, binary_heap_remove
  <1>3. CASE i = size - 1
    <2>1. UNCHANGED <<arr, heap_ix, pc, ix>> /\ pc = "idle"
      BY <1>3 DEF binary_heap_remove
    <2>2. TypeOK'
      BY <1>1, <2>1 DEF HeapInv, TypeOK
    <2>3. IndexConsistent'
      BY <1>1, <2>1 DEF HeapInv, IndexConsistent
    <2>4. SiftInv'
      BY <1>1, <1>2, <2>1 DEF SiftInv
    <2> QED BY <2>2, <2>3, <2>4 DEF HeapInv
  <1>4. CASE i # size - 1
    <2>1. swap(i, size - 1) /\ Sift(arr', ts, i)
      BY <1>4 DEF binary_heap_remove
    <2>2. /\ arr' \in [Slots -> Elem \cup {NULL}]
          /\ heap_ix' \in [Elem -> Nat]
          /\ \A k \in 0 .. size - 1 :
                /\ arr'[k] = arr[IF k = i THEN size - 1
                                 ELSE IF k = size - 1 THEN i ELSE k]
                /\ arr'[k] \in Elem
                /\ heap_ix'[arr'[k]] = k
      BY <1>1, <2>1, SwapFacts DEF HeapInv
    <2>3. TypeOK'
      BY <1>1, <2>1, <2>2 DEF HeapInv, TypeOK, Sift
    <2>4. IndexConsistent'
      BY <1>1, <2>2 DEF IndexConsistent
    <2>5. \A k \in 0 .. size - 1 : ts[arr'[k]] \in Int /\ ts[arr[k]] \in Int
      BY <2>2 DEF HeapInv, TypeOK, IndexConsistent
    <2>6. \A k \in 0 .. size - 2 : k # i => arr'[k] = arr[k]
      BY <1>1, <2>2
    <2>7. OrderedBut(arr', ts, size - 1, i)
      <3> SUFFICES ASSUME NEW j \in 1 .. size - 2
                   PROVE  /\ j # i /\ PARENT(j) # i =>
                                ts[arr'[PARENT(j)]] <= ts[arr'[j]]
                          /\ PARENT(j) = i /\ i > 0 =>
                                ts[arr'[PARENT(i)]] <= ts[arr'[j]]
        BY <1>1 DEF OrderedBut
      <3>1. /\ PARENT(j) \in 0 .. size - 2 /\ PARENT(j) < j
            /\ ts[arr[PARENT(j)]] <= ts[arr[j]]
        BY <1>1, <1>2
      <3>2. i > 0 => /\ PARENT(i) \in 0 .. size - 2 /\ PARENT(i) < i
                     /\ ts[arr[PARENT(i)]] <= ts[arr[i]]
        BY <1>1, <1>2, <1>4
      <3>3. j # i /\ PARENT(j) # i => ts[arr'[PARENT(j)]] <= ts[arr'[j]]
        BY <1>1, <2>6, <3>1
      <3>4. ASSUME PARENT(j) = i, i > 0
            PROVE  ts[arr'[PARENT(i)]] <= ts[arr'[j]]
        <4>1. arr'[j] = arr[j] /\ arr'[PARENT(i)] = arr[PARENT(i)]
          BY <1>1, <2>6, <3>1, <3>2, <3>4
        <4> QED BY <1>1, <2>5, <3>1, <3>2, <3>4, <4>1
      <3> QED BY <3>3, <3>4
    <2>8. SiftInv'
      <3>1. size - 1 \in Nat /\ i \in 0 .. (size - 1) - 1
        BY <1>1, <1>4
      <3>2. \A k \in 0 .. (size - 1) - 1 : ts[arr'[k]] \in Int
        BY <1>1, <2>5
      <3>3. IF i > 0 /\ ~Compare(arr', ts, i, PARENT(i))
            THEN \A j \in 1 .. (size - 1) - 1 :
                    j # i => ts[arr'[PARENT(j)]] <= ts[arr'[j]]
            ELSE \A j \in 1 .. (size - 1) - 1 :
                    PARENT(j) # i => ts[arr'[PARENT(j)]] <= ts[arr'[j]]
        BY <2>7, <3>1, <3>2, SiftStart
      <3> QED BY <1>1, <2>1, <2>7, <3>1, <3>3 DEF Sift, SiftInv, OrderedBut
    <2> QED BY <2>3, <2>4, <2>8 DEF HeapInv
  <1> QED BY <1>3, <1>4

\* The last element replaces the root and is sifted down.
LEMMA PopInv ==
    ASSUME HeapInv, binary_heap_pop
    PROVE  HeapInv'
  <1> USE HeapAssumption
  <1>1. /\ size \in Nat /\ size <= Capacity /\ 0 \in 0 .. size - 1
        /\ size - 1 \in 0 .. size - 1 /\ size' = size - 1 /\ ts' = ts
        /\ pc = "idle" /\ pc' = "down" /\ ix' = 0 /\ swap(0, size - 1)
        /\ p_elem' \in Elem
    BY DEF HeapInv, TypeOK, IndexConsistent, binary_heap_pop
  <1>2. /\ arr' \in [Slots -> Elem \cup {NULL}]
        /\ heap_ix' \in [Elem -> Nat]
        /\ \A k \in 0 .. size - 1 :
              /\ arr'[k] = arr[IF k = 0 THEN size - 1
                               ELSE IF k = size - 1 THEN 0 ELSE k]
              /\ arr'[k] \in Elem
              /\ heap_ix'[arr'[k]] = k
    BY <1>1, SwapFacts DEF HeapInv
  <1>3. TypeOK'
    BY <1>1, <1>2 DEF HeapInv, TypeOK, Slots
  <1>4. IndexConsistent'
    BY <1>1, <1>2 DEF IndexConsistent
  <1>5. SiftInv'
    <2>1. \A j \in 1 .. size - 2 :
             PARENT(j) # 0 => ts[arr'[PARENT(j)]] <= ts[arr'[j]]
      <3>1. \A j \in 1 .. size - 2 :
               /\ PARENT(j) \in 0 .. size - 2
               /\ ts[arr[PARENT(j)]] <= ts[arr[j]]
        BY <1>1, ParentFacts DEF HeapInv, SiftInv
      <3> QED BY <1>1, <1>2, <3>1
    <2> QED BY <1>1, <2>1 DEF SiftInv
  <1> QED BY <1>3, <1>4, <1>5 DEF HeapInv

\* The live slots hold elements with integer deadlines.
LEMMA LiveTypes ==
    ASSUME HeapInv
    PROVE  /\ size \in Nat
           /\ \A k \in 0 .. size - 1 : arr[k] \in Elem /\ ts[arr[k]] \in Int
  <1>1. size \in Nat
    BY HeapAssumption DEF HeapInv, TypeOK
  <1>2. \A k \in 0 .. size - 1 : arr[k] \in Elem /\ ts[arr[k]] \in Int
    BY HeapAssumption DEF HeapInv, TypeOK, IndexConsistent
  <1> QED BY <1>1, <1>2

\* A loop stops only when the array is in order again.
LEMMA ReturnInv ==
    ASSUME HeapInv, Return
    PROVE  HeapInv'
  <1> USE HeapAssumption
  <1>1. TypeOK' /\ IndexConsistent'
    BY DEF HeapInv, TypeOK, IndexConsistent, Return, Slots
  <1>2. size \in Nat /\ ix \in Nat /\ \A k \in 0 .. size - 1 : ts[arr[k]] \in Int
    BY LiveTypes DEF HeapInv, TypeOK, Slots
  <1>3. ASSUME NEW i \in 1 .. size - 1
        PROVE  ts[arr[PARENT(i)]] <= ts[arr[i]]
    <2>1. PARENT(i) \in 0 .. size - 1
      BY <1>2, ParentFacts
    <2>2. CASE pc = "up" /\ i = ix
      BY <1>2, <2>1, <2>2 DEF Return, UpGuard, compare, Compare
    <2>3. CASE pc = "down" /\ PARENT(i) = ix
      <3>1. LEFT_CHILD(ix) < size /\ size >= 2
        BY <1>2, <2>3, ParentFacts, ChildFacts
      <3>2. ix <= PARENT(size - 1)
        BY <1>2, <3>1, LastRoot
      <3>3. compare(ChildIx(ix), ix)
        BY <2>3, <3>1, <3>2 DEF Return, DownGuard
      <3>4. /\ ChildIx(ix) \in 0 .. size - 1
            /\ ts[arr[ChildIx(ix)]] <= ts[arr[i]]
        BY <1>2, <2>3, <3>1, <3>2, ChildIxFacts
      <3> QED BY <1>2, <2>1, <2>3, <3>3, <3>4 DEF compare, Compare
    <2>4. CASE ~(pc = "up" /\ i = ix) /\ ~(pc = "down" /\ PARENT(i) = ix)
      BY <2>4 DEF HeapInv, SiftInv
    <2> QED BY <2>2, <2>3, <2>4
  <1>4. SiftInv'
    BY <1>3 DEF Return, SiftInv
  <1> QED BY <1>1, <1>4 DEF HeapInv

\* HeapInv is inductive.
LEMMA NextInv == HeapInv /\ [Next]_vars => HeapInv'
  <1> SUFFICES ASSUME HeapInv, [Next]_vars PROVE HeapInv'
    OBVIOUS
  <1>1. ASSUME NEW e \in Elem, NEW k \in Key, binary_heap_push(e, k) PROVE HeapInv'
    BY <1>1, PushInv
  <1>2. ASSUME NEW e \in Elem, NEW k \in Key, binary_heap_update(e, k) PROVE HeapInv'
    BY <1>2, UpdateInv
  <1>3. ASSUME NEW i \in Slots, binary_heap_remove(i) PROVE HeapInv'
    BY <1>3, RemoveInv
  <1>4. CASE binary_heap_top
    <2>1. arr[0] \in Elem
      BY <1>4 DEF HeapInv, TypeOK, IndexConsistent, binary_heap_top
    <2> QED BY <1>4, <2>1
            DEF binary_heap_top, HeapInv, TypeOK, IndexConsistent, SiftInv
  <1>5. CASE binary_heap_pop
    BY <1>5, PopInv
  <1>6. CASE heapify_up
    BY <1>6, HeapifyUpInv
  <1>7. CASE heapify_down
    BY <1>7, HeapifyDownInv
  <1>8. CASE Return
    BY <1>8, ReturnInv
  <1>9. CASE UNCHANGED vars
    BY <1>9 DEF vars, HeapInv, TypeOK, IndexConsistent, SiftInv
  <1> QED BY <1>1, <1>2, <1>3, <1>4, <1>5, <1>6, <1>7, <1>8, <1>9
          DEF Next, Call, Loop

\* HeapInv holds in every reachable state of the heap.
THEOREM HeapInvariant == Spec => []HeapInv
  BY InitInv, NextInv, PTL DEF Spec

\* No call writes outside the array, and no value leaves its type.
THEOREM TypeCorrect == Spec => []TypeOK
  BY HeapInvariant, PTL DEF HeapInv

\* s->heap_ix is always the slot of s, in the middle of a sift too.
THEOREM IndexCorrect == Spec => []IndexConsistent
  BY HeapInvariant, PTL DEF HeapInv

\* In the middle of a sift the order fails at the slot being sifted only, and the
\* slots around it are in order with each other: the loops have one defect to
\* mend, whichever of push, update, remove or pop made it.
THEOREM OneSlotOutOfPlace == Spec => []SiftInv
  BY HeapInvariant, PTL DEF HeapInv

\* Between two calls binary_heap_validate returns 0.
THEOREM AlwaysValid == Spec => []HeapValid
  <1>1. HeapInv => HeapValid
    <2> SUFFICES ASSUME HeapInv, pc = "idle", size >= 2,
                        NEW i \in 0 .. PARENT(size - 1)
                 PROVE  compare(ChildIx(i), i)
      BY DEF HeapValid, binary_heap_validate, HeapInv, TypeOK
    <2>1. size \in Nat /\ PARENT(size - 1) \in Nat
      BY ParentFacts DEF HeapInv, TypeOK
    <2>2. ChildIx(i) \in i + 1 .. size - 1 /\ PARENT(ChildIx(i)) = i
      BY <2>1, ChildIxFacts
    <2>3. ts[arr[i]] <= ts[arr[ChildIx(i)]]
      BY <2>1, <2>2 DEF HeapInv, SiftInv
    <2>4. \A k \in 0 .. size - 1 : ts[arr[k]] \in Int
      BY HeapAssumption DEF HeapInv, TypeOK, IndexConsistent
    <2> QED BY <2>1, <2>2, <2>3, <2>4 DEF compare, Compare
  <1> QED BY <1>1, HeapInvariant, PTL

-----------------------------------------------------------------------------
\* The root of an ordered array is a minimum: the least slot with a smaller
\* deadline would have a parent with a smaller deadline still.
LEMMA RootMinimal ==
    ASSUME HeapInv, pc = "idle", size > 0
    PROVE  arr[0] \in PQ!Minimal
  <1>1. size \in Nat /\ \A k \in 0 .. size - 1 : ts[arr[k]] \in Int
    BY LiveTypes
  <1> DEFINE T == {i \in 0 .. size - 1 : ts[arr[i]] < ts[arr[0]]}
  <1>2. T = {}
    <2>1. SUFFICES ASSUME T # {} PROVE FALSE
      OBVIOUS
    <2>2. T \subseteq Nat
      BY <1>1
    <2>3. PICK x \in T : \A y \in T : x <= y
      <3> HIDE DEF T
      <3> QED BY <2>1, <2>2, LeastOf
    <2>4. x \in 1 .. size - 1
      BY <1>1, <2>3
    <2>5. PARENT(x) \in 0 .. size - 1 /\ PARENT(x) < x
      BY <1>1, <2>4, ParentFacts
    <2>6. ts[arr[PARENT(x)]] <= ts[arr[x]]
      BY <2>4 DEF HeapInv, SiftInv
    <2>7. PARENT(x) \in T
      BY <1>1, <2>3, <2>4, <2>5, <2>6
    <2> QED BY <2>3, <2>4, <2>5, <2>7
  <1>3. \A i \in 0 .. size - 1 : ts[arr[0]] <= ts[arr[i]]
    BY <1>1, <1>2
  <1>4. arr[0] \in Live
    BY <1>1 DEF Live
  <1>5. \A d \in Live : ts[arr[0]] <= ts[d]
    BY <1>3 DEF Live
  <1> QED BY <1>4, <1>5 DEF PQ!Minimal

\* A heap that refuses no push holds fewer elements than its capacity.
LEMMA LiveCardinality ==
    ASSUME HeapInv
    PROVE  Cardinality(Live) \in Nat /\ Cardinality(Live) <= size
  <1>1. size \in Nat
    BY HeapAssumption DEF HeapInv, TypeOK
  <1> DEFINE f == [i \in 0 .. size - 1 |-> arr[i]]
  <1>2. f \in Surjection(0 .. size - 1, Live)
    BY DEF Surjection, Live
  <1>3. IsFiniteSet(0 .. size - 1) /\ Cardinality(0 .. size - 1) = size
    BY <1>1, FS_Interval
  <1> HIDE DEF f
  <1>4. IsFiniteSet(Live) /\ Cardinality(Live) <= Cardinality(0 .. size - 1)
    BY <1>2, <1>3, FS_Surjection
  <1> QED BY <1>3, <1>4, FS_CardinalityType

\* Exchanging two occupied slots loses no element and duplicates none.
LEMMA SwapLive ==
    ASSUME TypeOK, IndexConsistent,
           NEW i \in 0 .. size - 1, NEW j \in 0 .. size - 1, swap(i, j)
    PROVE  {arr'[k] : k \in 0 .. size - 1} = Live
  <1>1. \A k \in 0 .. size - 1 :
           arr'[k] = arr[IF k = i THEN j ELSE IF k = j THEN i ELSE k]
    BY SwapFacts
  <1> QED BY <1>1 DEF Live

\* Dropping the last slot after a swap drops exactly the element swapped into it.
LEMMA TakeLive ==
    ASSUME HeapInv, NEW i \in 0 .. size - 1, size' = size - 1,
           swap(i, size - 1) \/ (i = size - 1 /\ arr' = arr)
    PROVE  Live' = Live \ {arr[i]}
  <1>1. size \in Nat /\ size - 1 \in 0 .. size - 1
    BY LiveTypes
  <1>2. \A k \in 0 .. size - 1 :
           arr'[k] = arr[IF k = i THEN size - 1 ELSE IF k = size - 1 THEN i ELSE k]
    BY <1>1, SwapFacts DEF HeapInv
  <1>3. \A j \in 0 .. size - 1, k \in 0 .. size - 1 : arr[j] = arr[k] => j = k
    BY DEF HeapInv, IndexConsistent
  <1>4. Live' = {arr'[k] : k \in 0 .. size - 2}
    BY <1>1 DEF Live
  <1>5. ASSUME NEW k \in 0 .. size - 2 PROVE arr'[k] \in Live \ {arr[i]}
    BY <1>1, <1>2, <1>3 DEF Live
  <1>6. ASSUME NEW k \in 0 .. size - 1, k # i PROVE arr[k] \in Live'
    <2>1. CASE k = size - 1
      BY <1>1, <1>2, <1>4, <1>6, <2>1
    <2>2. CASE k # size - 1
      BY <1>1, <1>2, <1>4, <1>6, <2>2
    <2> QED BY <2>1, <2>2
  <1>7. Live' \subseteq Live \ {arr[i]}
    BY <1>4, <1>5, Zenon
  <1>8. \A e \in Live : \E k \in 0 .. size - 1 : e = arr[k]
    BY Zenon DEF Live
  <1>9. Live \ {arr[i]} \subseteq Live'
    BY <1>6, <1>8, Zenon
  <1> QED BY <1>7, <1>9, Zenon

\* A loop iteration is invisible: it only exchanges occupied slots.
LEMMA LoopStutters ==
    ASSUME HeapInv, Loop
    PROVE  UNCHANGED PQ!pqVars
  <1>1. size' = size /\ UNCHANGED <<ts, p_elem>>
    BY DEF Loop, heapify_up, heapify_down, Return
  <1>2. Live' = Live
    <2>1. CASE heapify_up
      <3>1. ix \in 0 .. size - 1 /\ PARENT(ix) \in 0 .. size - 1
        BY <2>1, ParentFacts DEF HeapInv, TypeOK, SiftInv, heapify_up, UpGuard, Slots
      <3>2. swap(ix, PARENT(ix))
        BY <2>1 DEF heapify_up
      <3> QED BY <1>1, <3>1, <3>2, SwapLive DEF HeapInv, Live
    <2>2. CASE heapify_down
      <3>1. size \in Nat /\ ix \in Nat
        BY LiveTypes DEF HeapInv, TypeOK, Slots
      <3>2. ix \in 0 .. size - 1 /\ ChildIx(ix) \in 0 .. size - 1
        BY <2>2, <3>1, ChildIxFacts DEF heapify_down, DownGuard
      <3>3. swap(ix, ChildIx(ix))
        BY <2>2 DEF heapify_down
      <3> QED BY <1>1, <3>2, <3>3, SwapLive DEF HeapInv, Live
    <2>3. CASE Return
      BY <2>3 DEF Return, Live
    <2> QED BY <2>1, <2>2, <2>3 DEF Loop
  <1> QED BY <1>1, <1>2 DEF PQ!pqVars

\* A push that is not refused adds its element and is within the capacity.
LEMMA PushRefines ==
    ASSUME HeapInv, NEW e \in Elem, NEW k \in Key, binary_heap_push(e, k)
    PROVE  PQ!Push(e, k)
  <1>1. size \in Nat /\ size < Capacity /\ size \in Slots
    BY LiveTypes, HeapAssumption DEF binary_heap_push, Slots
  <1>2. \A j \in 0 .. size - 1 : arr'[j] = arr[j]
    BY <1>1 DEF HeapInv, TypeOK, binary_heap_push
  <1>3. arr'[size] = e /\ size' = size + 1
    BY <1>1 DEF HeapInv, TypeOK, binary_heap_push
  <1>4. Live' = Live \cup {e}
    <2>1. Live' = {arr'[j] : j \in 0 .. size}
      BY <1>1, <1>3 DEF Live
    <2>2. 0 .. size = (0 .. size - 1) \cup {size}
      BY <1>1
    <2> QED BY <1>2, <1>3, <2>1, <2>2 DEF Live
  <1>5. Cardinality(Live) < Capacity
    BY <1>1, LiveCardinality, HeapAssumption
  <1>6. PQ!Cardinality(Live) = Cardinality(Live)
    BY Zenon DEF PQ!Cardinality, Cardinality
  <1> QED BY <1>4, <1>5, <1>6 DEF PQ!Push, binary_heap_push

\* Every step of the heap is a call of the abstract queue or invisible to it.
LEMMA StepRefines == HeapInv /\ [Next]_vars => [PQ!Next]_PQ!pqVars
  <1> SUFFICES ASSUME HeapInv, [Next]_vars PROVE [PQ!Next]_PQ!pqVars
    OBVIOUS
  <1>1. ASSUME NEW e \in Elem, NEW k \in Key, binary_heap_push(e, k) PROVE PQ!Next
    BY <1>1, PushRefines DEF PQ!Next
  <1>2. ASSUME NEW e \in Elem, NEW k \in Key, binary_heap_update(e, k) PROVE PQ!Next
    <2>1. PQ!Update(e, k)
      BY <1>2 DEF PQ!Update, binary_heap_update, Live
    <2> QED BY <2>1 DEF PQ!Next
  <1>3. ASSUME NEW i \in Slots, binary_heap_remove(i) PROVE PQ!Next
    <2>1. i \in 0 .. size - 1 /\ arr[i] \in Elem
      BY <1>3, LiveTypes DEF Slots, binary_heap_remove
    <2>2. Live' = Live \ {arr[i]}
      BY <1>3, <2>1, TakeLive DEF binary_heap_remove
    <2>3. arr[i] \in Live
      BY <2>1 DEF Live
    <2>4. PQ!Remove(arr[i])
      BY <1>3, <2>2, <2>3 DEF PQ!Remove, binary_heap_remove
    <2> QED BY <2>1, <2>4 DEF PQ!Next
  <1>4. CASE binary_heap_top
    <2>1. PQ!Top
      BY <1>4, RootMinimal DEF PQ!Top, binary_heap_top, Live
    <2> QED BY <2>1 DEF PQ!Next
  <1>5. CASE binary_heap_pop
    <2>1. 0 \in 0 .. size - 1
      BY <1>5, LiveTypes DEF binary_heap_pop
    <2>2. Live' = Live \ {arr[0]}
      BY <1>5, <2>1, TakeLive DEF binary_heap_pop
    <2>3. PQ!Pop
      BY <1>5, <2>2, RootMinimal DEF PQ!Pop, binary_heap_pop
    <2> QED BY <2>3 DEF PQ!Next
  <1>6. CASE Loop
    BY <1>6, LoopStutters
  <1>7. CASE UNCHANGED vars
    BY <1>7 DEF vars, PQ!pqVars, Live
  <1> QED BY <1>1, <1>2, <1>3, <1>4, <1>5, <1>6, <1>7 DEF Next, Call

\* binary_heap.c implements a bounded priority queue keyed by the deadlines:
\* top and pop hand out an element with a least deadline, remove takes the
\* element that the index names, nothing is lost, duplicated or overwritten.
THEOREM Refinement == Spec => ImplementsQueue
  <1>1. Init => PQ!Init
    <2> SUFFICES ASSUME Init PROVE PQ!Init
      OBVIOUS
    <2>1. Live = {}
      BY DEF Init, Live
    <2> QED BY <2>1, HeapAssumption DEF Init, PQ!Init
  <1> QED BY <1>1, StepRefines, HeapInvariant, PTL
          DEF Spec, ImplementsQueue, PQ!Spec

\* The loops of heapify_up and heapify_down end, after a number of iterations
\* that is logarithmic in the size of the heap.
THEOREM SiftingEnds == Spec => SiftEnds
  <1> DEFINE Advances ==
        pc # "idle" /\ pc' # "idle" =>
          /\ pc' = pc
          /\ pc = "up" => 2 * ix' < ix
          /\ pc = "down" => 2 * ix < ix' /\ ix' < size
  <1>1. HeapInv /\ [Next]_vars => [Advances]_vars
    <2> SUFFICES ASSUME HeapInv, Next PROVE Advances
      OBVIOUS
    <2> HeapInv /\ ix \in Nat /\ size \in Nat
      BY DEF HeapInv, TypeOK, Slots
    <2>1. CASE heapify_up
      <3>1. ix > 0 /\ pc = "up" /\ ix' = PARENT(ix)
        BY <2>1 DEF heapify_up, UpGuard
      <3>2. 2 * PARENT(ix) < ix
        BY <3>1, ParentFacts DEF LEFT_CHILD
      <3> QED BY <2>1, <3>1, <3>2 DEF heapify_up
    <2>2. CASE heapify_down
      <3>1. size >= 2 /\ ix <= PARENT(size - 1) /\ pc = "down" /\ ix' = ChildIx(ix)
        BY <2>2 DEF heapify_down, DownGuard
      <3>2. LEFT_CHILD(ix) < size
        BY <3>1, LastRoot
      <3>3. ChildIx(ix) \in Nat /\ 2 * ix < ChildIx(ix) /\ ChildIx(ix) < size
        BY <3>2 DEF ChildIx, LEFT_CHILD
      <3> QED BY <2>2, <3>1, <3>3 DEF heapify_down
    <2>3. CASE Return
      BY <2>3 DEF Return
    <2>4. CASE Call
      BY <2>4 DEF Call, binary_heap_push, binary_heap_update, binary_heap_remove,
                  binary_heap_top, binary_heap_pop
    <2> QED BY <2>1, <2>2, <2>3, <2>4 DEF Next, Loop
  <1> QED BY <1>1, HeapInvariant, PTL DEF Spec, SiftEnds

=============================================================================

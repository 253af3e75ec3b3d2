----------------------------- MODULE OctoPlansProofs -----------------------------
(***************************************************************************)
(* Invariants of the plans of OctoPlans and of the heap under them, for    *)
(* any workers, keys, cells, bumps, thresholds and capacities.             *)
(*                                                                         *)
(* First the heap alone, whatever calls drive it: its index names each     *)
(* resident at its place through every swap.  Then what the operators of   *)
(* the plans return, and what one offer to the heap does to its residents. *)
(* PlanInv is the inductive invariant of the composition; the theorems on  *)
(* what the heap keeps, and on what complete means, rest on it.  Two more  *)
(* parts prove that nothing is lost: sums over the deltas on the way, one  *)
(* balance for every kind of mass a plan carries, and, plan by plan, that  *)
(* each step keeps it; and of Elastic, flow by flow, that none is          *)
(* underestimated.                                                         *)
(***************************************************************************)
EXTENDS OctoPlansInv, SequenceTheorems

(***************************************************************************)
(* Facts about places, counts and the tree.                                *)
(***************************************************************************)
LEMMA PlaceFacts ==
  ASSUME heap \in Seq(Entries)
  PROVE  /\ Len(heap) \in Nat
         /\ Places = 1..Len(heap)
         /\ \A i \in Places : /\ i \in Nat /\ i >= 1
                              /\ heap[i] \in Entries
                              /\ heap[i].key \in Keys
                              /\ heap[i].count \in Int
                              /\ Digest[heap[i].key] \in Digests
<1>1. Len(heap) \in Nat /\ Places = 1..Len(heap)
  BY DEF Places
<1>2. ASSUME NEW i \in Places
      PROVE  heap[i] \in Entries
  BY <1>1
<1>3. ASSUME NEW e \in Entries
      PROVE  e.key \in Keys /\ e.count \in Int /\ Digest[e.key] \in Digests
  BY DEF Entries, Digests
<1> QED
  BY <1>1, <1>2, <1>3

(* A child has one parent, and comes after it. *)
LEMMA ChildFacts ==
  /\ \A p, c \in Nat : p >= 1 /\ Child(p, c) => p < c
  /\ \A p, q, c \in Nat : Child(p, c) /\ Child(q, c) => p = q
BY DEF Child

(***************************************************************************)
(* A swap of two places.                                                   *)
(***************************************************************************)
LEMMA SwapKeepsIndex ==
  ASSUME NEW i \in Places, NEW j \in Places, i # j,
         Index, SwapEntries(i, j)
  PROVE  /\ Index'
         /\ Len(heap') = Len(heap)
         /\ heap'[i] = heap[j]
         /\ heap'[j] = heap[i]
         /\ \A x \in Places \ {i, j} : heap'[x] = heap[x]
<1> USE DEF Index
<1>0. heap \in Seq(Entries) /\ slots \in Seq(Digests) /\ Len(slots) = Len(heap)
  BY DEF Shapes, IndexAgrees
<1>a. /\ i \in 1..Len(heap) /\ j \in 1..Len(heap)
      /\ i \in 1..Len(slots) /\ j \in 1..Len(slots)
      /\ Places = 1..Len(heap)
      /\ heap' = Swapped(heap, i, j) /\ slots' = Swapped(slots, i, j)
  BY <1>0 DEF SwapEntries, Places
<1>1. /\ heap' \in Seq(Entries)
      /\ Len(heap') = Len(heap)
      /\ heap'[i] = heap[j]
      /\ heap'[j] = heap[i]
      /\ \A x \in Places \ {i, j} : heap'[x] = heap[x]
  <2>1. PICK s : s = heap
    OBVIOUS
  <2>2. PICK t : t = heap'
    OBVIOUS
  <2>3. /\ s \in Seq(Entries) /\ i \in 1..Len(s) /\ j \in 1..Len(s)
        /\ t = Swapped(s, i, j)
    BY <1>0, <1>a, <2>1, <2>2
  <2>4. /\ t \in Seq(Entries) /\ Len(t) = Len(s) /\ t[i] = s[j] /\ t[j] = s[i]
        /\ \A x \in (1..Len(s)) \ {i, j} : t[x] = s[x]
    BY <2>3 DEF Swapped
  <2> QED
    BY <1>0, <1>a, <2>1, <2>2, <2>4
<1>2. /\ slots' \in Seq(Digests)
      /\ Len(slots') = Len(slots)
      /\ slots'[i] = slots[j]
      /\ slots'[j] = slots[i]
      /\ \A x \in Places \ {i, j} : slots'[x] = slots[x]
  <2>1. PICK s : s = slots
    OBVIOUS
  <2>2. PICK t : t = slots'
    OBVIOUS
  <2>3. /\ s \in Seq(Digests) /\ i \in 1..Len(s) /\ j \in 1..Len(s)
        /\ t = Swapped(s, i, j)
    BY <1>0, <1>a, <2>1, <2>2
  <2>4. /\ t \in Seq(Digests) /\ Len(t) = Len(s) /\ t[i] = s[j] /\ t[j] = s[i]
        /\ \A x \in (1..Len(s)) \ {i, j} : t[x] = s[x]
    BY <2>3 DEF Swapped
  <2> QED
    BY <1>0, <1>a, <2>1, <2>2, <2>4
<1>3. Places' = Places
  BY <1>1 DEF Places
<1>4. /\ \A x \in Places : x \in Nat
      /\ \A x \in Places : slots[x] = Digest[heap[x].key]
      /\ slots[i] \in Digests /\ slots[j] \in Digests
  BY <1>0, PlaceFacts DEF IndexAgrees
<1>5. KeysOnce'
  <2> SUFFICES ASSUME NEW x \in Places, NEW y \in Places,
                      heap'[x].key = heap'[y].key
               PROVE  x = y
    BY <1>3 DEF KeysOnce
  <2>1. \A a, b \in Places : heap[a].key = heap[b].key => a = b
    BY DEF KeysOnce
  <2> QED
    BY <1>1, <2>1
<1>6. \A x \in Places : slots'[x] = Digest[heap'[x].key]
  BY <1>1, <1>2, <1>4
<1>7. /\ positions' \in [Digests -> SUBSET Nat]
      /\ \A d \in Digests : positions'[d] = {x \in Places : slots'[x] = d}
  <2>0. /\ positions \in [Digests -> SUBSET Nat]
        /\ \A d \in Digests : positions[d] = {x \in Places : slots[x] = d}
    BY <1>4 DEF Shapes, IndexAgrees
  <2>1. CASE slots[i] = slots[j]
    <3>1. positions' = positions
      BY <2>1 DEF SwapEntries, SwappedIndex
    <3>2. \A x \in Places : slots'[x] = slots[x]
      BY <1>2, <2>1
    <3> QED
      BY <2>0, <3>1, <3>2
  <2>2. CASE slots[i] # slots[j]
    <3>1. positions' = [positions EXCEPT ![slots[i]] = Moved(@, i, j),
                                         ![slots[j]] = Moved(@, j, i)]
      BY <2>2 DEF SwapEntries, SwappedIndex
    <3>2. i \in positions[slots[i]] /\ j \in positions[slots[j]]
      BY <1>4, <2>0
    <3>3. /\ positions'[slots[i]] = (positions[slots[i]] \ {i}) \cup {j}
          /\ positions'[slots[j]] = (positions[slots[j]] \ {j}) \cup {i}
          /\ \A d \in Digests \ {slots[i], slots[j]} : positions'[d] = positions[d]
          /\ DOMAIN positions' = Digests
          /\ positions' = [d \in DOMAIN positions' |-> positions'[d]]
      BY <1>4, <2>0, <2>2, <3>1, <3>2 DEF Moved
    <3>4. ASSUME NEW d \in Digests
          PROVE  positions'[d] = {x \in Places : slots'[x] = d}
      <4>1. CASE d = slots[i]
        BY <1>2, <2>0, <2>2, <3>3, <4>1
      <4>2. CASE d = slots[j]
        BY <1>2, <2>0, <2>2, <3>3, <4>2
      <4>3. CASE d # slots[i] /\ d # slots[j]
        BY <1>2, <2>0, <2>2, <3>3, <4>3
      <4> QED
        BY <4>1, <4>2, <4>3
    <3>5. \A d \in Digests : positions'[d] \in SUBSET Nat
      BY <1>4, <3>4
    <3> QED
      BY <3>3, <3>4, <3>5
  <2> QED
    BY <2>1, <2>2
<1>8. \A d \in Digests : positions'[d] = {x \in Places : Digest[heap'[x].key] = d}
  BY <1>6, <1>7
<1>9. IndexAgrees'
  BY <1>0, <1>1, <1>2, <1>3, <1>6, <1>8 DEF IndexAgrees
<1> QED
  BY <1>1, <1>2, <1>5, <1>7, <1>9 DEF Shapes

(***************************************************************************)
(* The sifts.                                                              *)
(***************************************************************************)
LEMMA CountFacts ==
  ASSUME Index
  PROVE  /\ Len(heap) \in Nat
         /\ Places = 1..Len(heap)
         /\ \A i \in Places : i \in Nat /\ i >= 1 /\ heap[i].count \in Int
         /\ \A p, c \in Places : Child(p, c) => p < c
         /\ \A p, q, c \in Places : Child(p, c) /\ Child(q, c) => p = q
<1>1. heap \in Seq(Entries)
  BY DEF Index, Shapes
<1> QED
  BY <1>1, PlaceFacts, ChildFacts

(* The entry goes down to the lighter of its children. *)
LEMMA SiftDownStep ==
  ASSUME HeapInv, SiftDown
  PROVE  HeapInv'
<1>1. PICK a : a = sift.at
  OBVIOUS
<1>2. /\ sift.way = "down" /\ a \in Places /\ a \in Nat /\ sift.from \in Nat
      /\ sift.from <= a
      /\ sift = [way |-> "down", at |-> a, from |-> sift.from]
  BY <1>1 DEF HeapInv, Sifting, SiftDown, Resting, Rest, Index, Places
<1>3. PICK c \in Places : /\ Chosen(a, c)
                          /\ SwapEntries(a, c)
                          /\ sift' = [sift EXCEPT !.at = c]
  BY <1>1 DEF SiftDown
<1>4. Index
  BY DEF HeapInv
<1>5. Child(a, c) /\ a < c /\ c \in Nat
  BY <1>2, <1>3, <1>4, CountFacts DEF Chosen
<1>6. /\ Index'
      /\ Len(heap') = Len(heap)
      /\ heap'[a] = heap[c]
      /\ heap'[c] = heap[a]
      /\ \A x \in Places \ {a, c} : heap'[x] = heap[x]
  BY <1>2, <1>3, <1>4, <1>5, SwapKeepsIndex
<1>7. Places' = Places
  BY <1>6 DEF Places
<1>8. sift' = [way |-> "down", at |-> c, from |-> sift.from] /\ c # sift.from
  BY <1>2, <1>3, <1>5
<1>9. Sifting'
  BY <1>2, <1>5, <1>7, <1>8 DEF Sifting, Places
<1>10. /\ \A i \in Places : heap[i].count \in Int
       /\ \A p, q \in Places : Child(p, q) => p < q
       /\ \A p, q, r \in Places : Child(p, r) /\ Child(q, r) => p = q
       /\ \A i \in Places : i \in Nat
  BY <1>4, CountFacts
<1>11. \A p, q \in Places :
         Child(p, q) /\ p # a /\ q # a => heap[p].count <= heap[q].count
  BY <1>1, <1>2 DEF HeapInv, OrderedBut, Excused
<1>12. \A p, q \in Places :
         Child(p, a) /\ Child(a, q) => heap[p].count <= heap[q].count
  BY <1>1, <1>2 DEF HeapInv, Bridged
<1>13. heap[c].count < heap[a].count
  BY <1>3 DEF Chosen, Lighter
<1>14. \A q \in Places : Child(a, q) => heap[c].count <= heap[q].count
  <2> SUFFICES ASSUME NEW q \in Places, Child(a, q)
               PROVE  heap[c].count <= heap[q].count
    OBVIOUS
  <2>1. q \in Nat /\ heap[c].count \in Int /\ heap[q].count \in Int
    BY <1>10
  <2>2. CASE q < c
    BY <1>3, <2>1, <2>2 DEF Chosen, Lighter
  <2>3. CASE q = c
    BY <2>1, <2>3
  <2>4. CASE c < q
    BY <1>3, <2>1, <2>4 DEF Chosen, Lighter
  <2> QED
    BY <1>5, <2>1, <2>2, <2>3, <2>4
<1>15. OrderedBut'
  <2> SUFFICES ASSUME NEW p \in Places, NEW q \in Places, Child(p, q), p # c
               PROVE  heap'[p].count <= heap'[q].count
    BY <1>7, <1>8 DEF OrderedBut, Excused
  <2>0. p # q /\ p \in Nat /\ q \in Nat /\ p < q
    BY <1>10
  <2>1. CASE q = c
    <3>1. p = a
      BY <1>2, <1>5, <1>10, <2>1
    <3> QED
      BY <1>2, <1>6, <1>10, <1>13, <2>1, <3>1
  <2>2. CASE p = a /\ q # c
    BY <1>6, <1>14, <2>0, <2>2
  <2>3. CASE q = a
    <3>1. p # a /\ heap'[p] = heap[p]
      BY <1>6, <2>0, <2>3
    <3> QED
      BY <1>3, <1>5, <1>6, <1>12, <2>3, <3>1
  <2>4. CASE p # a /\ q # a /\ q # c
    BY <1>6, <1>11, <2>4
  <2> QED
    BY <2>1, <2>2, <2>3, <2>4
<1>16. Bridged'
  <2> SUFFICES ASSUME NEW p \in Places, NEW q \in Places, Child(p, c), Child(c, q)
               PROVE  heap'[p].count <= heap'[q].count
    BY <1>7, <1>8 DEF Bridged
  <2>1. p = a /\ q \in Nat /\ c < q
    BY <1>2, <1>5, <1>10
  <2>2. heap'[p] = heap[c] /\ heap'[q] = heap[q] /\ q # a
    BY <1>2, <1>5, <1>6, <2>1
  <2> QED
    BY <1>5, <1>11, <2>2
<1> QED
  BY <1>6, <1>9, <1>15, <1>16 DEF HeapInv

(* It has no lighter child; if it never moved, it may have to go up. *)
LEMMA SiftDownEndsStep ==
  ASSUME HeapInv, SiftDownEnds
  PROVE  HeapInv'
<1>1. PICK a : a = sift.at
  OBVIOUS
<1>2. /\ sift.way = "down" /\ a \in Places /\ a \in Nat /\ sift.from \in Nat
      /\ sift = [way |-> "down", at |-> a, from |-> sift.from]
  BY <1>1 DEF HeapInv, Sifting, SiftDownEnds, Resting, Rest, Index, Places
<1>3. Index /\ UNCHANGED <<heap, slots, positions>>
  BY DEF HeapInv, SiftDownEnds
<1>4. Index' /\ Places' = Places
  BY <1>3 DEF Index, Shapes, KeysOnce, IndexAgrees, Places
<1>5. \A i \in Places : heap[i].count \in Int
  BY <1>3, CountFacts
<1>6. \A q \in Places : Child(a, q) => heap[a].count <= heap[q].count
  BY <1>1, <1>2, <1>5 DEF SiftDownEnds, Lighter
<1>7. CASE a = sift.from
  <2>1. sift' = [way |-> "up", at |-> a, from |-> sift.from]
    BY <1>1, <1>2, <1>7 DEF SiftDownEnds, TurnsUp
  <2>2. Sifting'
    BY <1>2, <1>4, <2>1 DEF Sifting
  <2>3. OrderedBut'
    BY <1>1, <1>2, <1>3, <1>4, <1>6, <2>1 DEF HeapInv, OrderedBut, Excused
  <2>4. Bridged'
    BY <1>1, <1>2, <1>3, <1>4, <2>1 DEF HeapInv, Bridged
  <2> QED
    BY <1>4, <2>2, <2>3, <2>4 DEF HeapInv
<1>8. CASE a # sift.from
  <2>1. sift' = Rest
    BY <1>1, <1>2, <1>8 DEF SiftDownEnds, TurnsUp
  <2>2. Sifting'
    BY <2>1 DEF Sifting, Resting, Rest
  <2>3. OrderedBut'
    BY <1>1, <1>2, <1>3, <1>4, <1>6, <1>8 DEF HeapInv, OrderedBut, Excused
  <2>4. Bridged'
    BY <2>1 DEF Bridged, Rest
  <2> QED
    BY <1>4, <2>2, <2>3, <2>4 DEF HeapInv
<1> QED
  BY <1>7, <1>8

(* The entry goes up above a parent that counts more. *)
LEMMA SiftUpStep ==
  ASSUME HeapInv, SiftUp
  PROVE  HeapInv'
<1>1. PICK c : c = sift.at
  OBVIOUS
<1>2. /\ sift.way = "up" /\ c \in Places /\ c \in Nat /\ sift.from \in Nat
      /\ sift = [way |-> "up", at |-> c, from |-> sift.from]
  BY <1>1 DEF HeapInv, Sifting, SiftUp, Resting, Rest, Index, Places
<1>3. PICK a \in Places : /\ Child(a, c)
                          /\ Lighter(c, a)
                          /\ SwapEntries(a, c)
                          /\ sift' = [sift EXCEPT !.at = a]
  BY <1>1 DEF SiftUp
<1>4. Index
  BY DEF HeapInv
<1>5. a < c /\ a \in Nat
  BY <1>2, <1>3, <1>4, CountFacts
<1>6. /\ Index'
      /\ Len(heap') = Len(heap)
      /\ heap'[a] = heap[c]
      /\ heap'[c] = heap[a]
      /\ \A x \in Places \ {a, c} : heap'[x] = heap[x]
  BY <1>2, <1>3, <1>4, <1>5, SwapKeepsIndex
<1>7. Places' = Places
  BY <1>6 DEF Places
<1>8. sift' = [way |-> "up", at |-> a, from |-> sift.from]
  BY <1>2, <1>3
<1>9. Sifting'
  BY <1>2, <1>5, <1>7, <1>8 DEF Sifting
<1>10. /\ \A i \in Places : heap[i].count \in Int
       /\ \A p, q \in Places : Child(p, q) => p < q
       /\ \A p, q, r \in Places : Child(p, r) /\ Child(q, r) => p = q
       /\ \A i \in Places : i \in Nat
  BY <1>4, CountFacts
<1>11. \A p, q \in Places :
         Child(p, q) /\ q # c => heap[p].count <= heap[q].count
  BY <1>1, <1>2 DEF HeapInv, OrderedBut, Excused
<1>12. \A q \in Places : Child(c, q) => heap[a].count <= heap[q].count
  BY <1>1, <1>2, <1>3 DEF HeapInv, Bridged
<1>13. heap[c].count < heap[a].count
  BY <1>3 DEF Lighter
<1>14. heap[a].count \in Int /\ heap[c].count \in Int
  BY <1>2, <1>10
<1>15. OrderedBut'
  <2> SUFFICES ASSUME NEW p \in Places, NEW q \in Places, Child(p, q), q # a
               PROVE  heap'[p].count <= heap'[q].count
    BY <1>7, <1>8 DEF OrderedBut, Excused
  <2>0. p # q /\ heap[p].count \in Int /\ heap[q].count \in Int
    BY <1>10
  <2>1. CASE q = c
    <3>1. p = a
      BY <1>2, <1>3, <1>10, <2>1
    <3> QED
      BY <1>6, <1>13, <1>14, <2>1, <3>1
  <2>2. CASE p = a /\ q # c
    <3>1. heap[a].count <= heap[q].count /\ heap'[q] = heap[q]
      BY <1>6, <1>11, <2>2
    <3> QED
      BY <1>6, <1>13, <1>14, <2>0, <2>2, <3>1
  <2>3. CASE p = c
    BY <1>6, <1>12, <2>0, <2>3
  <2>4. CASE p # a /\ p # c /\ q # c
    BY <1>6, <1>11, <2>4
  <2> QED
    BY <2>1, <2>2, <2>3, <2>4
<1>16. Bridged'
  <2> SUFFICES ASSUME NEW p \in Places, NEW q \in Places, Child(p, a), Child(a, q)
               PROVE  heap'[p].count <= heap'[q].count
    BY <1>7, <1>8 DEF Bridged
  <2>1. p < a /\ a < q /\ p \in Nat /\ q \in Nat
    BY <1>10
  <2>2. p # a /\ p # c /\ heap'[p] = heap[p]
    BY <1>2, <1>5, <1>6, <2>1
  <2>3. heap[p].count <= heap[a].count
    BY <1>2, <1>5, <1>11
  <2>4. CASE q = c
    BY <1>6, <2>2, <2>3, <2>4
  <2>5. CASE q # c
    <3>1. heap[a].count <= heap[q].count /\ heap'[q] = heap[q]
      BY <1>6, <1>11, <2>1, <2>5
    <3>2. heap[p].count \in Int /\ heap[q].count \in Int
      BY <1>10
    <3> QED
      BY <1>14, <2>2, <2>3, <3>1, <3>2
  <2> QED
    BY <2>4, <2>5
<1> QED
  BY <1>6, <1>9, <1>15, <1>16 DEF HeapInv

(* Nothing above it counts more. *)
LEMMA SiftUpEndsStep ==
  ASSUME HeapInv, SiftUpEnds
  PROVE  HeapInv'
<1>1. sift.way = "up" /\ Index /\ UNCHANGED <<heap, slots, positions>> /\ sift' = Rest
  BY DEF HeapInv, SiftUpEnds
<1>2. Index' /\ Places' = Places
  BY <1>1 DEF Index, Shapes, KeysOnce, IndexAgrees, Places
<1>3. /\ \A i \in Places : heap[i].count \in Int
      /\ sift.at \in Places
  BY <1>1, CountFacts DEF HeapInv, Sifting, Resting, Rest
<1>4. \A p \in Places : Child(p, sift.at) => heap[p].count <= heap[sift.at].count
  BY <1>3 DEF SiftUpEnds, Lighter
<1>5. OrderedBut'
  BY <1>1, <1>2, <1>4 DEF HeapInv, OrderedBut, Excused
<1>6. Sifting' /\ Bridged'
  BY <1>1 DEF Sifting, Bridged, Resting, Rest
<1> QED
  BY <1>2, <1>5, <1>6 DEF HeapInv

(***************************************************************************)
(* update, clear and the round trip.                                       *)
(***************************************************************************)
LEMMA RestingFacts ==
  ASSUME HeapInv, Resting
  PROVE  /\ Index
         /\ sift = Rest
         /\ \A p, c \in Places : Child(p, c) => heap[p].count <= heap[c].count
BY DEF HeapInv, Resting, Rest, OrderedBut, Excused

(* The index finds the places of a key. *)
LEMMA MatchesFound ==
  ASSUME Index, NEW k \in Keys
  PROVE  Matches(k) = {i \in Places : heap[i].key = k}
<1>1. Digest[k] \in Digests
  BY DEF Digests
<1>2. positions[Digest[k]] = {i \in Places : Digest[heap[i].key] = Digest[k]}
  BY <1>1 DEF Index, IndexAgrees
<1> QED
  BY <1>2 DEF Matches

(* A resident's new count sets it off down the heap. *)
LEMMA RescoreStep ==
  ASSUME HeapInv, Resting, NEW k \in Keys, NEW n \in Int, Rescore(k, n)
  PROVE  HeapInv'
<1>1. /\ Index
      /\ \A p, c \in Places : Child(p, c) => heap[p].count <= heap[c].count
  BY RestingFacts
<1>2. PICK i \in Places :
        /\ heap[i].key = k
        /\ heap' = [heap EXCEPT ![i] = Entry(k, n)]
        /\ sift' = [way |-> "down", at |-> i, from |-> i]
        /\ UNCHANGED <<slots, positions>>
  BY <1>1, MatchesFound DEF Rescore
<1>3. heap \in Seq(Entries) /\ Entry(k, n) \in Entries
  BY <1>1 DEF Index, Shapes, Entries, Entry
<1>4. /\ heap' \in Seq(Entries)
      /\ Len(heap') = Len(heap)
      /\ heap'[i] = Entry(k, n)
      /\ \A x \in Places \ {i} : heap'[x] = heap[x]
  BY <1>2, <1>3 DEF Places
<1>5. Places' = Places
  BY <1>4 DEF Places
<1>6. \A x \in Places : heap'[x].key = heap[x].key
  BY <1>2, <1>4 DEF Entry
<1>7. Index'
  BY <1>1, <1>2, <1>4, <1>5, <1>6 DEF Index, Shapes, KeysOnce, IndexAgrees
<1>8. /\ \A x \in Places : x \in Nat /\ heap[x].count \in Int
      /\ \A p, q \in Places : Child(p, q) => p < q
  BY <1>1, CountFacts
<1>9. Sifting'
  BY <1>2, <1>5, <1>8 DEF Sifting
<1>10. OrderedBut'
  BY <1>1, <1>2, <1>4, <1>5 DEF OrderedBut, Excused
<1>11. Bridged'
  <2> SUFFICES ASSUME NEW p \in Places, NEW q \in Places, Child(p, i), Child(i, q)
               PROVE  heap'[p].count <= heap'[q].count
    BY <1>2, <1>5 DEF Bridged
  <2>1. p < i /\ i < q /\ p \in Nat /\ q \in Nat /\ i \in Nat
    BY <1>8
  <2>2. heap'[p] = heap[p] /\ heap'[q] = heap[q]
    BY <1>4, <2>1
  <2>3. heap[p].count <= heap[i].count /\ heap[i].count <= heap[q].count
    BY <1>1
  <2>4. heap[p].count \in Int /\ heap[i].count \in Int /\ heap[q].count \in Int
    BY <1>8
  <2> QED
    BY <2>2, <2>3, <2>4
<1> QED
  BY <1>7, <1>9, <1>10, <1>11 DEF HeapInv

(* With room left, a new key is seated last and goes up. *)
LEMMA SeatLastStep ==
  ASSUME HeapInv, Resting, NEW k \in Keys, NEW n \in Int, SeatLast(k, n)
  PROVE  HeapInv'
<1>1. /\ Index
      /\ \A p, c \in Places : Child(p, c) => heap[p].count <= heap[c].count
  BY RestingFacts
<1>2. PICK l : l = Len(heap) + 1
  OBVIOUS
<1>3. PICK d : d = Digest[k]
  OBVIOUS
<1>4. /\ Matches(k) = {} /\ Len(heap) < K
      /\ heap' = heap \o <<Entry(k, n)>>
      /\ slots' = slots \o <<d>>
      /\ positions' = [positions EXCEPT ![d] = @ \cup {l}]
      /\ sift' = [way |-> "up", at |-> l, from |-> l]
  BY <1>2, <1>3 DEF SeatLast, Listed
<1>5. /\ heap \in Seq(Entries) /\ Entry(k, n) \in Entries
      /\ slots \in Seq(Digests) /\ d \in Digests
      /\ Len(slots) = Len(heap) /\ Len(heap) \in Nat
      /\ positions \in [Digests -> SUBSET Nat]
  BY <1>1, <1>3, CountFacts DEF Index, Shapes, IndexAgrees, Entries, Entry, Digests
<1>6. /\ heap' \in Seq(Entries)
      /\ Len(heap') = l
      /\ heap'[l] = Entry(k, n)
      /\ \A x \in Places : heap'[x] = heap[x]
  BY <1>2, <1>4, <1>5 DEF Places
<1>7. /\ slots' \in Seq(Digests)
      /\ Len(slots') = l
      /\ slots'[l] = d
      /\ \A x \in Places : slots'[x] = slots[x]
  <2>1. PICK s, S : s = slots /\ S = Digests
    OBVIOUS
  <2>2. s \in Seq(S) /\ d \in S /\ l = Len(s) + 1 /\ Places = 1..Len(s) /\ Len(s) \in Nat
    BY <1>2, <1>5, <2>1 DEF Places
  <2>3. PICK t : t = s \o <<d>>
    OBVIOUS
  <2>4. t \in Seq(S) /\ Len(t) = l /\ t[l] = d /\ \A x \in 1..Len(s) : t[x] = s[x]
    BY <2>2, <2>3
  <2> QED
    BY <1>4, <2>1, <2>2, <2>3, <2>4
<1>8. /\ Places' = Places \cup {l} /\ l \notin Places /\ l \in Nat
      /\ \A x \in Places : x \in Nat /\ x < l
  BY <1>2, <1>5, <1>6 DEF Places
<1>9. \A x \in Places : heap[x].key # k
  BY <1>1, <1>4, MatchesFound
<1>10. KeysOnce'
  <2>1. heap'[l].key = k
    BY <1>6 DEF Entry
  <2>2. \A x, y \in Places : heap[x].key = heap[y].key => x = y
    BY <1>1 DEF Index, KeysOnce
  <2> QED
    BY <1>6, <1>8, <1>9, <2>1, <2>2 DEF KeysOnce
<1>11. IndexAgrees'
  <2>1. \A x \in Places : slots[x] = Digest[heap[x].key]
    BY <1>1 DEF Index, IndexAgrees
  <2>2. Digest[heap'[l].key] = d
    BY <1>3, <1>6 DEF Entry
  <2>3. \A x \in Places' : slots'[x] = Digest[heap'[x].key]
    BY <1>6, <1>7, <1>8, <2>1, <2>2
  <2>4. ASSUME NEW e \in Digests
        PROVE  positions'[e] = {x \in Places' : Digest[heap'[x].key] = e}
    <3>1. positions[e] = {x \in Places : Digest[heap[x].key] = e}
      BY <1>1 DEF Index, IndexAgrees
    <3>2. {x \in Places' : Digest[heap'[x].key] = e}
            = positions[e] \cup {x \in {l} : d = e}
      BY <1>6, <1>8, <2>2, <3>1
    <3>3. positions'[e] = IF e = d THEN positions[e] \cup {l} ELSE positions[e]
      BY <1>4, <1>5
    <3> QED
      BY <3>2, <3>3
  <2> QED
    BY <1>6, <1>7, <2>3, <2>4 DEF IndexAgrees
<1>12. positions' \in [Digests -> SUBSET Nat]
  BY <1>4, <1>5, <1>8
<1>13. Index'
  <2>1. Len(heap') <= K
    BY <1>2, <1>4, <1>5, <1>6, HeapAssumption DEF HeapAssumption
  <2> QED
    BY <1>6, <1>7, <1>10, <1>11, <1>12, <2>1 DEF Index, Shapes
<1>14. Sifting'
  BY <1>4, <1>8 DEF Sifting
<1>15. \A p, q \in Places' : Child(p, q) => p < q
  BY <1>13, ChildFacts, <1>8, <1>5 DEF Places
<1>16. OrderedBut'
  <2> SUFFICES ASSUME NEW p \in Places', NEW q \in Places', Child(p, q), q # l
               PROVE  heap'[p].count <= heap'[q].count
    BY <1>4 DEF OrderedBut, Excused
  <2>1. q \in Places /\ p < q
    BY <1>8, <1>15
  <2>2. p \in Places
    BY <1>8, <2>1
  <2> QED
    BY <1>1, <1>6, <2>1, <2>2
<1>17. Bridged'
  <2> SUFFICES ASSUME NEW q \in Places', Child(l, q)
               PROVE  FALSE
    BY <1>4 DEF Bridged
  <2>1. l < q
    BY <1>8, <1>15
  <2> QED
    BY <1>8, <2>1
<1> QED
  BY <1>13, <1>14, <1>16, <1>17 DEF HeapInv

(* A new key that counts more takes the place of the lightest. *)
LEMMA SeatAtRootStep ==
  ASSUME HeapInv, Resting, NEW k \in Keys, NEW n \in Int, SeatAtRoot(k, n)
  PROVE  HeapInv'
<1>1. /\ Index
      /\ \A p, c \in Places : Child(p, c) => heap[p].count <= heap[c].count
  BY RestingFacts
<1>2. PICK d : d = Digest[k]
  OBVIOUS
<1>3. PICK s : s = slots[1]
  OBVIOUS
<1>4. /\ Matches(k) = {} /\ Len(heap) >= K /\ K > 0
      /\ heap' = [heap EXCEPT ![1] = Entry(k, n)]
      /\ slots' = [slots EXCEPT ![1] = d]
      /\ positions' = Listed(Dropped(positions, s, 1), d, 1)
      /\ sift' = [way |-> "down", at |-> 1, from |-> 1]
  BY <1>2, <1>3 DEF SeatAtRoot, Accepts
<1>5. /\ heap \in Seq(Entries) /\ Entry(k, n) \in Entries
      /\ slots \in Seq(Digests) /\ d \in Digests
      /\ Len(slots) = Len(heap) /\ Len(heap) \in Nat
      /\ positions \in [Digests -> SUBSET Nat]
  BY <1>1, <1>2, CountFacts DEF Index, Shapes, IndexAgrees, Entries, Entry, Digests
<1>6. 1 \in Places /\ Places = 1..Len(heap) /\ \A x \in Places : x \in Nat /\ x >= 1
  BY <1>4, <1>5, HeapAssumption DEF Places, HeapAssumption
<1>7. /\ heap' \in Seq(Entries)
      /\ Len(heap') = Len(heap)
      /\ heap'[1] = Entry(k, n)
      /\ \A x \in Places \ {1} : heap'[x] = heap[x]
  BY <1>4, <1>5, <1>6
<1>8. /\ slots' \in Seq(Digests)
      /\ Len(slots') = Len(slots)
      /\ slots'[1] = d
      /\ \A x \in Places \ {1} : slots'[x] = slots[x]
  BY <1>4, <1>5, <1>6
<1>9. Places' = Places
  BY <1>7 DEF Places
<1>10. \A x \in Places : heap[x].key # k
  BY <1>1, <1>4, MatchesFound
<1>11. KeysOnce'
  <2>1. heap'[1].key = k
    BY <1>7 DEF Entry
  <2>2. \A x, y \in Places : heap[x].key = heap[y].key => x = y
    BY <1>1 DEF Index, KeysOnce
  <2> QED
    BY <1>7, <1>9, <1>10, <2>1, <2>2 DEF KeysOnce
<1>12. positions' \in [Digests -> SUBSET Nat] /\ IndexAgrees'
  <2>1. \A x \in Places : slots[x] = Digest[heap[x].key]
    BY <1>1 DEF Index, IndexAgrees
  <2>2. Digest[heap'[1].key] = d
    BY <1>2, <1>7 DEF Entry
  <2>3. \A x \in Places : slots'[x] = Digest[heap'[x].key]
    BY <1>7, <1>8, <2>1, <2>2
  <2>4. s \in Digests
    BY <1>3, <1>5, <1>6
  <2>5. /\ positions' \in [Digests -> SUBSET Nat]
        /\ \A e \in Digests :
             positions'[e] = (IF e = s THEN positions[e] \ {1} ELSE positions[e])
                               \cup {x \in {1} : d = e}
    BY <1>4, <1>5, <2>4 DEF Listed, Dropped
  <2>6. ASSUME NEW e \in Digests
        PROVE  positions'[e] = {x \in Places : Digest[heap'[x].key] = e}
    <3>1. positions[e] = {x \in Places : Digest[heap[x].key] = e}
      BY <1>1 DEF Index, IndexAgrees
    <3>2. Digest[heap[1].key] = s
      BY <1>3, <1>6, <2>1
    <3>3. (IF e = s THEN positions[e] \ {1} ELSE positions[e])
            = {x \in Places \ {1} : Digest[heap[x].key] = e}
      BY <1>6, <3>1, <3>2
    <3>4. {x \in Places : Digest[heap'[x].key] = e}
            = {x \in Places \ {1} : Digest[heap[x].key] = e} \cup {x \in {1} : d = e}
      BY <1>6, <1>7, <2>2
    <3> QED
      BY <2>5, <3>3, <3>4
  <2> QED
    BY <1>5, <1>7, <1>8, <1>9, <2>3, <2>5, <2>6 DEF IndexAgrees
<1>13. Index'
  BY <1>1, <1>7, <1>8, <1>11, <1>12 DEF Index, Shapes
<1>14. Sifting'
  BY <1>4, <1>6, <1>9 DEF Sifting
<1>15. \A p, q \in Places : Child(p, q) => p < q
  BY <1>1, CountFacts
<1>16. OrderedBut'
  BY <1>1, <1>4, <1>7, <1>9 DEF OrderedBut, Excused
<1>17. Bridged'
  <2> SUFFICES ASSUME NEW p \in Places, Child(p, 1)
               PROVE  FALSE
    BY <1>4, <1>9 DEF Bridged
  <2>1. p < 1
    BY <1>6, <1>15
  <2> QED
    BY <1>6, <2>1
<1> QED
  BY <1>13, <1>14, <1>16, <1>17 DEF HeapInv

(* Nothing happens to a key that is turned away, and an empty heap has an  *)
(* empty index.                                                            *)
LEMMA TurnAwayStep ==
  ASSUME HeapInv, UNCHANGED heapVars
  PROVE  HeapInv'
BY DEF heapVars, HeapInv, Index, Shapes, KeysOnce, IndexAgrees, Sifting, OrderedBut, Bridged,
       Excused, Places, Resting

LEMMA EmptyHeap ==
  ASSUME heap' = <<>>, slots' = <<>>, positions' = [d \in Digests |-> {}], sift' = Rest
  PROVE  HeapInv'
<1>1. Places' = {}
  BY DEF Places
<1>2. heap' \in Seq(Entries) /\ slots' \in Seq(Digests) /\ positions' \in [Digests -> SUBSET Nat]
  OBVIOUS
<1>3. KeysOnce' /\ IndexAgrees' /\ OrderedBut'
  BY <1>1 DEF KeysOnce, IndexAgrees, OrderedBut
<1>4. Len(heap') <= K
  BY HeapAssumption DEF HeapAssumption
<1>5. Sifting' /\ Bridged'
  BY DEF Sifting, Bridged, Resting, Rest
<1> QED
  BY <1>2, <1>3, <1>4, <1>5 DEF HeapInv, Index, Shapes

(* The index rebuilt from the heap is the index it had. *)
LEMMA ReloadStep ==
  ASSUME HeapInv, Reload
  PROVE  HeapInv'
<1>1. Index /\ UNCHANGED <<heap, sift>> /\ Places' = Places
  BY DEF HeapInv, Reload, Places
<1>2. slots' = slots
  <2>1. slots \in Seq(Digests) /\ Len(slots) = Len(heap)
    BY <1>1 DEF Index, Shapes, IndexAgrees
  <2>2. DOMAIN slots = Places /\ slots = [i \in DOMAIN slots |-> slots[i]]
    BY <2>1 DEF Places
  <2>3. \A i \in Places : slots[i] = Digest[heap[i].key]
    BY <1>1 DEF Index, IndexAgrees
  <2> QED
    BY <2>2, <2>3 DEF Reload
<1>3. positions' = positions
  <2>1. /\ positions \in [Digests -> SUBSET Nat]
        /\ \A d \in Digests : positions[d] = {i \in Places : Digest[heap[i].key] = d}
    BY <1>1 DEF Index, Shapes, IndexAgrees
  <2> QED
    BY <2>1 DEF Reload
<1> QED
  BY <1>1, <1>2, <1>3, TurnAwayStep DEF heapVars

(***************************************************************************)
(* The theorems.                                                           *)
(***************************************************************************)
LEMMA HeapInitInv == HeapInit => HeapInv
<1> SUFFICES ASSUME HeapInit
             PROVE  HeapInv
  OBVIOUS
<1>1. heap = <<>> /\ slots = <<>> /\ positions = [d \in Digests |-> {}] /\ sift = Rest
  BY DEF HeapInit
<1>2. Places = {}
  BY <1>1 DEF Places
<1>3. heap \in Seq(Entries) /\ slots \in Seq(Digests) /\ positions \in [Digests -> SUBSET Nat]
  BY <1>1
<1>4. KeysOnce /\ IndexAgrees /\ OrderedBut
  BY <1>1, <1>2 DEF KeysOnce, IndexAgrees, OrderedBut
<1>5. Len(heap) <= K
  BY <1>1, HeapAssumption DEF HeapAssumption
<1>6. Sifting /\ Bridged
  BY <1>1 DEF Sifting, Bridged, Resting, Rest
<1> QED
  BY <1>3, <1>4, <1>5, <1>6 DEF HeapInv, Index, Shapes

LEMMA HeapStepInv == HeapInv /\ [HeapNext]_heapVars => HeapInv'
<1> SUFFICES ASSUME HeapInv, [HeapNext]_heapVars
             PROVE  HeapInv'
  OBVIOUS
<1>1. ASSUME NEW k \in Keys, NEW n \in Int, Update(k, n)
      PROVE  HeapInv'
  <2>1. Resting
    BY <1>1 DEF Update
  <2>2. CASE Rescore(k, n)
    BY <2>1, <2>2, RescoreStep
  <2>3. CASE SeatLast(k, n)
    BY <2>1, <2>3, SeatLastStep
  <2>4. CASE SeatAtRoot(k, n)
    BY <2>1, <2>4, SeatAtRootStep
  <2>5. CASE TurnAway(k, n)
    BY <2>5, TurnAwayStep DEF TurnAway
  <2> QED
    BY <1>1, <2>2, <2>3, <2>4, <2>5 DEF Update
<1>2. CASE Sift
  BY <1>2, SiftDownStep, SiftDownEndsStep, SiftUpStep, SiftUpEndsStep DEF Sift
<1>3. CASE Clear
  BY <1>3, EmptyHeap DEF Clear, Resting
<1>4. CASE Reload
  BY <1>4, ReloadStep
<1>5. CASE UNCHANGED heapVars
  BY <1>5, TurnAwayStep
<1> QED
  BY <1>1, <1>2, <1>3, <1>4, <1>5 DEF HeapNext

(* The invariant of the heap with a sift under way: types, the index and   *)
(* where the order may fail, through every update of common/heap.rs.       *)
THEOREM HeapInvariantCorrect == HeapSpec => []HeapInv
<1> QED
  BY HeapInitInv, HeapStepInv, PTL DEF HeapSpec

LEMMA HeapInvSound ==
  ASSUME HeapInv
  PROVE  HeapSound
<1>1. Index /\ \A i \in Places : heap[i].count \in Int
  BY CountFacts DEF HeapInv
<1>2. Resting => HeapOrdered
  BY <1>1, RestingFacts DEF HeapInv, HeapOrdered, Lighter
<1> QED
  BY <1>1, <1>2 DEF HeapSound, Index

(* The index HHHeap patches through its sifts names every resident, no key *)
(* is resident twice, and a heap at rest is in order.                      *)
THEOREM HeapSoundCorrect == HeapSpec => []HeapSound
<1>1. HeapInv => HeapSound
  BY HeapInvSound
<1> QED
  BY <1>1, HeapInvariantCorrect, PTL

(***************************************************************************)
(* The members of a visit that are picked, each once and in order.         *)
(***************************************************************************)
Picks(order, picked, r) ==
  /\ Row(r)
  /\ \A n \in DOMAIN r : r[n] \in picked \cap ToSet(order)
  /\ \A c \in picked \cap ToSet(order) : \E n \in DOMAIN r : r[n] = c
  /\ Visits(r)
  /\ r \in Seq(picked \cap ToSet(order))

LEMMA InOrderFacts ==
  ASSUME NEW order, Row(order), Visits(order), NEW picked
  PROVE  Picks(order, picked, InOrder(order, picked))
<1> DEFINE at == {i \in DOMAIN order : order[i] \in picked}
           upto(i) == {j \in at : j <= i}
           nth(n) == CHOOSE i \in at : Cardinality(upto(i)) = n
           rank == [i \in at |-> Cardinality(upto(i))]
<1>1. DOMAIN order = 1..Len(order) /\ Len(order) \in Nat
  BY DEF Row
<1>2. IsFiniteSet(at) /\ Cardinality(at) \in Nat /\ at \subseteq Nat
  <2>1. IsFiniteSet(1..Len(order))
    BY <1>1, FS_Interval
  <2>2. at \in SUBSET (1..Len(order))
    BY <1>1
  <2>3. IsFiniteSet(at)
    BY <2>1, <2>2, FS_Subset
  <2> QED
    BY <2>2, <2>3, FS_CardinalityType
<1>3. ASSUME NEW i \in at
      PROVE  rank[i] \in 1..Cardinality(at)
  <2>1. upto(i) \in SUBSET at /\ i \in upto(i)
    BY <1>2
  <2>2. IsFiniteSet(upto(i)) /\ Cardinality(upto(i)) <= Cardinality(at)
    BY <1>2, <2>1, FS_Subset
  <2>3. Cardinality(upto(i)) \in Nat /\ Cardinality(upto(i)) # 0
    BY <2>1, <2>2, FS_CardinalityType, FS_EmptySet
  <2> QED
    BY <1>2, <2>2, <2>3
<1>4. ASSUME NEW i \in at, NEW j \in at, i < j
      PROVE  rank[i] < rank[j]
  <2>1. upto(i) \in SUBSET upto(j) /\ j \in upto(j) /\ j \notin upto(i)
    BY <1>2, <1>4
  <2>2. IsFiniteSet(upto(j)) /\ upto(j) \in SUBSET at
    BY <1>2, FS_Subset
  <2>3. /\ Cardinality(upto(i)) <= Cardinality(upto(j))
        /\ Cardinality(upto(i)) = Cardinality(upto(j)) => upto(i) = upto(j)
    BY <2>1, <2>2, FS_Subset
  <2>4. rank[i] \in Nat /\ rank[j] \in Nat
    <3> HIDE DEF rank, at
    <3> QED
      BY <1>2, <1>3
  <2>5. rank[i] <= rank[j] /\ rank[i] # rank[j]
    <3>1. upto(i) # upto(j)
      BY <2>1
    <3> QED
      BY <2>3, <3>1
  <2> HIDE DEF rank
  <2> QED
    BY <2>4, <2>5
<1>5. rank \in Injection(at, 1..Cardinality(at))
  <2>1. rank \in [at -> 1..Cardinality(at)]
    BY <1>3
  <2>2. ASSUME NEW i \in at, NEW j \in at, rank[i] = rank[j]
        PROVE  i = j
    <3>1. i \in Nat /\ j \in Nat /\ rank[i] \in Nat /\ rank[j] \in Nat
      BY <1>2, <1>3
    <3>2. ~ (i < j) /\ ~ (j < i)
      BY <1>4, <2>2, <3>1
    <3> QED
      BY <3>1, <3>2
  <2> HIDE DEF rank
  <2> QED
    BY <2>1, <2>2 DEF Injection, IsInjective
<1>6. rank \in Surjection(at, 1..Cardinality(at))
  <2>1. IsFiniteSet(1..Cardinality(at)) /\ Cardinality(1..Cardinality(at)) = Cardinality(at)
    <3>1. PICK m \in Nat : m = Cardinality(at)
      BY <1>2
    <3>2. IsFiniteSet(1..m) /\ Cardinality(1..m) = (IF 1 > m THEN 0 ELSE m - 1 + 1)
      BY FS_Interval
    <3> QED
      BY <3>1, <3>2
  <2> HIDE DEF rank, at
  <2> QED
    BY <1>5, <2>1, FS_Injection
<1>7. ASSUME NEW n \in 1..Cardinality(at)
      PROVE  nth(n) \in at /\ rank[nth(n)] = n
  <2>1. \E i \in at : rank[i] = n
    BY <1>6 DEF Surjection
  <2>2. \E i \in at : Cardinality(upto(i)) = n
    BY <2>1
  <2>3. nth(n) \in at /\ Cardinality(upto(nth(n))) = n
    BY <2>2
  <2> QED
    BY <2>3
<1>8. PICK r : r = InOrder(order, picked)
  OBVIOUS
<1>9. r = [n \in 1..Cardinality(at) |-> order[nth(n)]]
  BY <1>8 DEF InOrder
<1>10. ASSUME NEW i \in at
       PROVE  rank[i] \in 1..Cardinality(at) /\ nth(rank[i]) = i
  <2>1. rank[i] \in 1..Cardinality(at)
    BY <1>3
  <2>2. nth(rank[i]) \in at /\ rank[nth(rank[i])] = rank[i]
    BY <1>7, <2>1
  <2> HIDE DEF nth, rank
  <2> QED
    BY <1>5, <2>1, <2>2 DEF Injection, IsInjective
<1> HIDE DEF nth, rank
<1>11. \A n \in DOMAIN r : r[n] \in picked \cap ToSet(order)
  <2>1. \A n \in DOMAIN r : nth(n) \in DOMAIN order /\ order[nth(n)] \in picked
    BY <1>7, <1>9
  <2> QED
    BY <1>9, <2>1 DEF ToSet
<1>12. ASSUME NEW c \in picked \cap ToSet(order)
       PROVE  \E n \in DOMAIN r : r[n] = c
  <2>1. PICK i \in DOMAIN order : order[i] = c
    BY DEF ToSet
  <2>2. i \in at
    BY <2>1
  <2> QED
    BY <1>9, <1>10, <2>1, <2>2
<1>13. ASSUME NEW m \in DOMAIN r, NEW n \in DOMAIN r, r[m] = r[n]
       PROVE  m = n
  <2>1. nth(m) \in at /\ nth(n) \in at /\ rank[nth(m)] = m /\ rank[nth(n)] = n
    BY <1>7, <1>9
  <2>2. nth(m) = nth(n)
    BY <1>9, <1>13, <2>1 DEF Visits
  <2> QED
    BY <2>1, <2>2
<1>14. r \in Seq(picked \cap ToSet(order))
  <2>1. Cardinality(at) \in Nat
    BY <1>2
  <2>2. r = [n \in 1..Cardinality(at) |-> r[n]]
    BY <1>9
  <2> HIDE DEF at
  <2> QED
    BY <1>11, <2>1, <2>2
<1> QED
  BY <1>8, <1>11, <1>12, <1>13, <1>14 DEF Picks, Visits, Row

(***************************************************************************)
(* Estimates are integers, and the minimum over Count-Min counters grows   *)
(* with them.                                                              *)
(***************************************************************************)
LEMMA AtRankInt ==
  ASSUME NEW S, IsFiniteSet(S), S # {}, NEW told \in [S -> Int],
         NEW n \in Int, n <= Cardinality(S)
  PROVE  AtRank(told, n) \in Int
<1>1. PICK down : down = [x \in S |-> -told[x]]
  OBVIOUS
<1>2. down \in [S -> Int]
  BY <1>1
<1>3. PICK e \in S : \A x \in S : down[e] <= down[x]
  BY <1>2, LeastMember
<1>4. \A x \in S : told[x] <= told[e]
  BY <1>1, <1>3
<1>5. {c \in DOMAIN told : told[c] <= told[e]} = S
  BY <1>4
<1>6. PICK V : V = {v \in Range(told) : n <= Cardinality({c \in DOMAIN told : told[c] <= v})}
  OBVIOUS
<1>7. told[e] \in V
  BY <1>5, <1>6 DEF Range
<1>8. V \in SUBSET Int /\ V \in SUBSET Range(told)
  BY <1>6 DEF Range
<1>9. IsFiniteSet(V)
  <2>1. IsFiniteSet(Range(told))
    BY ImageFinite
  <2> QED
    BY <1>8, <2>1, FS_Subset
<1>10. Min(V) \in V
  BY <1>7, <1>8, <1>9, LeastOfSet
<1> QED
  BY <1>6, <1>8, <1>10 DEF AtRank

LEMMA CellsFinite == IsFiniteSet(Cells)
<1>1. CellOrder = [i \in 1..Len(CellOrder) |-> CellOrder[i]] /\ Len(CellOrder) \in Nat
  <2>1. CellOrder \in Seq(Nat \X Nat \X Nat)
    BY CellAssumption DEF CellAssumption
  <2> QED
    BY <2>1
<1>2. IsFiniteSet(1..Len(CellOrder))
  <2>1. PICK m \in Nat : m = Len(CellOrder)
    BY <1>1
  <2>2. IsFiniteSet(1..m)
    BY FS_Interval
  <2> QED
    BY <2>1, <2>2
<1>3. IsFiniteSet(Range(CellOrder))
  BY <1>1, <1>2, ImageFinite
<1> QED
  BY <1>3 DEF Cells, ToSet, Range

LEMMA BumpFacts ==
  ASSUME NEW p \in LinearPlans, NEW k \in Keys
  PROVE  /\ Bump[p][k] \in [Cells -> {-1, 0, 1}]
         /\ p \in {"CmTopK", "Dd"} => Bump[p][k] \in [Cells -> {0, 1}]
<1>1. DOMAIN Register = Keys
  BY PlansAssumption DEF PlansAssumption
<1>2. Bump[p][k] = [c \in Cells |-> Bump[p][k][c]]
  BY <1>1, CellAssumption DEF CellAssumption
<1>3. \A c \in Cells : Bump[p][k][c] \in IF p \in {"CmTopK", "Dd"} THEN {0, 1} ELSE {-1, 0, 1}
  BY <1>1, CellAssumption DEF CellAssumption
<1>4. \A c \in Cells : Bump[p][k][c] \in {-1, 0, 1}
  BY <1>3
<1> QED
  BY <1>2, <1>3, <1>4

LEMMA TouchedFacts ==
  ASSUME NEW p, NEW k, NEW layer
  PROVE  IsFiniteSet(Touched(p, k, layer)) /\ Touched(p, k, layer) \subseteq Cells
<1>1. Touched(p, k, layer) \in SUBSET Cells
  BY DEF Touched
<1> QED
  BY <1>1, CellsFinite, FS_Subset

LEMMA LeastOfFacts ==
  ASSUME NEW p, NEW k, Touched(p, k, 0) # {}, NEW cells \in CellArray
  PROVE  /\ LeastOf(p, cells, k) \in Int
         /\ \A c \in Touched(p, k, 0) : LeastOf(p, cells, k) <= cells[c]
         /\ \E c \in Touched(p, k, 0) : LeastOf(p, cells, k) = cells[c]
<1>1. PICK T : T = Touched(p, k, 0)
  OBVIOUS
<1>2. IsFiniteSet(T) /\ T \subseteq Cells /\ T # {}
  BY <1>1, TouchedFacts
<1>3. PICK f : f = [c \in T |-> cells[c]]
  OBVIOUS
<1>4. DOMAIN f = T /\ f = [c \in T |-> f[c]]
  BY <1>3
<1>5. IsFiniteSet(Range(f))
  BY <1>2, <1>4, ImageFinite
<1>6. PICK V : V = {cells[c] : c \in T}
  OBVIOUS
<1>7. V = Range(f)
  BY <1>3, <1>6 DEF Range
<1>8. V \in SUBSET Int /\ V # {}
  BY <1>2, <1>6 DEF CellArray
<1>9. Min(V) \in V /\ \A v \in V : Min(V) <= v
  BY <1>5, <1>7, <1>8, LeastOfSet
<1>10. LeastOf(p, cells, k) = Min(V)
  BY <1>1, <1>6 DEF LeastOf
<1> QED
  BY <1>1, <1>6, <1>8, <1>9, <1>10

LEMMA MedianInt ==
  ASSUME NEW p \in LinearPlans, NEW k \in Keys, NEW layer, Touched(p, k, layer) # {},
         NEW cells \in CellArray
  PROVE  MedianOf(p, cells, k, layer) \in Int
<1>1. PICK T : T = Touched(p, k, layer)
  OBVIOUS
<1>2. IsFiniteSet(T) /\ T \subseteq Cells /\ T # {}
  BY <1>1, TouchedFacts
<1>3. PICK n \in Nat : n = Cardinality(T) /\ n # 0
  BY <1>2, FS_CardinalityType, FS_EmptySet
<1>4. PICK told : told = [c \in T |-> Bump[p][k][c] * cells[c]]
  OBVIOUS
<1>5. told \in [T -> Int]
  <2>1. \A c \in T : Bump[p][k][c] \in {-1, 0, 1} /\ cells[c] \in Int
    BY <1>2, BumpFacts DEF CellArray
  <2>2. \A c \in T : Bump[p][k][c] * cells[c] \in Int
    BY <2>1
  <2> QED
    BY <1>4, <2>2
<1>6. \A m \in Int : m <= n => AtRank(told, m) \in Int
  BY <1>2, <1>3, <1>5, AtRankInt
<1>7. MedianOf(p, cells, k, layer)
        = IF n % 2 = 1 THEN AtRank(told, (n + 1) \div 2)
          ELSE CutToZero(AtRank(told, n \div 2) + AtRank(told, n \div 2 + 1))
  BY <1>1, <1>3, <1>4 DEF MedianOf
<1>8. ASSUME NEW m \in Int
      PROVE  CutToZero(m) \in Int
  <2>1. m \div 2 \in Int /\ -m \in Int
    OBVIOUS
  <2>2. PICK h \in Int : h = (-m) \div 2
    BY <2>1
  <2> QED
    BY <2>1, <2>2 DEF CutToZero
<1>9. n % 2 \in {0, 1} /\ n \div 2 \in Nat /\ n = 2 * (n \div 2) + (n % 2)
  BY <1>3
<1>10. CASE n % 2 = 1
  <2>1. (n + 1) \div 2 \in Int /\ (n + 1) \div 2 <= n
    BY <1>3, <1>9, <1>10
  <2> QED
    BY <1>6, <1>7, <1>10, <2>1
<1>11. CASE n % 2 # 1
  <2>1. n \div 2 \in Int /\ n \div 2 <= n /\ n \div 2 + 1 \in Int /\ n \div 2 + 1 <= n
    BY <1>3, <1>9, <1>11
  <2>2. PICK x \in Int, y \in Int :
          x = AtRank(told, n \div 2) /\ y = AtRank(told, n \div 2 + 1)
    BY <1>6, <2>1
  <2> QED
    BY <1>7, <1>8, <1>11, <2>2
<1> QED
  BY <1>10, <1>11

(***************************************************************************)
(* The powers of two.                                                      *)
(***************************************************************************)
LEMMA PowerFacts ==
  /\ PowerOfTwo \in [Nat -> Nat \ {0}]
  /\ PowerOfTwo[0] = 1
  /\ \A n \in Nat : PowerOfTwo[n + 1] = 2 * PowerOfTwo[n]
<1>1. PICK f : f = [n \in Nat |-> CHOOSE g : Doubles(g, n)]
  OBVIOUS
<1>2. \A n \in Nat : Doubles(f[n], n)
  BY <1>1, DoublesExist
<1>3. PICK p : p = [n \in Nat |-> f[n][n]]
  OBVIOUS
<1>4. ASSUME NEW n \in Nat
      PROVE  p[n] \in Nat \ {0} /\ p[n] = IF n = 0 THEN 1 ELSE 2 * p[n - 1]
  <2>1. Doubles(f[n], n) /\ n \in 0..n
    BY <1>2
  <2>2. p[n] = f[n][n] /\ p[n] \in Nat \ {0}
    BY <1>3, <2>1 DEF Doubles
  <2>3. CASE n = 0
    BY <2>1, <2>2, <2>3 DEF Doubles
  <2>4. CASE n # 0
    <3>1. n - 1 \in Nat /\ n - 1 <= n /\ n \in 1..n /\ n - 1 \in 0..(n - 1)
      BY <2>4
    <3>2. Doubles(f[n - 1], n - 1) /\ p[n - 1] = f[n - 1][n - 1]
      BY <1>2, <1>3, <3>1
    <3>3. f[n - 1][n - 1] = f[n][n - 1]
      BY <2>1, <3>1, <3>2, DoublesAgree
    <3>4. f[n][n] = 2 * f[n][n - 1]
      BY <2>1, <3>1 DEF Doubles
    <3> QED
      BY <2>2, <2>4, <3>2, <3>3, <3>4
  <2> QED
    BY <2>3, <2>4
<1>5. p = [n \in Nat |-> IF n = 0 THEN 1 ELSE 2 * p[n - 1]]
  BY <1>3, <1>4
<1>6. PowerOfTwo = [n \in Nat |-> IF n = 0 THEN 1 ELSE 2 * PowerOfTwo[n - 1]]
  BY <1>5 DEF PowerOfTwo
<1>7. PICK q : q = PowerOfTwo
  OBVIOUS
<1>8. \A n \in Nat : q[n] = IF n = 0 THEN 1 ELSE 2 * q[n - 1]
  BY <1>6, <1>7
<1>9. {n \in Nat : q[n] # p[n]} = {}
  <2> DEFINE Bad == {n \in Nat : q[n] # p[n]}
  <2>1. SUFFICES ASSUME Bad # {}
                 PROVE  FALSE
    OBVIOUS
  <2>2. PICK n \in Bad : \A m \in Bad : n <= m
    BY <2>1, LeastNumber
  <2>3. n \in Nat /\ n # 0 /\ n - 1 \in Nat /\ ~ (n <= n - 1)
    BY <1>4, <1>8, <2>2
  <2>4. q[n - 1] = p[n - 1]
    BY <2>2, <2>3
  <2> QED
    BY <1>4, <1>8, <2>2, <2>3, <2>4
<1>10. \A n \in Nat : q[n] \in Nat \ {0}
  BY <1>4, <1>9
<1>11. q = [n \in Nat |-> q[n]]
  BY <1>6, <1>7
<1>12. q \in [Nat -> Nat \ {0}]
  BY <1>10, <1>11
<1>13. ASSUME NEW n \in Nat
       PROVE  q[n + 1] = 2 * q[n]
  <2>1. n + 1 \in Nat /\ n + 1 # 0 /\ (n + 1) - 1 = n
    OBVIOUS
  <2> QED
    BY <1>8, <2>1
<1> QED
  BY <1>7, <1>8, <1>12, <1>13

(***************************************************************************)
(* What an insert and a flush do to an array of counters.                  *)
(***************************************************************************)
LEMMA ToSetFacts ==
  ASSUME NEW order, Row(order)
  PROVE  order \in Seq(ToSet(order))
<1>1. PICK S : order \in Seq(S)
  BY DEF Row
<1>2. order = [i \in 1..Len(order) |-> order[i]] /\ Len(order) \in Nat
  BY <1>1
<1>3. \A i \in 1..Len(order) : order[i] \in ToSet(order)
  BY <1>2 DEF ToSet
<1> QED
  BY <1>2, <1>3

LEMMA DueFacts ==
  ASSUME NEW C, NEW cells \in [C -> Int], NEW bump \in [C -> Int], NEW taus
  PROVE  /\ Due(cells, bump, taus) \subseteq C
         /\ Bumped(cells, bump) \in [C -> Int]
         /\ Held(cells, bump, taus) \in [C -> Int]
         /\ \A c \in C : /\ Bumped(cells, bump)[c] = cells[c] + bump[c]
                         /\ Held(cells, bump, taus)[c]
                              = IF c \in Due(cells, bump, taus) THEN 0 ELSE cells[c] + bump[c]
<1>1. \A c \in C : cells[c] + bump[c] \in Int
  OBVIOUS
<1> QED
  BY <1>1 DEF Due, Bumped, Held

Posts(order, picked, cells, posts) ==
  /\ Row(posts)
  /\ \A n \in DOMAIN posts : /\ posts[n].cell \in picked
                             /\ posts[n].value = cells[posts[n].cell]
  /\ \A c \in picked : \E n \in DOMAIN posts : posts[n].cell = c
  /\ \A m, n \in DOMAIN posts : posts[m].cell = posts[n].cell => m = n

LEMMA ParcelsPost ==
  ASSUME NEW order, Row(order), Visits(order), NEW picked, picked \subseteq ToSet(order), NEW cells
  PROVE  /\ Posts(order, picked, cells, Parcels(order, picked, cells))
         /\ \A n \in DOMAIN Parcels(order, picked, cells) :
              Parcels(order, picked, cells)[n]
                = [cell |-> Parcels(order, picked, cells)[n].cell,
                   value |-> Parcels(order, picked, cells)[n].value]
<1>1. PICK cs : cs = InOrder(order, picked)
  OBVIOUS
<1>2. /\ Row(cs)
      /\ \A n \in DOMAIN cs : cs[n] \in picked
      /\ \A c \in picked : \E n \in DOMAIN cs : cs[n] = c
      /\ Visits(cs)
  <2>1. Picks(order, picked, cs)
    BY <1>1, InOrderFacts
  <2>2. picked \cap ToSet(order) = picked
    OBVIOUS
  <2> QED
    BY <2>1, <2>2 DEF Picks
<1>3. PICK ps : ps = Parcels(order, picked, cells)
  OBVIOUS
<1>4. ps = [i \in DOMAIN cs |-> [cell |-> cs[i], value |-> cells[cs[i]]]]
  BY <1>1, <1>3 DEF Parcels
<1>5. DOMAIN cs = 1..Len(cs) /\ Len(cs) \in Nat
  BY <1>2 DEF Row
<1>6. \A n \in DOMAIN cs : ps[n].cell = cs[n] /\ ps[n].value = cells[cs[n]]
  BY <1>4
<1>7. Row(ps)
  <2>1. ps \in Seq({ps[n] : n \in DOMAIN cs})
    BY <1>4, <1>5
  <2> QED
    BY <2>1 DEF Row
<1>8. DOMAIN ps = DOMAIN cs
  BY <1>4
<1>9. Posts(order, picked, cells, ps)
  BY <1>2, <1>6, <1>7, <1>8 DEF Posts, Visits
<1>10. \A n \in DOMAIN ps : ps[n] = [cell |-> ps[n].cell, value |-> ps[n].value]
  BY <1>4
<1> QED
  BY <1>3, <1>9, <1>10

LEMMA KeyedPost ==
  ASSUME NEW order, NEW picked, NEW cells, NEW posts, Posts(order, picked, cells, posts),
         NEW k, NEW weight
  PROVE  /\ Posts(order, picked, cells, Keyed(posts, k, weight))
         /\ DOMAIN Keyed(posts, k, weight) = DOMAIN posts
         /\ \A n \in DOMAIN posts :
              /\ Keyed(posts, k, weight)[n]
                   = [kind |-> "cell", cell |-> posts[n].cell, value |-> posts[n].value,
                      key |-> k, weight |-> weight]
              /\ Keyed(posts, k, weight)[n].key = k
              /\ Keyed(posts, k, weight)[n].weight = weight
<1>1. PICK ks : ks = Keyed(posts, k, weight)
  OBVIOUS
<1>2. ks = [i \in DOMAIN posts |->
              [kind |-> "cell", cell |-> posts[i].cell, value |-> posts[i].value,
               key |-> k, weight |-> weight]]
  BY <1>1 DEF Keyed
<1>3. DOMAIN posts = 1..Len(posts) /\ Len(posts) \in Nat
  BY DEF Posts, Row
<1>4. Row(ks)
  <2>1. ks \in Seq({ks[n] : n \in DOMAIN posts})
    BY <1>2, <1>3
  <2> QED
    BY <2>1 DEF Row
<1>5. \A n \in DOMAIN posts : ks[n].cell = posts[n].cell /\ ks[n].value = posts[n].value
                               /\ ks[n].key = k /\ ks[n].weight = weight
  BY <1>2
<1>6. DOMAIN ks = DOMAIN posts
  BY <1>2
<1>7. Posts(order, picked, cells, ks)
  BY <1>4, <1>5, <1>6 DEF Posts
<1> QED
  BY <1>1, <1>2, <1>5, <1>6, <1>7

LEMMA CellFacts ==
  /\ Row(CellOrder) /\ Visits(CellOrder) /\ ToSet(CellOrder) = Cells
  /\ \A c \in Cells : c[1] \in Nat
<1>1. CellOrder \in Seq(Nat \X Nat \X Nat) /\ Visits(CellOrder)
  BY CellAssumption DEF CellAssumption
<1>2. \A c \in Cells : c \in Nat \X Nat \X Nat
  BY <1>1 DEF Cells, ToSet
<1> QED
  BY <1>1, <1>2 DEF Row, Cells

LEMMA LayerTauFacts ==
  ASSUME NEW p, NEW t \in Nat \ {0}, NEW layer \in Nat
  PROVE  LayerTau(p, t, layer) \in Nat \ {0}
<1>1. CASE p = "UnivMon"
  <2>1. PICK n \in Nat \ {0} : n = PowerOfTwo[layer]
    BY PowerFacts
  <2>2. PICK x \in Nat : x = t \div n
    OBVIOUS
  <2>3. Max({x, 1}) \in {x, 1} /\ Max({x, 1}) >= 1
    <3>1. \E y \in {x, 1} : \A z \in {x, 1} : y >= z
      BY <2>2
    <3> QED
      BY <3>1 DEF Max
  <2> QED
    BY <1>1, <2>1, <2>2, <2>3 DEF LayerTau
<1>2. CASE p # "UnivMon"
  BY <1>2 DEF LayerTau
<1> QED
  BY <1>1, <1>2

LEMMA CellInsertFacts ==
  ASSUME NEW p \in LinearPlans, NEW k \in Keys, NEW cells \in CellArray, NEW t,
         NEW weight \in Nat
  PROVE  LET r    == CellInsert(p, cells, k, t, weight)
             due  == Due(cells, Bump[p][k], Taus(p, t))
         IN  /\ r.held = Held(cells, Bump[p][k], Taus(p, t))
             /\ r.held \in CellArray
             /\ r.out \in Seq(CellDeltas)
             /\ Posts(CellOrder, due, Bumped(cells, Bump[p][k]), r.out)
             /\ \A n \in DOMAIN r.out : r.out[n].key = k /\ r.out[n].weight = weight
<1>1. PICK bump : bump = Bump[p][k]
  OBVIOUS
<1>2. PICK taus : taus = Taus(p, t)
  OBVIOUS
<1>3. PICK r : r = CellInsert(p, cells, k, t, weight)
  OBVIOUS
<1>4. PICK due : due = Due(cells, bump, taus)
  OBVIOUS
<1>5. PICK moved : moved = Bumped(cells, bump)
  OBVIOUS
<1>6. bump \in [Cells -> Int]
  BY <1>1, BumpFacts
<1>7. due \subseteq Cells /\ moved \in [Cells -> Int] /\ Held(cells, bump, taus) \in [Cells -> Int]
  BY <1>4, <1>5, <1>6, DueFacts DEF CellArray
<1>8. PICK ps : ps = Parcels(CellOrder, due, moved)
  OBVIOUS
<1>9. Posts(CellOrder, due, moved, ps)
  BY <1>7, <1>8, CellFacts, ParcelsPost
<1>10. PICK ks : ks = Keyed(ps, k, weight)
  OBVIOUS
<1>11. /\ Posts(CellOrder, due, moved, ks)
       /\ DOMAIN ks = DOMAIN ps
       /\ \A n \in DOMAIN ps :
            /\ ks[n] = [kind |-> "cell", cell |-> ps[n].cell, value |-> ps[n].value,
                        key |-> k, weight |-> weight]
            /\ ks[n].key = k
            /\ ks[n].weight = weight
  BY <1>9, <1>10, KeyedPost
<1>12. r.held = Held(cells, bump, taus) /\ r.out = ks
  BY <1>1, <1>2, <1>3, <1>4, <1>5, <1>8, <1>10 DEF CellInsert, Shipped
<1>13. ks \in Seq(CellDeltas)
  <2>1. \A n \in DOMAIN ps : ps[n].cell \in Cells /\ ps[n].value \in Int
    BY <1>7, <1>9 DEF Posts
  <2>2. \A n \in DOMAIN ks : ks[n] \in CellDeltas
    BY <1>11, <2>1 DEF CellDeltas
  <2>3. Row(ks)
    BY <1>11 DEF Posts
  <2> QED
    BY <2>2, <2>3 DEF Row
<1> QED
  BY <1>1, <1>2, <1>3, <1>4, <1>5, <1>7, <1>11, <1>12, <1>13 DEF CellArray

LEMMA CellFlushFacts ==
  ASSUME NEW p, FlushesCells(p), NEW cells \in CellArray
  PROVE  LET r == CellFlush(p, cells, Nobody)
         IN  /\ r.held = [c \in Cells |-> 0]
             /\ r.out \in Seq(CellDeltas)
             /\ Posts(CellOrder, NonZero(cells), cells, r.out)
             /\ \A n \in DOMAIN r.out : r.out[n].key = Nobody
<1>1. PICK r : r = CellFlush(p, cells, Nobody)
  OBVIOUS
<1>2. PICK due : due = NonZero(cells)
  OBVIOUS
<1>3. due \subseteq Cells
  BY <1>2 DEF NonZero, CellArray
<1>4. PICK ps : ps = Parcels(CellOrder, due, cells)
  OBVIOUS
<1>5. Posts(CellOrder, due, cells, ps)
  BY <1>3, <1>4, CellFacts, ParcelsPost
<1>6. PICK ks : ks = Keyed(ps, Nobody, 0)
  OBVIOUS
<1>7. /\ Posts(CellOrder, due, cells, ks)
      /\ DOMAIN ks = DOMAIN ps
      /\ \A n \in DOMAIN ps :
           /\ ks[n] = [kind |-> "cell", cell |-> ps[n].cell, value |-> ps[n].value,
                       key |-> Nobody, weight |-> 0]
           /\ ks[n].key = Nobody
  BY <1>5, <1>6, KeyedPost
<1>8. r.held = [c \in Cells |-> 0] /\ r.out = ks
  BY <1>1, <1>2, <1>4, <1>6 DEF CellFlush, Residue, Emptied, CellArray
<1>9. ks \in Seq(CellDeltas)
  <2>1. \A n \in DOMAIN ps : ps[n].cell \in Cells /\ ps[n].value \in Int
    BY <1>3, <1>5 DEF Posts, CellArray
  <2>2. \A n \in DOMAIN ks : ks[n] \in CellDeltas
    BY <1>7, <2>1 DEF CellDeltas
  <2>3. Row(ks)
    BY <1>7 DEF Posts
  <2> QED
    BY <2>2, <2>3 DEF Row
<1> QED
  BY <1>1, <1>2, <1>7, <1>8, <1>9

(***************************************************************************)
(* What an update and a sift do to the keys in the heap.                   *)
(***************************************************************************)
LEMMA RootLeast ==
  ASSUME HeapInv, Resting
  PROVE  \A i \in Places : heap[1].count <= heap[i].count
<1> DEFINE Bad == {i \in Places : ~ (heap[1].count <= heap[i].count)}
<1>1. SUFFICES ASSUME Bad # {}
               PROVE  FALSE
  OBVIOUS
<1>2. /\ Places \in SUBSET Nat /\ Places = 1..Len(heap) /\ Len(heap) \in Nat
      /\ \A i \in Places : heap[i].count \in Int
      /\ \A p, c \in Places : Child(p, c) => heap[p].count <= heap[c].count
  BY RestingFacts, PlaceFacts DEF HeapInv, Index, Shapes
<1>3. PICK i \in Bad : \A j \in Bad : i <= j
  <2>1. Bad \in SUBSET Nat
    BY <1>2
  <2> HIDE DEF Bad
  <2> QED
    BY <1>1, <2>1, LeastNumber
<1>4. i \in Nat /\ i \in 1..Len(heap) /\ i # 1
  BY <1>2, <1>3
<1>5. PICK p \in Nat : p = i \div 2
  BY <1>4
<1>6. Child(p, i) /\ p >= 1 /\ p < i
  <2>1. i = 2 * (i \div 2) + (i % 2) /\ i % 2 \in {0, 1}
    BY <1>4
  <2> QED
    BY <1>4, <1>5, <2>1 DEF Child
<1>7. p \in Places
  BY <1>2, <1>4, <1>6
<1>8. p \notin Bad
  BY <1>3, <1>4, <1>5, <1>6
<1>9. heap[1].count <= heap[p].count /\ heap[p].count <= heap[i].count
  BY <1>2, <1>3, <1>6, <1>7, <1>8
<1>10. 1 \in Places
  BY <1>2, <1>4
<1> QED
  BY <1>2, <1>3, <1>7, <1>9, <1>10

LEMMA ResidentsFound ==
  ASSUME HeapInv, NEW k \in Keys
  PROVE  /\ Matches(k) # {} <=> k \in ResidentsOf(heap)
         /\ Matches(k) = {i \in Places : heap[i].key = k}
         /\ DOMAIN heap = Places
<1>1. Matches(k) = {i \in Places : heap[i].key = k}
  BY MatchesFound DEF HeapInv
<1>2. DOMAIN heap = Places
  BY DEF HeapInv, Index, Shapes, Places
<1> QED
  BY <1>1, <1>2 DEF ResidentsOf

\* One entry is replaced, or added at the end, or none.
Put(h, i, e, h2) == i \in DOMAIN h /\ h2 = [h EXCEPT ![i] = e]

Rescored(h, k, n, h2) == \E i \in DOMAIN h : h[i].key = k /\ Put(h, i, Entry(k, n), h2)
Seated(h, k, n, h2) ==
  /\ k \notin ResidentsOf(h)
  /\ Len(h) < K
  /\ h2 = h \o <<Entry(k, n)>>
TookRoot(h, k, n, h2) ==
  /\ k \notin ResidentsOf(h)
  /\ Len(h) >= K
  /\ 1 \in DOMAIN h
  /\ n > h[1].count
  /\ Put(h, 1, Entry(k, n), h2)
Refused(h, k, n, h2) ==
  /\ k \notin ResidentsOf(h)
  /\ Len(h) >= K
  /\ 1 \in DOMAIN h => n <= h[1].count
  /\ h2 = h

Updated(h, k, n, h2) ==
  Rescored(h, k, n, h2) \/ Seated(h, k, n, h2) \/ TookRoot(h, k, n, h2) \/ Refused(h, k, n, h2)

LEMMA UpdateIs ==
  ASSUME HeapInv, NEW k \in Keys, NEW n \in Int, Update(k, n)
  PROVE  Updated(heap, k, n, heap')
<1>1. /\ heap \in Seq(Entries) /\ Len(heap) \in Nat /\ DOMAIN heap = 1..Len(heap)
      /\ Len(heap) <= K
  BY DEF HeapInv, Index, Shapes
<1>2. /\ Matches(k) # {} <=> k \in ResidentsOf(heap)
      /\ Matches(k) = {i \in Places : heap[i].key = k}
      /\ DOMAIN heap = Places
  BY ResidentsFound
<1>3. CASE Rescore(k, n)
  <2>1. PICK i \in Places : heap[i].key = k /\ heap' = [heap EXCEPT ![i] = Entry(k, n)]
    BY <1>2, <1>3 DEF Rescore
  <2>2. Put(heap, i, Entry(k, n), heap')
    BY <1>1, <1>2, <2>1 DEF Put
  <2> QED
    BY <1>2, <2>1, <2>2 DEF Updated, Rescored
<1>4. CASE SeatLast(k, n)
  BY <1>2, <1>4 DEF SeatLast, Updated, Seated
<1>5. CASE SeatAtRoot(k, n)
  <2>1. /\ Matches(k) = {} /\ Len(heap) >= K /\ K > 0 /\ n > heap[1].count
        /\ heap' = [heap EXCEPT ![1] = Entry(k, n)]
    BY <1>5 DEF SeatAtRoot, Accepts
  <2>2. 1 \in DOMAIN heap
    BY <1>1, <2>1, HeapAssumption DEF HeapAssumption
  <2>3. Put(heap, 1, Entry(k, n), heap')
    BY <1>1, <2>1, <2>2 DEF Put
  <2> QED
    BY <1>2, <2>1, <2>2, <2>3 DEF Updated, TookRoot
<1>6. CASE TurnAway(k, n)
  <2>1. Matches(k) = {} /\ Len(heap) >= K /\ ~ Accepts(n) /\ heap' = heap
    BY <1>6 DEF TurnAway, heapVars
  <2>2. ASSUME 1 \in DOMAIN heap
        PROVE  n <= heap[1].count
    <3>1. K > 0
      BY <1>1, <2>2, HeapAssumption DEF HeapAssumption
    <3>2. heap[1].count \in Int
      <4>1. \A e \in Entries : e.count \in Int
        BY DEF Entries
      <4> QED
        BY <1>1, <2>2, <4>1
    <3> QED
      BY <2>1, <3>1, <3>2 DEF Accepts
  <2> QED
    BY <1>2, <2>1, <2>2 DEF Updated, Refused
<1> QED
  BY <1>3, <1>4, <1>5, <1>6 DEF Update

LEMMA UpdateKeeps ==
  ASSUME HeapInv, NEW k \in Keys, NEW n \in Int, Update(k, n)
  PROVE  HeapInv'
BY HeapStepInv DEF HeapNext

\* The same entries at other places.
Shuffled(h, h2) ==
  /\ DOMAIN h2 = DOMAIN h /\ Len(h2) = Len(h)
  /\ \A i \in DOMAIN h : (\E j \in DOMAIN h : h2[i] = h[j]) /\ (\E j \in DOMAIN h : h[i] = h2[j])

LEMMA SwapShuffles ==
  ASSUME HeapInv, NEW i \in Places, NEW j \in Places, i # j, SwapEntries(i, j)
  PROVE  Shuffled(heap, heap')
<1>1. Index
  BY DEF HeapInv
<1>2. /\ Index'
      /\ Len(heap') = Len(heap)
      /\ heap'[i] = heap[j]
      /\ heap'[j] = heap[i]
      /\ \A x \in Places \ {i, j} : heap'[x] = heap[x]
  BY <1>1, SwapKeepsIndex
<1>3. DOMAIN heap = Places /\ DOMAIN heap' = Places
  BY <1>1, <1>2 DEF Index, Shapes, Places
<1> QED
  BY <1>2, <1>3 DEF Shuffled

LEMMA SiftShuffles ==
  ASSUME HeapInv, Sift
  PROVE  HeapInv' /\ Shuffled(heap, heap')
<1>1. HeapInv'
  BY HeapStepInv DEF HeapNext
<1>2. Shuffled(heap, heap) /\ (sift.way # "rest" => sift.at \in Places)
  BY DEF Shuffled, HeapInv, Sifting, Resting, Rest
<1>3. \A p, c \in Places : Child(p, c) => p # c
  BY PlaceFacts, ChildFacts DEF HeapInv, Index, Shapes
<1>4. CASE SiftDown
  <2>1. sift.at \in Places
    BY <1>2, <1>4 DEF SiftDown
  <2>2. PICK c \in Places : Child(sift.at, c) /\ SwapEntries(sift.at, c)
    BY <1>4 DEF SiftDown, Chosen
  <2> QED
    BY <1>1, <1>3, <2>1, <2>2, SwapShuffles
<1>5. CASE SiftUp
  <2>1. sift.at \in Places
    BY <1>2, <1>5 DEF SiftUp
  <2>2. PICK p \in Places : Child(p, sift.at) /\ SwapEntries(p, sift.at)
    BY <1>5 DEF SiftUp
  <2> QED
    BY <1>1, <1>3, <2>1, <2>2, SwapShuffles
<1>6. CASE SiftDownEnds \/ SiftUpEnds
  <2>1. heap' = heap
    BY <1>6 DEF SiftDownEnds, SiftUpEnds
  <2> QED
    BY <1>1, <1>2, <2>1
<1> QED
  BY <1>4, <1>5, <1>6 DEF Sift

(***************************************************************************)
(* Which keys a Count-Min heap keeps.  A key that was offered and is not   *)
(* resident has as many above it as the heap has places; in a merge some   *)
(* of these are still to be offered, all but the last of the pending keys  *)
(* (which came with the other sketch) among them.                          *)
(***************************************************************************)
Offers1(q, k, q2) ==
  \/ q = <<>> /\ q2 = <<>>
  \/ q # <<>> /\ k = Head(q) /\ q2 = Tail(q)

LEMMA FrontFacts ==
  ASSUME NEW q \in Seq(Keys)
  PROVE  IsFiniteSet(FrontOf(q)) /\ FrontOf(q) \subseteq ToSet(q) /\ ToSet(q) \subseteq Keys
<1>1. ToSet(q) = {q[i] : i \in 1..Len(q)} /\ Len(q) \in Nat
  BY DEF ToSet
<1>2. FrontOf(q) \subseteq ToSet(q)
  BY <1>1 DEF FrontOf
<1>3. ToSet(q) \subseteq Keys
  BY <1>1
<1>4. IsFiniteSet(Keys)
  BY PlansAssumption DEF PlansAssumption
<1>5. FrontOf(q) \in SUBSET Keys
  BY <1>2, <1>3
<1> QED
  BY <1>2, <1>3, <1>4, <1>5, FS_Subset

LEMMA OffersFacts ==
  ASSUME NEW q \in Seq(Keys), NEW k, NEW q2, Offers1(q, k, q2)
  PROVE  /\ q2 \in Seq(Keys)
         /\ ToSet(q) \subseteq {k} \cup ToSet(q2)
         /\ FrontOf(q) \subseteq {k} \cup FrontOf(q2)
         /\ FrontOf(q2) \subseteq FrontOf(q)
         /\ Len(q) >= 2 => k \in FrontOf(q)
         /\ Len(q) <= 1 => q2 = <<>> /\ FrontOf(q) = {}
         /\ Len(q) \in Nat
<1>1. CASE q = <<>> /\ q2 = <<>>
  <2>1. Len(q) = 0 /\ DOMAIN q = {} /\ q2 \in Seq(Keys)
    BY <1>1
  <2>2. ToSet(q) = {} /\ FrontOf(q) = {} /\ FrontOf(q2) = {}
    BY <1>1, <2>1 DEF ToSet, FrontOf
  <2> QED
    BY <1>1, <2>1, <2>2
<1>2. CASE q # <<>> /\ k = Head(q) /\ q2 = Tail(q)
  <2>1. /\ Len(q) \in Nat /\ Len(q) >= 1 /\ q2 \in Seq(Keys) /\ Len(q2) = Len(q) - 1 /\ k = q[1]
        /\ \A i \in 1..Len(q2) : q2[i] = q[i + 1]
        /\ DOMAIN q = 1..Len(q) /\ DOMAIN q2 = 1..Len(q2)
    BY <1>2
  <2>2. \A i \in 2..Len(q) : q[i] = q2[i - 1] /\ i - 1 \in 1..Len(q2)
    BY <2>1
  <2>3. ToSet(q) \subseteq {k} \cup ToSet(q2)
    <3> SUFFICES ASSUME NEW m \in 1..Len(q), m # 1
                 PROVE  q[m] \in ToSet(q2)
      BY <2>1 DEF ToSet
    <3>1. m - 1 \in DOMAIN q2 /\ q[m] = q2[m - 1]
      BY <2>1, <2>2
    <3> QED
      BY <3>1 DEF ToSet
  <2>4. FrontOf(q) \subseteq {k} \cup FrontOf(q2)
    <3> SUFFICES ASSUME NEW m \in 1..(Len(q) - 1), m # 1
                 PROVE  q[m] \in FrontOf(q2)
      BY <2>1 DEF FrontOf
    <3>1. m - 1 \in 1..(Len(q2) - 1) /\ q[m] = q2[m - 1]
      BY <2>1, <2>2
    <3> QED
      BY <3>1 DEF FrontOf
  <2>5. FrontOf(q2) \subseteq FrontOf(q)
    <3> SUFFICES ASSUME NEW m \in 1..(Len(q2) - 1)
                 PROVE  q2[m] \in FrontOf(q)
      BY DEF FrontOf
    <3>1. m + 1 \in 1..(Len(q) - 1) /\ q2[m] = q[m + 1]
      BY <2>1
    <3> QED
      BY <3>1 DEF FrontOf
  <2>6. Len(q) >= 2 => k \in FrontOf(q)
    BY <2>1 DEF FrontOf
  <2>7. ASSUME Len(q) <= 1
        PROVE  q2 = <<>> /\ FrontOf(q) = {}
    <3>1. Len(q) = 1 /\ Len(q2) = 0
      BY <2>1, <2>7
    <3>2. 1..(Len(q) - 1) = {}
      BY <3>1
    <3> QED
      BY <2>1, <3>1, <3>2 DEF FrontOf
  <2> QED
    BY <2>1, <2>3, <2>4, <2>5, <2>6, <2>7
<1> QED
  BY <1>1, <1>2 DEF Offers1

LEMMA ResidentsCount ==
  ASSUME NEW h \in Seq(Entries), Distinct(h)
  PROVE  /\ IsFiniteSet(ResidentsOf(h))
         /\ Cardinality(ResidentsOf(h)) = Len(h)
         /\ ResidentsOf(h) \subseteq Keys
<1>1. PICK n \in Nat : n = Len(h) /\ DOMAIN h = 1..n
  OBVIOUS
<1>2. PICK f : f = [i \in 1..n |-> h[i].key]
  OBVIOUS
<1>3. f \in Surjection(1..n, ResidentsOf(h))
  BY <1>1, <1>2 DEF Surjection, ResidentsOf
<1>4. f \in Injection(1..n, ResidentsOf(h))
  <2>1. \A i, j \in 1..n : f[i] = f[j] => i = j
    BY <1>1, <1>2 DEF Distinct
  <2>2. f \in [1..n -> ResidentsOf(h)] /\ DOMAIN f = 1..n
    BY <1>1, <1>2 DEF ResidentsOf
  <2> QED
    BY <2>1, <2>2 DEF Injection, IsInjective
<1>5. IsFiniteSet(1..n) /\ Cardinality(1..n) = n
  BY FS_Interval
<1>6. IsFiniteSet(ResidentsOf(h)) /\ Cardinality(ResidentsOf(h)) = n
  BY <1>3, <1>4, <1>5, FS_Surjection
<1>7. \A i \in 1..n : h[i] \in Entries
  BY <1>1
<1>8. \A i \in 1..n : h[i].key \in Keys
  BY <1>7 DEF Entries
<1> QED
  BY <1>1, <1>6, <1>8 DEF ResidentsOf

LEMMA EntryFacts ==
  ASSUME NEW h \in Seq(Entries)
  PROVE  /\ Len(h) \in Nat /\ DOMAIN h = 1..Len(h)
         /\ \A i \in DOMAIN h : h[i].key \in Keys /\ h[i].count \in Int
<1>1. Len(h) \in Nat /\ DOMAIN h = 1..Len(h)
  OBVIOUS
<1>2. \A i \in DOMAIN h : h[i] \in Entries
  BY <1>1
<1> QED
  BY <1>1, <1>2 DEF Entries

\* What is known of a heap before an update.
Ready(h) ==
  /\ h \in Seq(Entries)
  /\ Distinct(h)
  /\ Len(h) <= K
  /\ \A i \in DOMAIN h : h[1].count <= h[i].count

LEMMA HeapReady ==
  ASSUME HeapInv, Resting
  PROVE  Ready(heap)
<1>1. heap \in Seq(Entries) /\ KeysOnce /\ Len(heap) <= K /\ DOMAIN heap = Places
  BY DEF HeapInv, Index, Shapes, Places
<1>2. \A i \in Places : heap[1].count <= heap[i].count
  BY RootLeast
<1> QED
  BY <1>1, <1>2 DEF Ready, KeysOnce, Distinct

LEMMA PutFacts ==
  ASSUME NEW h \in Seq(Entries), NEW k \in Keys, NEW n \in Int, NEW i, NEW h2,
         Put(h, i, Entry(k, n), h2)
  PROVE  /\ h2 \in Seq(Entries)
         /\ ResidentsOf(h2) = {h[j].key : j \in DOMAIN h \ {i}} \cup {k}
         /\ DOMAIN h2 = DOMAIN h /\ Len(h2) = Len(h) /\ i \in DOMAIN h
         /\ h2[i].key = k /\ h2[i].count = n
         /\ \A j \in DOMAIN h : j # i => h2[j] = h[j]
<1>1. /\ DOMAIN h2 = DOMAIN h /\ Len(h2) = Len(h)
      /\ i \in DOMAIN h
      /\ h2[i].key = k /\ h2[i].count = n
      /\ \A j \in DOMAIN h : j # i => h2[j] = h[j]
  <2>1. i \in DOMAIN h /\ h2 = [h EXCEPT ![i] = Entry(k, n)] /\ DOMAIN h = 1..Len(h)
    BY DEF Put
  <2>2. h2[i] = Entry(k, n)
    BY <2>1
  <2>3. DOMAIN h2 = DOMAIN h /\ Len(h2) = Len(h)
    BY <2>1
  <2> QED
    BY <2>1, <2>2, <2>3 DEF Entry
<1>2. ResidentsOf(h2) = {h[j].key : j \in DOMAIN h \ {i}} \cup {k}
  BY <1>1 DEF ResidentsOf
<1>3. Entry(k, n) \in Entries
  BY DEF Entry, Entries
<1>4. h2 \in Seq(Entries)
  BY <1>3 DEF Put
<1> QED
  BY <1>1, <1>2, <1>4

LEMMA AppendFacts ==
  ASSUME NEW h \in Seq(Entries), NEW k \in Keys, NEW n \in Int
  PROVE  /\ h \o <<Entry(k, n)>> \in Seq(Entries)
         /\ Len(h \o <<Entry(k, n)>>) = Len(h) + 1
         /\ ResidentsOf(h \o <<Entry(k, n)>>) = ResidentsOf(h) \cup {k}
         /\ \A j \in DOMAIN (h \o <<Entry(k, n)>>) :
              \/ j \in DOMAIN h /\ (h \o <<Entry(k, n)>>)[j] = h[j]
              \/ j = Len(h) + 1 /\ (h \o <<Entry(k, n)>>)[j] = Entry(k, n)
<1>1. PICK e \in Entries : e = Entry(k, n)
  BY DEF Entry, Entries
<1>2. PICK h2 : h2 = h \o <<e>>
  OBVIOUS
<1>3. /\ h2 \in Seq(Entries) /\ Len(h2) = Len(h) + 1 /\ Len(h) \in Nat
      /\ DOMAIN h = 1..Len(h) /\ DOMAIN h2 = 1..(Len(h) + 1)
  BY <1>2
<1>4. (\A j \in 1..Len(h) : h2[j] = h[j]) /\ h2[Len(h) + 1] = e
  BY <1>2
<1>5. \A j \in DOMAIN h2 : \/ j \in DOMAIN h /\ h2[j] = h[j]
                           \/ j = Len(h) + 1 /\ h2[j] = e
  BY <1>3, <1>4
<1>6. \A j \in DOMAIN h : j \in DOMAIN h2 /\ h2[j] = h[j]
  BY <1>3, <1>4
<1>7. Len(h) + 1 \in DOMAIN h2
  BY <1>3
<1>8. ResidentsOf(h2) = ResidentsOf(h) \cup {k}
  <2>1. e.key = k
    BY <1>1 DEF Entry
  <2> QED
    BY <1>4, <1>5, <1>6, <1>7, <2>1 DEF ResidentsOf
<1> QED
  BY <1>1, <1>2, <1>3, <1>5, <1>8

\* Before the offer, with the counters it is made from.
Offering(h, off, q, cells) ==
  /\ Ready(h)
  /\ off \in [Keys -> Seq(Int)]
  /\ q \in Seq(Keys)
  /\ Heaviest(h, off, q, cells)
  /\ \A k \in Keys : ScoreOf(cells, k) \in Int

Offered(off, k, n) == [off EXCEPT ![k] = <<n>>]

LEMMA OfferBasics ==
  ASSUME NEW h, NEW off, NEW q, NEW cells, Offering(h, off, q, cells),
         NEW k \in Keys, NEW off2, off2 = Offered(off, k, ScoreOf(cells, k))
  PROVE  /\ h \in Seq(Entries) /\ Distinct(h) /\ Len(h) \in Nat /\ K \in Nat
         /\ DOMAIN h = 1..Len(h)
         /\ off2[k] = <<ScoreOf(cells, k)>> /\ off2[k] # <<>> /\ off2[k][1] = ScoreOf(cells, k)
         /\ \A x \in Keys : x # k => off2[x] = off[x]
         /\ \A x \in Keys : off[x] # <<>> => off[x][1] \in Int
         /\ Backed(off2, cells)
         /\ \A i \in DOMAIN h : /\ h[i].key \in Keys /\ h[i].count \in Int
                                /\ off[h[i].key] = <<h[i].count>>
                                /\ off[h[i].key][1] = h[i].count
                                /\ h[i].count <= ScoreOf(cells, h[i].key)
<1>1. h \in Seq(Entries) /\ Distinct(h) /\ off \in [Keys -> Seq(Int)]
  BY DEF Offering, Ready
<1>2. Len(h) \in Nat /\ K \in Nat /\ DOMAIN h = 1..Len(h)
  BY <1>1, HeapAssumption DEF HeapAssumption
<1>3. \A i \in DOMAIN h : h[i].key \in Keys /\ h[i].count \in Int
  BY <1>1, EntryFacts
<1>4. PICK n \in Int : n = ScoreOf(cells, k)
  BY DEF Offering
<1>5. /\ off2[k] = <<n>> /\ off2[k] # <<>> /\ off2[k][1] = n
      /\ \A x \in Keys : x # k => off2[x] = off[x]
  BY <1>1, <1>4 DEF Offered
<1>6. \A x \in Keys : off[x] # <<>> => off[x][1] \in Int
  BY <1>1
<1>7. Backed(off2, cells)
  BY <1>4, <1>5 DEF Backed, Offering, Heaviest
<1>8. \A i \in DOMAIN h : off[h[i].key] = <<h[i].count>>
  BY DEF Offering, Heaviest, Scored
<1>9. ASSUME NEW i \in DOMAIN h
      PROVE  off[h[i].key][1] = h[i].count /\ h[i].count <= ScoreOf(cells, h[i].key)
  <2>1. off[h[i].key] = <<h[i].count>> /\ off[h[i].key][1] = h[i].count
        /\ off[h[i].key] # <<>>
    BY <1>3, <1>8
  <2>2. off[h[i].key][1] <= ScoreOf(cells, h[i].key)
    BY <1>3, <2>1 DEF Offering, Heaviest, Backed
  <2> QED
    BY <2>1, <2>2
<1> QED
  BY <1>1, <1>2, <1>3, <1>4, <1>5, <1>6, <1>7, <1>8, <1>9

LEMMA OfferRescored ==
  ASSUME NEW h, NEW off, NEW q, NEW cells, Offering(h, off, q, cells),
         NEW k \in Keys, NEW q2, Offers1(q, k, q2),
         NEW h2, Rescored(h, k, ScoreOf(cells, k), h2)
  PROVE  Heaviest(h2, Offered(off, k, ScoreOf(cells, k)), q2, cells)
<1>1. PICK n \in Int : n = ScoreOf(cells, k)
  BY DEF Offering
<1>2. PICK off2 : off2 = Offered(off, k, n)
  OBVIOUS
<1>3. /\ h \in Seq(Entries) /\ Distinct(h) /\ Len(h) \in Nat /\ K \in Nat
      /\ DOMAIN h = 1..Len(h)
      /\ off2[k] = <<n>> /\ off2[k] # <<>> /\ off2[k][1] = n
      /\ \A x \in Keys : x # k => off2[x] = off[x]
      /\ \A x \in Keys : off[x] # <<>> => off[x][1] \in Int
      /\ Backed(off2, cells)
      /\ \A i \in DOMAIN h : /\ h[i].key \in Keys /\ h[i].count \in Int
                             /\ off[h[i].key] = <<h[i].count>>
                             /\ off[h[i].key][1] = h[i].count
                             /\ h[i].count <= ScoreOf(cells, h[i].key)
  BY <1>1, <1>2, OfferBasics
<1>4. /\ ToSet(q) \subseteq {k} \cup ToSet(q2)
      /\ FrontOf(q) \subseteq {k} \cup FrontOf(q2)
      /\ FrontOf(q2) \subseteq FrontOf(q)
      /\ q2 \in Seq(Keys) /\ q \in Seq(Keys) /\ Len(q) \in Nat
      /\ Heaviest(h, off, q, cells)
  BY OffersFacts DEF Offering
<1>5. PICK i \in DOMAIN h : h[i].key = k /\ Put(h, i, Entry(k, n), h2)
  BY <1>1 DEF Rescored
<1>6. /\ h2 \in Seq(Entries)
      /\ ResidentsOf(h2) = {h[j].key : j \in DOMAIN h \ {i}} \cup {k}
      /\ DOMAIN h2 = DOMAIN h /\ Len(h2) = Len(h)
      /\ h2[i].key = k /\ h2[i].count = n
      /\ \A j \in DOMAIN h : j # i => h2[j] = h[j]
  BY <1>3, <1>5, PutFacts
<1>7. ResidentsOf(h2) = ResidentsOf(h) /\ k \in ResidentsOf(h)
  BY <1>5, <1>6 DEF ResidentsOf
<1>8. \A j \in DOMAIN h : j # i => h[j].key # k
  BY <1>3, <1>5 DEF Distinct
<1>9. ASSUME NEW j \in DOMAIN h2
      PROVE  off2[h2[j].key] = <<h2[j].count>>
  <2>1. CASE j = i
    BY <1>3, <1>6, <2>1
  <2>2. CASE j # i
    <3>1. j \in DOMAIN h /\ h2[j] = h[j] /\ h[j].key # k /\ h[j].key \in Keys
      BY <1>3, <1>6, <1>8, <2>2
    <3>2. off2[h[j].key] = off[h[j].key] /\ off[h[j].key] = <<h[j].count>>
      BY <1>3, <3>1
    <3> QED
      BY <3>1, <3>2
  <2> QED
    BY <2>1, <2>2
<1>10. \A j \in DOMAIN h : h[j].count <= h2[j].count
  BY <1>1, <1>3, <1>5, <1>6
<1>11. ASSUME NEW x \in Keys, Passed(h2, off2, q2, x)
       PROVE  Outranked(h2, off2, q2, cells, x)
  <2>1. x # k /\ off2[x] = off[x] /\ Passed(h, off, q, x) /\ off[x][1] \in Int
    BY <1>3, <1>4, <1>7, <1>11 DEF Passed
  <2>2. Outranked(h, off, q, cells, x)
    BY <1>4, <2>1 DEF Heaviest
  <2>3. Cardinality(ResidentsOf(h2) \cup FrontOf(q2)) >= K
    <3>1. ResidentsOf(h) \cup FrontOf(q) = ResidentsOf(h2) \cup FrontOf(q2)
      BY <1>4, <1>7
    <3> QED
      BY <2>2, <3>1 DEF Outranked
  <2>4. \A j \in DOMAIN h2 : off2[x][1] <= h2[j].count
    <3> SUFFICES ASSUME NEW j \in DOMAIN h
                 PROVE  off[x][1] <= h2[j].count
      BY <1>6, <2>1
    <3>1. off[x][1] <= h[j].count /\ h[j].count <= h2[j].count /\ h[j].count \in Int
      BY <1>3, <1>10, <2>2 DEF Outranked
    <3>2. h2[j].count \in Int
      BY <1>6, EntryFacts
    <3> QED
      BY <2>1, <3>1, <3>2
  <2> QED
    BY <1>4, <2>1, <2>2, <2>3, <2>4 DEF Outranked
<1>12. q2 # <<>> => Len(h2) + Len(q2) <= K + 1
  <2> SUFFICES ASSUME q2 # <<>>
               PROVE  Len(h2) + Len(q2) <= K + 1
    OBVIOUS
  <2>1. q # <<>> /\ q2 = Tail(q)
    BY DEF Offers1
  <2>2. Len(q2) = Len(q) - 1 /\ Len(h) + Len(q) <= K + 1
    BY <1>4, <2>1 DEF Heaviest
  <2> QED
    BY <1>3, <1>4, <1>6, <2>2
<1> QED
  BY <1>1, <1>2, <1>3, <1>9, <1>11, <1>12 DEF Heaviest, Scored

LEMMA OfferSeated ==
  ASSUME NEW h, NEW off, NEW q, NEW cells, Offering(h, off, q, cells),
         NEW k \in Keys, NEW q2, Offers1(q, k, q2),
         NEW h2, Seated(h, k, ScoreOf(cells, k), h2)
  PROVE  Heaviest(h2, Offered(off, k, ScoreOf(cells, k)), q2, cells)
<1>1. PICK n \in Int : n = ScoreOf(cells, k)
  BY DEF Offering
<1>2. PICK off2 : off2 = Offered(off, k, n)
  OBVIOUS
<1>3. /\ h \in Seq(Entries) /\ Distinct(h) /\ Len(h) \in Nat /\ K \in Nat
      /\ DOMAIN h = 1..Len(h)
      /\ off2[k] = <<n>> /\ off2[k] # <<>> /\ off2[k][1] = n
      /\ \A x \in Keys : x # k => off2[x] = off[x]
      /\ Backed(off2, cells)
      /\ \A i \in DOMAIN h : /\ h[i].key \in Keys /\ h[i].count \in Int
                             /\ off[h[i].key] = <<h[i].count>>
  BY <1>1, <1>2, OfferBasics
<1>4. /\ ToSet(q) \subseteq {k} \cup ToSet(q2)
      /\ FrontOf(q) \subseteq {k} \cup FrontOf(q2)
      /\ FrontOf(q2) \subseteq FrontOf(q)
      /\ Len(q) >= 2 => k \in FrontOf(q)
      /\ Len(q) <= 1 => FrontOf(q) = {}
      /\ q2 \in Seq(Keys) /\ q \in Seq(Keys) /\ Len(q) \in Nat
      /\ Heaviest(h, off, q, cells)
  BY OffersFacts DEF Offering
<1>5. k \notin ResidentsOf(h) /\ Len(h) < K /\ h2 = h \o <<Entry(k, n)>>
  BY <1>1 DEF Seated
<1>6. /\ h2 \in Seq(Entries) /\ Len(h2) = Len(h) + 1
      /\ ResidentsOf(h2) = ResidentsOf(h) \cup {k}
      /\ \A j \in DOMAIN h2 : \/ j \in DOMAIN h /\ h2[j] = h[j]
                              \/ h2[j].key = k /\ h2[j].count = n
  <2>1. Entry(k, n).key = k /\ Entry(k, n).count = n
    BY DEF Entry
  <2> QED
    BY <1>3, <1>5, <2>1, AppendFacts
<1>7. \A j \in DOMAIN h : h[j].key # k
  BY <1>5 DEF ResidentsOf
<1>8. Scored(h2, off2)
  <2>1. SUFFICES ASSUME NEW j \in DOMAIN h2
                 PROVE  off2[h2[j].key] = <<h2[j].count>>
    BY DEF Scored
  <2>2. CASE j \in DOMAIN h /\ h2[j] = h[j]
    <3>1. h[j].key \in Keys /\ h[j].key # k /\ off[h[j].key] = <<h[j].count>>
      BY <1>3, <1>7, <2>2
    <3>2. off2[h[j].key] = off[h[j].key]
      BY <1>3, <3>1
    <3> QED
      BY <2>2, <3>1, <3>2
  <2>3. CASE h2[j].key = k /\ h2[j].count = n
    BY <1>3, <2>3
  <2> QED
    BY <1>6, <2>2, <2>3
<1>9. ASSUME NEW x \in Keys, Passed(h2, off2, q2, x)
      PROVE  Outranked(h2, off2, q2, cells, x)
  <2>1. x # k /\ off2[x] = off[x] /\ Passed(h, off, q, x)
    BY <1>3, <1>4, <1>6, <1>9 DEF Passed
  <2>2. Outranked(h, off, q, cells, x)
    BY <1>4, <2>1 DEF Heaviest
  <2>3. Cardinality(ResidentsOf(h2) \cup FrontOf(q2)) >= K
    <3>1. ResidentsOf(h) \cup FrontOf(q) \subseteq ResidentsOf(h2) \cup FrontOf(q2)
      BY <1>4, <1>6
    <3>2. IsFiniteSet(ResidentsOf(h2) \cup FrontOf(q2))
      <4>1. ResidentsOf(h2) \subseteq Keys
        BY <1>6, EntryFacts DEF ResidentsOf
      <4>2. (ResidentsOf(h2) \cup FrontOf(q2)) \in SUBSET Keys
        BY <1>4, <4>1, FrontFacts
      <4> QED
        BY <4>2, PlansAssumption, FS_Subset DEF PlansAssumption
    <3>3. /\ Cardinality(ResidentsOf(h) \cup FrontOf(q))
               <= Cardinality(ResidentsOf(h2) \cup FrontOf(q2))
          /\ Cardinality(ResidentsOf(h) \cup FrontOf(q)) \in Nat
          /\ Cardinality(ResidentsOf(h2) \cup FrontOf(q2)) \in Nat
      BY <3>1, <3>2, FS_Subset, FS_CardinalityType
    <3> QED
      BY <1>3, <2>2, <3>3 DEF Outranked
  <2>4. k \in FrontOf(q)
    <3>1. FrontOf(q) # {}
      <4>1. Cardinality(ResidentsOf(h)) = Len(h)
        BY <1>3, ResidentsCount
      <4>2. Cardinality(ResidentsOf(h) \cup FrontOf(q)) >= K
        BY <2>2 DEF Outranked
      <4>3. FrontOf(q) = {} => ResidentsOf(h) \cup FrontOf(q) = ResidentsOf(h)
        OBVIOUS
      <4>4. ~ (Len(h) >= K)
        BY <1>3, <1>5
      <4> QED
        BY <4>1, <4>2, <4>3, <4>4
    <3> QED
      BY <1>4, <3>1
  <2>5. \A j \in DOMAIN h2 : off2[x][1] <= h2[j].count
    BY <1>1, <1>6, <2>1, <2>2, <2>4 DEF Outranked
  <2> QED
    BY <1>4, <2>1, <2>2, <2>3, <2>5 DEF Outranked
<1>10. q2 # <<>> => Len(h2) + Len(q2) <= K + 1
  <2> SUFFICES ASSUME q2 # <<>>
               PROVE  Len(h2) + Len(q2) <= K + 1
    OBVIOUS
  <2>1. q # <<>> /\ q2 = Tail(q)
    BY DEF Offers1
  <2>2. Len(q2) = Len(q) - 1 /\ Len(h) + Len(q) <= K + 1
    BY <1>4, <2>1 DEF Heaviest
  <2> QED
    BY <1>3, <1>4, <1>6, <2>2
<1> QED
  BY <1>1, <1>2, <1>3, <1>8, <1>9, <1>10 DEF Heaviest

LEMMA FullOffer ==
  ASSUME NEW h \in Seq(Entries), NEW off, NEW q \in Seq(Keys), NEW cells,
         Heaviest(h, off, q, cells), Len(h) >= K,
         NEW k, NEW q2, Offers1(q, k, q2)
  PROVE  q2 = <<>> /\ FrontOf(q) = {} /\ FrontOf(q2) = {} /\ ToSet(q) \subseteq {k}
         /\ ToSet(q2) = {}
<1>1. Len(q) \in Nat /\ Len(h) \in Nat /\ K \in Nat
  BY HeapAssumption DEF HeapAssumption
<1>2. Len(q) <= 1
  <2>1. CASE q = <<>>
    BY <2>1
  <2>2. CASE q # <<>>
    <3>1. Len(h) + Len(q) <= K + 1
      BY <2>2 DEF Heaviest
    <3> QED
      BY <1>1, <3>1
  <2> QED
    BY <2>1, <2>2
<1>3. q2 = <<>> /\ FrontOf(q) = {} /\ FrontOf(q2) \subseteq FrontOf(q)
      /\ ToSet(q) \subseteq {k} \cup ToSet(q2)
  BY <1>2, OffersFacts
<1>4. DOMAIN q2 = {}
  BY <1>3
<1>5. ToSet(q2) = {}
  BY <1>4 DEF ToSet
<1> QED
  BY <1>3, <1>5

LEMMA OfferTookRoot ==
  ASSUME NEW h, NEW off, NEW q, NEW cells, Offering(h, off, q, cells),
         NEW k \in Keys, NEW q2, Offers1(q, k, q2),
         NEW h2, TookRoot(h, k, ScoreOf(cells, k), h2)
  PROVE  Heaviest(h2, Offered(off, k, ScoreOf(cells, k)), q2, cells)
<1>1. PICK n \in Int : n = ScoreOf(cells, k)
  BY DEF Offering
<1>2. PICK off2 : off2 = Offered(off, k, n)
  OBVIOUS
<1>3. /\ h \in Seq(Entries) /\ Distinct(h) /\ Len(h) \in Nat /\ K \in Nat
      /\ DOMAIN h = 1..Len(h)
      /\ off2[k] = <<n>> /\ off2[k] # <<>> /\ off2[k][1] = n
      /\ \A x \in Keys : x # k => off2[x] = off[x]
      /\ \A x \in Keys : off[x] # <<>> => off[x][1] \in Int
      /\ Backed(off2, cells)
      /\ \A i \in DOMAIN h : /\ h[i].key \in Keys /\ h[i].count \in Int
                             /\ off[h[i].key] = <<h[i].count>>
                             /\ off[h[i].key][1] = h[i].count
  BY <1>1, <1>2, OfferBasics
<1>4. /\ k \notin ResidentsOf(h) /\ Len(h) >= K /\ 1 \in DOMAIN h /\ n > h[1].count
      /\ Put(h, 1, Entry(k, n), h2)
  BY <1>1 DEF TookRoot
<1>5. q \in Seq(Keys) /\ Heaviest(h, off, q, cells)
      /\ \A i \in DOMAIN h : h[1].count <= h[i].count
  BY DEF Offering, Ready
<1>6. q2 = <<>> /\ FrontOf(q) = {} /\ FrontOf(q2) = {} /\ ToSet(q) \subseteq {k}
      /\ ToSet(q2) = {}
  BY <1>3, <1>4, <1>5, FullOffer
<1>7. /\ h2 \in Seq(Entries)
      /\ ResidentsOf(h2) = {h[j].key : j \in DOMAIN h \ {1}} \cup {k}
      /\ DOMAIN h2 = DOMAIN h /\ Len(h2) = Len(h)
      /\ h2[1].key = k /\ h2[1].count = n
      /\ \A j \in DOMAIN h : j # 1 => h2[j] = h[j]
  BY <1>3, <1>4, PutFacts
<1>8. \A j \in DOMAIN h : h[j].key # k
  BY <1>4 DEF ResidentsOf
<1>9. ASSUME NEW j \in DOMAIN h2
      PROVE  off2[h2[j].key] = <<h2[j].count>>
  <2>1. CASE j = 1
    BY <1>3, <1>7, <2>1
  <2>2. CASE j # 1
    <3>1. j \in DOMAIN h /\ h2[j] = h[j] /\ h[j].key # k /\ h[j].key \in Keys
      BY <1>3, <1>7, <1>8, <2>2
    <3>2. off2[h[j].key] = off[h[j].key] /\ off[h[j].key] = <<h[j].count>>
      BY <1>3, <3>1
    <3> QED
      BY <3>1, <3>2
  <2> QED
    BY <2>1, <2>2
<1>10. Distinct(h2)
  <2>1. SUFFICES ASSUME NEW i \in DOMAIN h2, NEW j \in DOMAIN h2, h2[i].key = h2[j].key
                 PROVE  i = j
    BY DEF Distinct
  <2>2. CASE i = 1 \/ j = 1
    <3>1. DOMAIN h2 = DOMAIN h /\ h2[1].key = k
      BY <1>7
    <3>2. \A x \in DOMAIN h2 : x # 1 => h2[x].key # k
      BY <1>7, <1>8, <3>1
    <3> QED
      BY <2>1, <2>2, <3>1, <3>2
  <2>3. CASE i # 1 /\ j # 1
    <3>1. i \in DOMAIN h /\ j \in DOMAIN h /\ h[i].key = h[j].key
      BY <1>7, <2>1, <2>3
    <3> QED
      BY <1>3, <3>1 DEF Distinct
  <2> QED
    BY <2>2, <2>3
<1>11. \A j \in DOMAIN h : h2[j].count \in Int /\ h[1].count <= h2[j].count /\ h[1].count \in Int
  BY <1>3, <1>4, <1>5, <1>7
<1>12. Cardinality(ResidentsOf(h2)) >= K
  BY <1>4, <1>7, <1>10, ResidentsCount
<1>13. ASSUME NEW x \in Keys, Passed(h2, off2, q2, x)
       PROVE  off2[x][1] <= h[1].count /\ off2[x][1] \in Int
  <2>1. x # k /\ off2[x] = off[x] /\ off[x][1] \in Int /\ off[x] # <<>>
        /\ x \notin ResidentsOf(h2)
    BY <1>3, <1>7, <1>13 DEF Passed
  <2>2. CASE x \in ResidentsOf(h)
    <3>1. PICK j \in DOMAIN h : x = h[j].key
      BY <2>2 DEF ResidentsOf
    <3>2. j = 1
      BY <1>7, <2>1, <3>1
    <3> QED
      BY <1>3, <2>1, <3>1, <3>2
  <2>3. CASE x \notin ResidentsOf(h)
    <3>1. Passed(h, off, q, x)
      BY <1>6, <2>1, <2>3 DEF Passed
    <3>2. \A i \in DOMAIN h : off[x][1] <= h[i].count
      BY <1>5, <3>1 DEF Heaviest, Outranked
    <3> QED
      BY <1>4, <2>1, <3>2
  <2> QED
    BY <2>2, <2>3
<1>14. ASSUME NEW x \in Keys, Passed(h2, off2, q2, x)
       PROVE  Outranked(h2, off2, q2, cells, x)
  <2>1. ResidentsOf(h2) \cup FrontOf(q2) = ResidentsOf(h2)
    BY <1>6
  <2>2. off2[x][1] <= h[1].count /\ off2[x][1] \in Int
    BY <1>13, <1>14
  <2>3. \A j \in DOMAIN h2 : off2[x][1] <= h2[j].count
    BY <1>7, <1>11, <2>2
  <2> QED
    BY <1>6, <1>12, <2>1, <2>3 DEF Outranked
<1> QED
  BY <1>1, <1>2, <1>3, <1>6, <1>9, <1>14 DEF Heaviest, Scored

LEMMA OfferRefused ==
  ASSUME NEW h, NEW off, NEW q, NEW cells, Offering(h, off, q, cells),
         NEW k \in Keys, NEW q2, Offers1(q, k, q2),
         NEW h2, Refused(h, k, ScoreOf(cells, k), h2)
  PROVE  Heaviest(h2, Offered(off, k, ScoreOf(cells, k)), q2, cells)
<1>1. PICK n \in Int : n = ScoreOf(cells, k)
  BY DEF Offering
<1>2. PICK off2 : off2 = Offered(off, k, n)
  OBVIOUS
<1>3. /\ h \in Seq(Entries) /\ Distinct(h) /\ Len(h) \in Nat /\ K \in Nat
      /\ DOMAIN h = 1..Len(h)
      /\ off2[k] = <<n>> /\ off2[k] # <<>> /\ off2[k][1] = n
      /\ \A x \in Keys : x # k => off2[x] = off[x]
      /\ Backed(off2, cells)
      /\ \A i \in DOMAIN h : /\ h[i].key \in Keys /\ h[i].count \in Int
                             /\ off[h[i].key] = <<h[i].count>>
  BY <1>1, <1>2, OfferBasics
<1>4. /\ k \notin ResidentsOf(h) /\ Len(h) >= K /\ h2 = h
      /\ 1 \in DOMAIN h => n <= h[1].count
  BY <1>1 DEF Refused
<1>5. q \in Seq(Keys) /\ Heaviest(h, off, q, cells)
      /\ \A i \in DOMAIN h : h[1].count <= h[i].count
  BY DEF Offering, Ready
<1>6. q2 = <<>> /\ FrontOf(q) = {} /\ FrontOf(q2) = {} /\ ToSet(q) \subseteq {k}
      /\ ToSet(q2) = {}
  BY <1>3, <1>4, <1>5, FullOffer
<1>7. \A j \in DOMAIN h : h[j].key # k
  BY <1>4 DEF ResidentsOf
<1>8. Scored(h2, off2)
  BY <1>3, <1>4, <1>5, <1>7 DEF Scored
<1>9. Cardinality(ResidentsOf(h2)) >= K
  BY <1>3, <1>4, ResidentsCount
<1>10. ASSUME NEW x \in Keys, Passed(h2, off2, q2, x)
       PROVE  Outranked(h2, off2, q2, cells, x)
  <2>1. ResidentsOf(h2) \cup FrontOf(q2) = ResidentsOf(h2)
    BY <1>6
  <2>2. \A j \in DOMAIN h2 : off2[x][1] <= h2[j].count
    <3>1. CASE x = k
      <4> SUFFICES ASSUME NEW j \in DOMAIN h
                   PROVE  n <= h[j].count
        BY <1>3, <1>4, <3>1
      <4>1. 1 \in DOMAIN h
        BY <1>3
      <4>2. n <= h[1].count /\ h[1].count <= h[j].count /\ h[1].count \in Int /\ h[j].count \in Int
        BY <1>3, <1>4, <1>5, <4>1
      <4> QED
        BY <4>2
    <3>2. CASE x # k
      <4>1. Passed(h, off, q, x) /\ off2[x] = off[x]
        BY <1>3, <1>4, <1>6, <1>10, <3>2 DEF Passed
      <4> QED
        BY <1>4, <1>5, <4>1 DEF Heaviest, Outranked
    <3> QED
      BY <3>1, <3>2
  <2> QED
    BY <1>6, <1>9, <2>1, <2>2 DEF Outranked
<1> QED
  BY <1>1, <1>2, <1>3, <1>6, <1>8, <1>10 DEF Heaviest

LEMMA OfferKeepsHeaviest ==
  ASSUME NEW h, NEW off, NEW q, NEW cells, Offering(h, off, q, cells),
         NEW k \in Keys, NEW q2, Offers1(q, k, q2),
         NEW h2, Updated(h, k, ScoreOf(cells, k), h2)
  PROVE  Heaviest(h2, Offered(off, k, ScoreOf(cells, k)), q2, cells)
BY OfferRescored, OfferSeated, OfferTookRoot, OfferRefused DEF Updated

LEMMA ShuffleFacts ==
  ASSUME NEW h, NEW h2, Shuffled(h, h2)
  PROVE  ResidentsOf(h2) = ResidentsOf(h)
<1>1. \A i \in DOMAIN h2 : \E j \in DOMAIN h : h2[i] = h[j]
  BY DEF Shuffled
<1>2. \A i \in DOMAIN h : \E j \in DOMAIN h2 : h[i] = h2[j]
  BY DEF Shuffled
<1>3. ResidentsOf(h2) \subseteq ResidentsOf(h)
  BY <1>1 DEF ResidentsOf
<1>4. ResidentsOf(h) \subseteq ResidentsOf(h2)
  BY <1>2 DEF ResidentsOf
<1> QED
  BY <1>3, <1>4

LEMMA ShuffleKeepsHeaviest ==
  ASSUME NEW h, NEW h2, Shuffled(h, h2), NEW off, NEW q, NEW cells, Heaviest(h, off, q, cells)
  PROVE  Heaviest(h2, off, q, cells)
<1>1. /\ ResidentsOf(h2) = ResidentsOf(h) /\ Len(h2) = Len(h)
      /\ \A i \in DOMAIN h2 : \E j \in DOMAIN h : h2[i] = h[j]
  BY ShuffleFacts DEF Shuffled
<1>2. Scored(h2, off)
  BY <1>1 DEF Heaviest, Scored
<1>3. ASSUME NEW k \in Keys, Passed(h2, off, q, k)
      PROVE  Outranked(h2, off, q, cells, k)
  <2>1. Passed(h, off, q, k)
    BY <1>1, <1>3 DEF Passed
  <2>2. Outranked(h, off, q, cells, k)
    BY <2>1 DEF Heaviest
  <2> QED
    BY <1>1, <2>2 DEF Outranked
<1> QED
  BY <1>1, <1>2, <1>3 DEF Heaviest

LEMMA ScoreInt ==
  ASSUME NEW cells \in CellArray, NEW k \in Keys
  PROVE  ScoreOf(cells, k) \in Int
<1>1. Touched("CmTopK", k, 0) # {}
  BY PlansAssumption DEF PlansAssumption, TopKPlans
<1> QED
  BY <1>1, LeastOfFacts DEF ScoreOf

LEMMA ScoreGrows ==
  ASSUME NEW cells \in CellArray, NEW cells2 \in CellArray,
         \A c \in Cells : cells[c] <= cells2[c], NEW k \in Keys
  PROVE  ScoreOf(cells, k) <= ScoreOf(cells2, k)
<1>1. PICK T : T = Touched("CmTopK", k, 0)
  OBVIOUS
<1>2. T # {} /\ T \subseteq Cells
  BY <1>1, PlansAssumption, TouchedFacts DEF PlansAssumption, TopKPlans
<1>3. PICK c \in T : LeastOf("CmTopK", cells2, k) = cells2[c]
  BY <1>1, <1>2, LeastOfFacts
<1>4. LeastOf("CmTopK", cells, k) <= cells[c] /\ LeastOf("CmTopK", cells, k) \in Int
  BY <1>1, <1>2, LeastOfFacts
<1>5. cells[c] <= cells2[c] /\ cells[c] \in Int /\ cells2[c] \in Int
  BY <1>2 DEF CellArray
<1> QED
  BY <1>3, <1>4, <1>5 DEF ScoreOf

LEMMA GrowthKeepsHeaviest ==
  ASSUME NEW cells \in CellArray, NEW cells2 \in CellArray,
         \A c \in Cells : cells[c] <= cells2[c],
         NEW h, NEW off \in [Keys -> Seq(Int)], NEW q \in Seq(Keys),
         Heaviest(h, off, q, cells)
  PROVE  Heaviest(h, off, q, cells2)
<1>1. \A k \in Keys : /\ ScoreOf(cells, k) <= ScoreOf(cells2, k)
                      /\ ScoreOf(cells, k) \in Int /\ ScoreOf(cells2, k) \in Int
  BY ScoreGrows, ScoreInt
<1>2. \A k \in Keys : off[k] # <<>> => off[k][1] \in Int
  OBVIOUS
<1>3. Backed(off, cells2)
  <2> SUFFICES ASSUME NEW k \in Keys, off[k] # <<>>
               PROVE  off[k][1] <= ScoreOf(cells2, k)
    BY DEF Backed
  <2>1. off[k][1] <= ScoreOf(cells, k)
    BY DEF Heaviest, Backed
  <2> QED
    BY <1>1, <1>2, <2>1
<1>4. ASSUME NEW k \in Keys, Passed(h, off, q, k)
      PROVE  Outranked(h, off, q, cells2, k)
  <2>1. Outranked(h, off, q, cells, k) /\ off[k][1] \in Int
    BY <1>2, <1>4 DEF Heaviest, Passed
  <2>2. FrontOf(q) \subseteq Keys
    BY FrontFacts
  <2>3. ASSUME NEW x \in FrontOf(q)
        PROVE  off[k][1] <= ScoreOf(cells2, x)
    <3>1. off[k][1] <= ScoreOf(cells, x)
      BY <2>1 DEF Outranked
    <3>2. ScoreOf(cells, x) <= ScoreOf(cells2, x)
          /\ ScoreOf(cells, x) \in Int /\ ScoreOf(cells2, x) \in Int
      BY <1>1, <2>2
    <3> QED
      BY <2>1, <3>1, <3>2
  <2> QED
    BY <2>1, <2>3 DEF Outranked
<1> QED
  BY <1>3, <1>4 DEF Heaviest

LEMMA ClearedIsHeaviest ==
  ASSUME NEW off, off = [k \in Keys |-> <<>>], NEW cells
  PROVE  Heaviest(<<>>, off, <<>>, cells)
<1>1. DOMAIN <<>> = {}
  OBVIOUS
<1>2. \A k \in Keys : off[k] = <<>>
  OBVIOUS
<1> QED
  BY <1>1, <1>2 DEF Heaviest, Scored, Backed, Passed

\* A merge empties the heap, and offers first the keys that were in it.
Requeued(h, k) == [i \in DOMAIN h |-> h[i].key] \o <<k>>

LEMMA RequeuedFacts ==
  ASSUME NEW h \in Seq(Entries), NEW k \in Keys
  PROVE  /\ Requeued(h, k) \in Seq(Keys)
         /\ Len(Requeued(h, k)) = Len(h) + 1
         /\ Requeued(h, k) # <<>>
         /\ FrontOf(Requeued(h, k)) = ResidentsOf(h)
         /\ ResidentsOf(h) \subseteq ToSet(Requeued(h, k))
<1>1. PICK n \in Nat : n = Len(h) /\ DOMAIN h = 1..n
  OBVIOUS
<1>2. PICK ks : ks = [i \in DOMAIN h |-> h[i].key]
  OBVIOUS
<1>3. ks \in Seq(Keys) /\ Len(ks) = n /\ DOMAIN ks = 1..n /\ \A i \in 1..n : ks[i] = h[i].key
  <2>1. \A i \in 1..n : h[i].key \in Keys
    BY <1>1, EntryFacts
  <2> QED
    BY <1>1, <1>2, <2>1
<1>4. PICK q : q = ks \o <<k>>
  OBVIOUS
<1>5. q \in Seq(Keys) /\ Len(q) = n + 1 /\ DOMAIN q = 1..(n + 1)
      /\ \A i \in 1..n : q[i] = h[i].key
  BY <1>3, <1>4
<1>6. Len(q) - 1 = n
  BY <1>5
<1>7. FrontOf(q) = ResidentsOf(h)
  BY <1>1, <1>5, <1>6 DEF FrontOf, ResidentsOf
<1>8. FrontOf(q) \subseteq ToSet(q)
  BY <1>5, FrontFacts
<1>9. q = Requeued(h, k) /\ q # <<>>
  BY <1>2, <1>4, <1>5 DEF Requeued
<1> QED
  BY <1>1, <1>5, <1>7, <1>8, <1>9

LEMMA MergeKeepsHeaviest ==
  ASSUME NEW h \in Seq(Entries), Distinct(h), Len(h) <= K,
         NEW off \in [Keys -> Seq(Int)], NEW cells \in CellArray,
         Heaviest(h, off, <<>>, cells), NEW k \in Keys
  PROVE  Heaviest(<<>>, off, Requeued(h, k), cells)
<1>1. PICK q : q = Requeued(h, k)
  OBVIOUS
<1>2. /\ q \in Seq(Keys) /\ Len(q) = Len(h) + 1 /\ q # <<>>
      /\ FrontOf(q) = ResidentsOf(h)
      /\ ResidentsOf(h) \subseteq ToSet(q)
  BY <1>1, RequeuedFacts
<1>3. Len(h) \in Nat /\ K \in Nat /\ DOMAIN h = 1..Len(h)
  BY HeapAssumption DEF HeapAssumption
<1>4. DOMAIN <<>> = {} /\ Len(<<>>) = 0 /\ ToSet(<<>>) = {}
  <2>1. DOMAIN <<>> = {} /\ Len(<<>>) = 0
    OBVIOUS
  <2> QED
    BY <2>1 DEF ToSet
<1>5. ResidentsOf(<<>>) = {}
  BY <1>4 DEF ResidentsOf
<1>6. FrontOf(<<>>) = {}
  BY <1>4 DEF FrontOf
<1>7. ASSUME NEW x \in Keys, Passed(<<>>, off, q, x)
      PROVE  Outranked(<<>>, off, q, cells, x)
  <2>1. Passed(h, off, <<>>, x)
    BY <1>2, <1>4, <1>7 DEF Passed
  <2>2. Outranked(h, off, <<>>, cells, x) /\ off[x][1] \in Int
    BY <2>1 DEF Heaviest, Passed
  <2>3. ResidentsOf(<<>>) \cup FrontOf(q) = ResidentsOf(h) \cup FrontOf(<<>>)
    BY <1>2, <1>5, <1>6
  <2>4. ASSUME NEW y \in FrontOf(q)
        PROVE  off[x][1] <= ScoreOf(cells, y)
    <3>1. PICK i \in DOMAIN h : y = h[i].key
      BY <1>2 DEF ResidentsOf
    <3>2. h[i].key \in Keys /\ h[i].count \in Int
      BY EntryFacts
    <3>3. off[y] = <<h[i].count>> /\ off[y][1] = h[i].count /\ off[y] # <<>>
      <4>1. off[y] = <<h[i].count>>
        BY <3>1 DEF Heaviest, Scored
      <4> QED
        BY <4>1
    <3>4. off[y][1] <= ScoreOf(cells, y)
      BY <3>1, <3>2, <3>3 DEF Heaviest, Backed
    <3>5. off[x][1] <= h[i].count
      BY <2>2 DEF Outranked
    <3>6. ScoreOf(cells, y) \in Int
      BY <3>1, <3>2, ScoreInt
    <3> QED
      BY <2>2, <3>2, <3>3, <3>4, <3>5, <3>6
  <2>5. Cardinality(ResidentsOf(<<>>) \cup FrontOf(q)) >= K
    BY <2>2, <2>3 DEF Outranked
  <2> QED
    BY <1>4, <2>4, <2>5 DEF Outranked
<1>8. Backed(off, cells) /\ Scored(<<>>, off)
  BY <1>4 DEF Heaviest, Scored
<1>9. Len(<<>>) + Len(q) <= K + 1
  BY <1>2, <1>3, <1>4
<1> QED
  BY <1>1, <1>7, <1>8, <1>9 DEF Heaviest

(***************************************************************************)
(* A step of the stream, or of the caller, keeps the invariant.            *)
(***************************************************************************)
LEMMA WeightNat ==
  ASSUME Shares, NEW w \in Workers
  PROVE  WeightTotal(w) \in Nat /\ IsFiniteSet(KeysOf[plan]) /\ KeysOf[plan] \subseteq Keys
<1>1. KeysOf[plan] \in SUBSET Keys /\ IsFiniteSet(Keys)
  BY PlansAssumption DEF Shares, PlansAssumption
<1>2. IsFiniteSet(KeysOf[plan])
  BY <1>1, FS_Subset
<1>3. given[w] \in [KeysOf[plan] -> Nat]
  BY DEF Shares
<1>4. SumOf(given[w]) \in Nat
  BY <1>2, <1>3, SumIsNat
<1>5. WeightTotal(w) = SumOf(given[w])
  BY DEF WeightTotal, SumOver, SumOf
<1> QED
  BY <1>1, <1>2, <1>4, <1>5

\* What a cell plan's insert ships.
Ships1(w, k, out) ==
  /\ out \in Seq(CellDeltas)
  /\ held' = [held EXCEPT ![w] = Held(held[w], Bump[plan][k], Taus(plan, tau))]
  /\ queue' = [queue EXCEPT ![w] = @ \o out]
  /\ Posts(CellOrder, Due(held[w], Bump[plan][k], Taus(plan, tau)),
           Bumped(held[w], Bump[plan][k]), out)
  /\ \A n \in DOMAIN out : out[n].key = k /\ out[n].weight = WeightTotal(w) + 1

LEMMA ProcessShips ==
  ASSUME Shares, CellTyped, CellPlan(plan), NEW w \in Workers, NEW k \in KeysOf[plan],
         Process(w, k)
  PROVE  \E out : Ships1(w, k, out)
<1>1. plan \in LinearPlans /\ k \in Keys
  BY WeightNat DEF CellPlan, HeapPlans, LinearPlans
<1>2. held[w] \in CellArray
  BY DEF CellTyped
<1>3. WeightTotal(w) + 1 \in Nat
  BY WeightNat
<1>4. PICK r : r = CellInsert(plan, held[w], k, tau, WeightTotal(w) + 1)
  OBVIOUS
<1>5. /\ r.held = Held(held[w], Bump[plan][k], Taus(plan, tau))
      /\ r.out \in Seq(CellDeltas)
      /\ Posts(CellOrder, Due(held[w], Bump[plan][k], Taus(plan, tau)),
               Bumped(held[w], Bump[plan][k]), r.out)
      /\ \A n \in DOMAIN r.out : r.out[n].key = k /\ r.out[n].weight = WeightTotal(w) + 1
  BY <1>1, <1>2, <1>3, <1>4, CellInsertFacts
<1>6. Outcomes(w, k) = {r}
  <2>1. plan # "Hll" /\ plan # "Coco" /\ plan # "Elastic"
    BY <1>1 DEF LinearPlans
  <2> QED
    BY <1>4, <2>1 DEF Outcomes
<1>7. Ships(w, r)
  BY <1>6 DEF Process
<1>8. held' = [held EXCEPT ![w] = r.held] /\ queue' = [queue EXCEPT ![w] = @ \o r.out]
  BY <1>7 DEF Ships
<1> QED
  BY <1>5, <1>8 DEF Ships1

LEMMA DueInsert ==
  ASSUME Shares, CellTyped, CellPlan(plan), NEW w \in Workers, NEW k \in KeysOf[plan],
         NEW due, due = Due(held[w], Bump[plan][k], Taus(plan, tau))
  PROVE  /\ due \subseteq Cells
         /\ Held(held[w], Bump[plan][k], Taus(plan, tau)) \in CellArray
         /\ Bump[plan][k] \in [Cells -> {-1, 0, 1}]
         /\ plan \in {"CmTopK", "Dd"} => Bump[plan][k] \in [Cells -> {0, 1}]
         /\ \A c \in Cells : /\ Bumped(held[w], Bump[plan][k])[c] = held[w][c] + Bump[plan][k][c]
                             /\ held[w][c] \in Int
                             /\ Held(held[w], Bump[plan][k], Taus(plan, tau))[c]
                                  = IF c \in due THEN 0 ELSE held[w][c] + Bump[plan][k][c]
         /\ \A c \in due : Bump[plan][k][c] # 0
<1>1. plan \in LinearPlans /\ k \in Keys
  BY WeightNat DEF CellPlan, HeapPlans, LinearPlans
<1>2. /\ Bump[plan][k] \in [Cells -> {-1, 0, 1}]
      /\ plan \in {"CmTopK", "Dd"} => Bump[plan][k] \in [Cells -> {0, 1}]
  BY <1>1, BumpFacts
<1>3. held[w] \in [Cells -> Int]
  BY DEF CellTyped, CellArray
<1>4. \A c \in due : Bump[plan][k][c] # 0
  BY DEF Due
<1>5. PICK bump : bump = Bump[plan][k]
  OBVIOUS
<1>6. bump \in [Cells -> Int]
  BY <1>2, <1>5
<1>7. PICK taus : taus = Taus(plan, tau)
  OBVIOUS
<1>8. /\ Due(held[w], bump, taus) \subseteq Cells
      /\ Held(held[w], bump, taus) \in [Cells -> Int]
      /\ \A c \in Cells : /\ Bumped(held[w], bump)[c] = held[w][c] + bump[c]
                          /\ Held(held[w], bump, taus)[c]
                               = IF c \in Due(held[w], bump, taus) THEN 0 ELSE held[w][c] + bump[c]
  BY <1>3, <1>6, DueFacts
<1> QED
  BY <1>2, <1>3, <1>4, <1>5, <1>7, <1>8 DEF CellArray

LEMMA ProcessTyped ==
  ASSUME Shares, CellTyped, CellPlan(plan), NEW w \in Workers, NEW k \in KeysOf[plan],
         Process(w, k)
  PROVE  CellTyped'
<1>1. PICK out : Ships1(w, k, out)
  BY ProcessShips
<1>2. PICK due : due = Due(held[w], Bump[plan][k], Taus(plan, tau))
  OBVIOUS
<1>3. PICK cells : cells = Held(held[w], Bump[plan][k], Taus(plan, tau))
  OBVIOUS
<1>4. /\ due \subseteq Cells
      /\ cells \in CellArray
      /\ Bump[plan][k] \in [Cells -> {-1, 0, 1}]
      /\ plan \in {"CmTopK", "Dd"} => Bump[plan][k] \in [Cells -> {0, 1}]
      /\ \A c \in Cells : /\ Bumped(held[w], Bump[plan][k])[c] = held[w][c] + Bump[plan][k][c]
                          /\ held[w][c] \in Int
                          /\ cells[c] = IF c \in due THEN 0 ELSE held[w][c] + Bump[plan][k][c]
      /\ \A c \in due : Bump[plan][k][c] # 0
  BY <1>2, <1>3, DueInsert
<1>5. plan' = plan /\ parent' = parent
  BY DEF Process
<1>6. /\ held \in [Workers -> CellArray]
      /\ parent \in CellArray
      /\ queue \in [Workers -> Seq(CellDeltas)]
      /\ \A v \in Workers :
           /\ \A n \in DOMAIN queue[v] : Fits(queue[v][n])
           /\ plan \in {"CmTopK", "Dd"} => \A c \in Cells : held[v][c] >= 0
  BY DEF CellTyped
<1>7. /\ out \in Seq(CellDeltas)
      /\ held' = [held EXCEPT ![w] = cells]
      /\ queue' = [queue EXCEPT ![w] = @ \o out]
      /\ \A n \in DOMAIN out : /\ out[n].key = k
                               /\ out[n].cell \in due
                               /\ out[n].value = held[w][out[n].cell] + Bump[plan][k][out[n].cell]
  BY <1>1, <1>2, <1>3, <1>4 DEF Ships1, Posts
<1>8. plan \in {"CmTopK", "Dd"} =>
        \A c \in Cells : held[w][c] >= 0 /\ Bump[plan][k][c] \in {0, 1} /\ cells[c] >= 0
                         /\ held[w][c] + Bump[plan][k][c] >= 0
  BY <1>4, <1>6
<1>9. \A n \in DOMAIN out : Fits(out[n])
  BY <1>4, <1>7, <1>8 DEF Fits
<1>10. held' \in [Workers -> CellArray] /\ queue[w] \o out \in Seq(CellDeltas)
  BY <1>4, <1>6, <1>7, Appended
<1>11. queue' \in [Workers -> Seq(CellDeltas)]
  BY <1>6, <1>7, <1>10
<1>12. ASSUME NEW v \in Workers, NEW n \in DOMAIN queue'[v]
       PROVE  Fits(queue'[v][n])
  <2>1. CASE v = w
    <3>1. PICK r : r = queue[w] \o out
      OBVIOUS
    <3>2. queue'[v] = r
      BY <1>6, <1>7, <2>1, <3>1
    <3>3. \A i \in DOMAIN r : \/ \E m \in DOMAIN queue[w] : r[i] = queue[w][m]
                              \/ \E m \in DOMAIN out : r[i] = out[m]
      <4>1. PICK q \in Seq(CellDeltas) : q = queue[w]
        BY <1>6
      <4>2. \A i \in DOMAIN (q \o out) : \/ \E m \in DOMAIN q : (q \o out)[i] = q[m]
                                        \/ \E m \in DOMAIN out : (q \o out)[i] = out[m]
        BY <1>7, Appended
      <4> QED
        BY <3>1, <4>1, <4>2
    <3>4. \A i \in DOMAIN r : Fits(r[i])
      BY <1>6, <1>9, <3>3
    <3> QED
      BY <3>2, <3>4
  <2>2. CASE v # w
    BY <1>6, <1>7, <2>2
  <2> QED
    BY <2>1, <2>2
<1>13. ASSUME NEW v \in Workers, plan \in {"CmTopK", "Dd"}, NEW c \in Cells
       PROVE  held'[v][c] >= 0
  BY <1>6, <1>7, <1>8, <1>13
<1> QED
  BY <1>5, <1>6, <1>10, <1>11, <1>12, <1>13 DEF CellTyped, Fits

LEMMA StillKnown ==
  ASSUME queue \in [Workers -> Seq(CellDeltas)], NEW w \in Workers, NEW out \in Seq(CellDeltas),
         queue' = [queue EXCEPT ![w] = @ \o out], offered' = offered, NEW k, Known(k)
  PROVE  Known(k)'
<1>1. CASE offered[k] # <<>>
  BY <1>1 DEF Known
<1>2. CASE \E v \in Workers : \E n \in DOMAIN queue[v] :
             queue[v][n].key = k /\ queue[v][n].cell[1] = Followed
  <2>0. PICK v \in Workers : \E n \in DOMAIN queue[v] :
             queue[v][n].key = k /\ queue[v][n].cell[1] = Followed
    BY <1>2
  <2>1. PICK n \in DOMAIN queue[v] :
          queue[v][n].key = k /\ queue[v][n].cell[1] = Followed
    BY <2>0
  <2>2. n \in DOMAIN queue'[v] /\ queue'[v][n] = queue[v][n]
    <3>1. CASE v = w
      <4>1. PICK q \in Seq(CellDeltas) : q = queue[w]
        OBVIOUS
      <4>2. \A m \in DOMAIN q : m \in DOMAIN (q \o out) /\ (q \o out)[m] = q[m]
        BY Appended
      <4>3. queue'[v] = q \o out
        BY <3>1, <4>1
      <4> QED
        BY <2>1, <3>1, <4>1, <4>2, <4>3
    <3>2. CASE v # w
      BY <2>1, <3>2
    <3> QED
      BY <3>1, <3>2
  <2>3. queue'[v][n].key = k /\ queue'[v][n].cell[1] = Followed
    BY <2>1, <2>2
  <2> QED
    BY <2>2, <2>3 DEF Known
<1> QED
  BY <1>1, <1>2 DEF Known

\* Without a threshold whatever the followed layer counts is shipped at once.
LEMMA ProcessComplete ==
  ASSUME Shares, CellTyped, CompleteInv, NEW w \in Workers, NEW k \in KeysOf[plan],
         Process(w, k)
  PROVE  CompleteInv'
<1>1. /\ plan' = plan /\ tally' = tally /\ heap' = heap /\ offered' = offered
      /\ unheard' = (unheard \/ Thresholds)
      /\ given' = [given EXCEPT ![w][k] = @ + 1]
  BY DEF Process, heapVars
<1>2. ResidentsOf(heap') = ResidentsOf(heap)
  BY <1>1
<1> SUFFICES ASSUME plan = "UnivMon", tally.complete, ~ unheard, ~ Thresholds
             PROVE  NothingHeldBack'
  BY <1>1, <1>2 DEF CompleteInv
<1>3. NothingHeldBack
  BY DEF CompleteInv
<1>4. CellPlan(plan) /\ plan \in {"UnivMon"}
  BY DEF CellPlan, HeapPlans
<1>5. PICK out : Ships1(w, k, out)
  BY <1>4, ProcessShips
<1>6. PICK due : due = Due(held[w], Bump[plan][k], Taus(plan, tau))
  OBVIOUS
<1>7. PICK cells : cells = Held(held[w], Bump[plan][k], Taus(plan, tau))
  OBVIOUS
<1>8. /\ due \subseteq Cells
      /\ Bump[plan][k] \in [Cells -> {-1, 0, 1}]
      /\ \A c \in Cells : /\ Bumped(held[w], Bump[plan][k])[c] = held[w][c] + Bump[plan][k][c]
                          /\ held[w][c] \in Int
                          /\ cells[c] = IF c \in due THEN 0 ELSE held[w][c] + Bump[plan][k][c]
  BY <1>4, <1>6, <1>7, DueInsert
<1>9. /\ out \in Seq(CellDeltas)
      /\ held' = [held EXCEPT ![w] = cells]
      /\ queue' = [queue EXCEPT ![w] = @ \o out]
      /\ \A n \in DOMAIN out : out[n].key = k
      /\ \A c \in due : \E n \in DOMAIN out : out[n].cell = c
  BY <1>5, <1>6, <1>7 DEF Ships1, Posts
<1>10. /\ held \in [Workers -> CellArray]
       /\ queue \in [Workers -> Seq(CellDeltas)]
  BY <1>4 DEF CellTyped
<1>11. LayerTau(plan, tau, Followed) = 1
  <2>1. LayerTau(plan, tau, Followed) \in Nat \ {0}
    BY LayerTauFacts, PlansAssumption DEF PlansAssumption, Shares
  <2> QED
    BY <2>1 DEF Thresholds
<1>12. ASSUME NEW c \in Cells, c[1] = Followed, Bump[plan][k][c] # 0
       PROVE  c \in due
  <2>1. held[w][c] = 0
    BY <1>3, <1>12 DEF NothingHeldBack
  <2>2. Bumped(held[w], Bump[plan][k])[c] = Bump[plan][k][c] /\ Bump[plan][k][c] \in {-1, 1}
    BY <1>8, <1>12, <2>1
  <2>3. Magnitude(Bumped(held[w], Bump[plan][k])[c]) >= 1
    BY <2>2 DEF Magnitude
  <2>4. Taus(plan, tau)[c] = 1
    BY <1>11, <1>12 DEF Taus
  <2>5. c \in DOMAIN held[w]
    BY <1>10 DEF CellArray
  <2> QED
    BY <1>6, <1>12, <2>3, <2>4, <2>5 DEF Due
<1>13. ASSUME NEW v \in Workers, NEW c \in Cells, c[1] = Followed
       PROVE  held'[v][c] = 0
  <2>1. held[v][c] = 0 /\ held[w][c] = 0
    BY <1>3, <1>13 DEF NothingHeldBack
  <2>2. cells[c] = 0
    BY <1>8, <1>12, <1>13, <2>1
  <2> QED
    BY <1>9, <1>10, <2>1, <2>2
<1>14. ASSUME NEW x \in KeysOf[plan], Touched(plan, x, Followed) # {},
              NEW v \in Workers, given'[v][x] > 0
       PROVE  Known(x)'
  <2>1. CASE x = k
    <3>1. PICK c \in Cells : c[1] = Followed /\ Bump[plan][k][c] # 0
      BY <1>14, <2>1 DEF Touched
    <3>2. PICK n \in DOMAIN out : out[n].cell = c /\ out[n].key = k
      BY <1>9, <1>12, <3>1
    <3>3. PICK q \in Seq(CellDeltas) : q = queue[w]
      BY <1>10
    <3>4. Len(q) + n \in DOMAIN (q \o out) /\ (q \o out)[Len(q) + n] = out[n]
      BY <1>9, Appended
    <3>5. queue'[w] = q \o out
      BY <1>9, <1>10, <3>3
    <3>6. PICK m \in DOMAIN queue'[w] : queue'[w][m].key = k /\ queue'[w][m].cell[1] = Followed
      BY <3>1, <3>2, <3>4, <3>5
    <3> QED
      BY <2>1, <3>6 DEF Known
  <2>2. CASE x # k
    <3>1. given'[v][x] = given[v][x]
      BY <1>1, <1>14, <2>2 DEF Shares
    <3>2. Known(x)
      BY <1>3, <1>14, <3>1 DEF NothingHeldBack
    <3> QED
      BY <1>1, <1>9, <1>10, <3>2, StillKnown
  <2> QED
    BY <2>1, <2>2
<1> QED
  BY <1>1, <1>13, <1>14 DEF NothingHeldBack

LEMMA HeapUntouched ==
  ASSUME HeapInv, UNCHANGED heapVars
  PROVE  HeapInv'
BY HeapStepInv

LEMMA ProcessInv ==
  ASSUME PlanInv, NEW w \in Workers, NEW k \in KeysOf[plan], Process(w, k)
  PROVE  PlanInv'
<1>1. /\ plan' = plan /\ tau' = tau /\ parent' = parent /\ returned' = returned
      /\ pending' = pending /\ offered' = offered /\ UNCHANGED heapVars /\ heap' = heap
      /\ given' = [given EXCEPT ![w][k] = @ + 1]
  BY DEF Process, heapVars
<1>2. Shares'
  BY <1>1 DEF PlanInv, Shares
<1>3. CellTyped'
  BY <1>1, ProcessTyped DEF PlanInv, CellTyped
<1>4. HeapInv' /\ HeaviestInv'
  BY <1>1, HeapUntouched DEF PlanInv, HeaviestInv
<1>5. CompleteInv'
  BY ProcessComplete DEF PlanInv
<1> QED
  BY <1>2, <1>3, <1>4, <1>5 DEF PlanInv

LEMMA FlushInv ==
  ASSUME PlanInv, NEW w \in Workers, Flush(w)
  PROVE  PlanInv'
<1>1. /\ plan' = plan /\ tau' = tau /\ parent' = parent /\ returned' = returned
      /\ pending' = pending /\ offered' = offered /\ UNCHANGED heapVars /\ heap' = heap
      /\ given' = given /\ tally' = tally /\ unheard' = unheard
      /\ Ships(w, FlushOf(w))
  BY DEF Flush, heapVars
<1>2. Shares'
  BY <1>1 DEF PlanInv, Shares
<1>3. HeapInv' /\ HeaviestInv'
  BY <1>1, HeapUntouched DEF PlanInv, HeaviestInv
<1>4. CASE CellPlan(plan)
  <2>1. PICK r : r = CellFlush(plan, held[w], Nobody)
    OBVIOUS
  <2>2. FlushOf(w) = r
    <3>1. plan # "Hll" /\ plan # "Coco" /\ plan # "Elastic"
      BY <1>4 DEF CellPlan, HeapPlans
    <3> QED
      BY <1>4, <2>1, <3>1 DEF FlushOf
  <2>3. held' = [held EXCEPT ![w] = r.held] /\ queue' = [queue EXCEPT ![w] = @ \o r.out]
    BY <1>1, <2>2 DEF Ships
  <2>4. /\ held \in [Workers -> CellArray]
        /\ parent \in CellArray
        /\ queue \in [Workers -> Seq(CellDeltas)]
        /\ \A v \in Workers :
             /\ \A n \in DOMAIN queue[v] : Fits(queue[v][n])
             /\ plan \in {"CmTopK", "Dd"} => \A c \in Cells : held[v][c] >= 0
    BY <1>4 DEF PlanInv, CellTyped
  <2>5. CASE FlushesCells(plan)
    <3>1. /\ r.held = [c \in Cells |-> 0]
          /\ r.out \in Seq(CellDeltas)
          /\ Posts(CellOrder, NonZero(held[w]), held[w], r.out)
      BY <2>1, <2>4, <2>5, CellFlushFacts
    <3>2. plan \notin HeapPlans
      BY <2>5 DEF FlushesCells, HeapPlans
    <3>3. \A n \in DOMAIN r.out : r.out[n].cell \in Cells
                                  /\ r.out[n].value = held[w][r.out[n].cell]
      BY <2>4, <3>1 DEF Posts, NonZero, CellArray
    <3>4. \A n \in DOMAIN r.out : Fits(r.out[n])
      BY <2>4, <3>2, <3>3 DEF Fits
    <3>5. held' \in [Workers -> CellArray]
      BY <2>3, <2>4, <3>1 DEF CellArray
    <3>6. \A v \in Workers : plan \in {"CmTopK", "Dd"} => \A c \in Cells : held'[v][c] >= 0
      <4> SUFFICES ASSUME NEW v \in Workers, plan \in {"CmTopK", "Dd"}, NEW c \in Cells
                   PROVE  held'[v][c] >= 0
        OBVIOUS
      <4>1. held'[v] = IF v = w THEN r.held ELSE held[v]
        BY <2>3, <2>4
      <4> QED
        BY <2>4, <3>1, <4>1
    <3>7. PICK q \in Seq(CellDeltas) : q = queue[w]
      BY <2>4
    <3>8. /\ q \o r.out \in Seq(CellDeltas)
          /\ \A n \in DOMAIN (q \o r.out) :
               \/ \E m \in DOMAIN q : (q \o r.out)[n] = q[m]
               \/ \E m \in DOMAIN r.out : (q \o r.out)[n] = r.out[m]
      <4>1. PICK out \in Seq(CellDeltas) : out = r.out
        BY <3>1
      <4>2. /\ q \o out \in Seq(CellDeltas)
            /\ \A n \in DOMAIN (q \o out) : \/ \E m \in DOMAIN q : (q \o out)[n] = q[m]
                                          \/ \E m \in DOMAIN out : (q \o out)[n] = out[m]
        BY Appended
      <4> QED
        BY <4>1, <4>2
    <3>9. \A v \in Workers : queue'[v] = IF v = w THEN q \o r.out ELSE queue[v]
      BY <2>3, <2>4, <3>7
    <3>10. queue' \in [Workers -> Seq(CellDeltas)]
      BY <2>3, <2>4, <3>7, <3>8
    <3>11. \A n \in DOMAIN (q \o r.out) : Fits((q \o r.out)[n])
      BY <2>4, <3>4, <3>7, <3>8
    <3>12. \A v \in Workers : \A n \in DOMAIN queue'[v] : Fits(queue'[v][n])
      BY <2>4, <3>9, <3>11
    <3>13. CellTyped'
      BY <1>1, <2>4, <3>5, <3>6, <3>10, <3>12 DEF CellTyped, Fits
    <3>14. CompleteInv'
      BY <1>1, <3>2 DEF CompleteInv, HeapPlans
    <3> QED
      BY <1>2, <1>3, <3>13, <3>14 DEF PlanInv
  <2>6. CASE ~ FlushesCells(plan)
    <3>1. r.held = held[w] /\ r.out = <<>>
      BY <2>1, <2>6 DEF CellFlush
    <3>2. queue[w] \o <<>> = queue[w]
      BY <2>4
    <3>3. held' = held /\ queue' = queue
      BY <2>3, <2>4, <3>1, <3>2
    <3>4. CellTyped'
      BY <1>1, <3>3 DEF PlanInv, CellTyped, Fits
    <3>5. NothingHeldBack => NothingHeldBack'
      BY <1>1, <3>3 DEF NothingHeldBack, Known
    <3>6. CompleteInv'
      BY <1>1, <3>5 DEF PlanInv, CompleteInv, ResidentsOf
    <3> QED
      BY <1>2, <1>3, <3>4, <3>6 DEF PlanInv
  <2> QED
    BY <2>5, <2>6
<1>5. CASE ~ CellPlan(plan)
  <2>1. CellTyped' /\ CompleteInv'
    BY <1>1, <1>5 DEF CellTyped, CompleteInv, CellPlan, HeapPlans
  <2> QED
    BY <1>2, <1>3, <2>1 DEF PlanInv
<1> QED
  BY <1>4, <1>5

LEMMA EstimateInt ==
  ASSUME Shares, NEW cells \in CellArray, NEW k \in Keys, plan \in HeapPlans,
         plan = "UnivMon" => Touched(plan, k, Followed) # {}
  PROVE  Estimate(cells, k) \in Int
<1>1. plan \in LinearPlans
  BY DEF HeapPlans, LinearPlans
<1>2. CASE plan = "CmTopK"
  <2>1. Estimate(cells, k) = ScoreOf(cells, k)
    BY <1>2 DEF Estimate, ScoreOf
  <2> QED
    BY <2>1, ScoreInt
<1>3. CASE plan = "CountTopK"
  <2>1. Estimate(cells, k) = MedianOf(plan, cells, k, 0)
    BY <1>3 DEF Estimate
  <2>2. Touched(plan, k, 0) # {}
    BY <1>3, PlansAssumption DEF PlansAssumption, TopKPlans
  <2> QED
    BY <1>1, <2>1, <2>2, MedianInt
<1>4. CASE plan = "UnivMon"
  <2>1. Estimate(cells, k) = MedianOf(plan, cells, k, Followed)
    BY <1>4 DEF Estimate
  <2> QED
    BY <1>1, <1>4, <2>1, MedianInt
<1> QED
  BY <1>2, <1>3, <1>4 DEF HeapPlans

LEMMA OfferStep ==
  ASSUME Shares, HeapInv, NEW cells \in CellArray, NEW k \in Keys, plan \in HeapPlans,
         plan = "UnivMon" => Touched(plan, k, Followed) # {}, Offer(cells, k)
  PROVE  /\ HeapInv'
         /\ Updated(heap, k, Estimate(cells, k), heap')
         /\ Estimate(cells, k) \in Int
         /\ offered' = Offered(offered, k, Estimate(cells, k))
         /\ offered' \in [Keys -> Seq(Int)]
         /\ Resting
<1>1. PICK n \in Int : n = Estimate(cells, k)
  BY EstimateInt
<1>2. Update(k, n) /\ offered' = [offered EXCEPT ![k] = <<n>>]
  BY <1>1 DEF Offer
<1>3. HeapInv' /\ Updated(heap, k, n, heap')
  BY <1>2, UpdateIs, UpdateKeeps
<1>4. offered' \in [Keys -> Seq(Int)]
  <2>1. <<n>> \in Seq(Int)
    OBVIOUS
  <2> QED
    BY <1>2, <2>1 DEF Shares
<1>5. Resting
  BY <1>2 DEF Update
<1> QED
  BY <1>1, <1>2, <1>3, <1>4, <1>5 DEF Offered

LEMMA OfferHeaviest ==
  ASSUME Shares, HeapInv, NEW cells \in CellArray, NEW k \in Keys, plan = "CmTopK",
         Offer(cells, k), NEW q \in Seq(Keys), NEW q2, Offers1(q, k, q2),
         Heaviest(heap, offered, q, cells)
  PROVE  Heaviest(heap', offered', q2, cells)
<1>1. Estimate(cells, k) = ScoreOf(cells, k)
  BY DEF Estimate, ScoreOf
<1>2. plan \in HeapPlans /\ plan # "UnivMon"
  BY DEF HeapPlans
<1>3. /\ Updated(heap, k, ScoreOf(cells, k), heap')
      /\ offered' = Offered(offered, k, ScoreOf(cells, k))
      /\ Resting
  BY <1>1, <1>2, OfferStep
<1>4. Offering(heap, offered, q, cells)
  <2>1. Ready(heap)
    BY <1>3, HeapReady
  <2>2. \A x \in Keys : ScoreOf(cells, x) \in Int
    BY ScoreInt
  <2> QED
    BY <2>1, <2>2 DEF Offering, Shares
<1>5. PICK h2, off2 : h2 = heap' /\ off2 = offered'
  OBVIOUS
<1>6. Heaviest(h2, Offered(offered, k, ScoreOf(cells, k)), q2, cells)
  BY <1>3, <1>4, <1>5, OfferKeepsHeaviest
<1> QED
  BY <1>3, <1>5, <1>6

\* What the aggregator takes from a worker of a cell plan.
LEMMA AppliedCells ==
  ASSUME Shares, CellTyped, CellPlan(plan), NEW w \in Workers, Apply(w),
         NEW d, d = Head(queue[w])
  PROVE  /\ d \in CellDeltas /\ Fits(d)
         /\ parent' = [parent EXCEPT ![d.cell] = @ + d.value]
         /\ parent' \in CellArray
         /\ queue[w] \in Seq(CellDeltas) /\ queue[w] # <<>>
         /\ CellTyped'
<1>1. /\ plan' = plan /\ held' = held
      /\ queue' = [queue EXCEPT ![w] = Tail(@)]
      /\ queue[w] # <<>>
      /\ parent' \in ParentOutcomes(d)
  BY DEF Apply, Polled
<1>2. /\ held \in [Workers -> CellArray]
      /\ parent \in CellArray
      /\ queue \in [Workers -> Seq(CellDeltas)]
      /\ \A v \in Workers :
           /\ \A n \in DOMAIN queue[v] : Fits(queue[v][n])
           /\ plan \in {"CmTopK", "Dd"} => \A c \in Cells : held[v][c] >= 0
  BY DEF CellTyped
<1>3. parent' = [parent EXCEPT ![d.cell] = @ + d.value]
  <2>1. plan # "Hll" /\ plan # "Coco" /\ plan # "Elastic"
    BY DEF CellPlan, HeapPlans
  <2>2. ParentOutcomes(d) = {AddTo(parent, d)}
    BY <2>1 DEF ParentOutcomes
  <2> QED
    BY <1>1, <2>2 DEF AddTo
<1>4. PICK q \in Seq(CellDeltas) : q = queue[w] /\ q # <<>>
  BY <1>1, <1>2
<1>5. /\ Tail(q) \in Seq(CellDeltas) /\ Head(q) \in CellDeltas
      /\ 1 \in DOMAIN q /\ Head(q) = q[1]
      /\ \A n \in DOMAIN Tail(q) : n + 1 \in DOMAIN q /\ Tail(q)[n] = q[n + 1]
  BY <1>4, Shortened
<1>6. d \in CellDeltas /\ Fits(d)
  BY <1>2, <1>4, <1>5
<1>7. parent' \in CellArray
  <2>1. d.cell \in Cells /\ d.value \in Int
    BY <1>6 DEF CellDeltas
  <2> QED
    BY <1>2, <1>3, <2>1 DEF CellArray
<1>8. \A v \in Workers : queue'[v] = IF v = w THEN Tail(q) ELSE queue[v]
  BY <1>1, <1>2, <1>4
<1>9. queue' \in [Workers -> Seq(CellDeltas)]
  BY <1>1, <1>2, <1>4, <1>5
<1>10. \A n \in DOMAIN Tail(q) : Fits(Tail(q)[n])
  BY <1>2, <1>4, <1>5
<1>11. \A v \in Workers : \A n \in DOMAIN queue'[v] : Fits(queue'[v][n])
  BY <1>2, <1>8, <1>10
<1>12. CellTyped'
  BY <1>1, <1>2, <1>7, <1>9, <1>11 DEF CellTyped, Fits
<1> QED
  BY <1>3, <1>4, <1>6, <1>7, <1>12

LEMMA AddedGrows ==
  ASSUME NEW cells \in CellArray, NEW d \in CellDeltas, d.value >= 0,
         NEW cells2, cells2 = [cells EXCEPT ![d.cell] = @ + d.value]
  PROVE  \A c \in Cells : cells[c] <= cells2[c]
<1>1. d.cell \in Cells /\ d.value \in Int
  BY DEF CellDeltas
<1>2. \A c \in Cells : cells[c] \in Int
  BY DEF CellArray
<1>3. \A c \in Cells : cells2[c] = IF c = d.cell THEN cells[c] + d.value ELSE cells[c]
  BY <1>1 DEF CellArray
<1> QED
  BY <1>1, <1>2, <1>3

LEMMA UpdateRetains ==
  ASSUME NEW h \in Seq(Entries), NEW k \in Keys, NEW n \in Int, NEW h2, Updated(h, k, n, h2),
         k \in ResidentsOf(h) \/ Len(h) < K
  PROVE  ResidentsOf(h2) = ResidentsOf(h) \cup {k}
<1>1. Len(h) \in Nat /\ K \in Nat
  BY HeapAssumption DEF HeapAssumption
<1>2. CASE Rescored(h, k, n, h2)
  <2>1. PICK i \in DOMAIN h : h[i].key = k /\ Put(h, i, Entry(k, n), h2)
    BY <1>2 DEF Rescored
  <2>2. ResidentsOf(h2) = {h[j].key : j \in DOMAIN h \ {i}} \cup {k}
    BY <2>1, PutFacts
  <2> QED
    BY <2>1, <2>2 DEF ResidentsOf
<1>3. CASE Seated(h, k, n, h2)
  BY <1>3, AppendFacts DEF Seated
<1>4. CASE TookRoot(h, k, n, h2) \/ Refused(h, k, n, h2)
  BY <1>1, <1>4 DEF TookRoot, Refused
<1> QED
  BY <1>2, <1>3, <1>4 DEF Updated

LEMMA ApplyComplete ==
  ASSUME PlanInv, NEW w \in Workers, Apply(w), plan = "UnivMon"
  PROVE  CompleteInv'
<1>1. PICK d : d = Head(queue[w])
  OBVIOUS
<1>2. /\ plan' = plan /\ held' = held /\ given' = given
      /\ queue' = [queue EXCEPT ![w] = Tail(@)]
      /\ tally' = Tallied(w, d)
      /\ unheard' = (unheard /\ ~Thresholds)
      /\ IF Offers(d) THEN Offer(parent', d.key) ELSE UNCHANGED <<heapVars, offered>>
  BY <1>1 DEF Apply
<1>3. Shares /\ CellTyped /\ HeapInv /\ CompleteInv /\ CellPlan(plan) /\ plan \in HeapPlans
  BY DEF PlanInv, CellPlan, HeapPlans
<1>4. /\ d \in CellDeltas /\ Fits(d) /\ parent' \in CellArray
      /\ queue[w] \in Seq(CellDeltas) /\ queue[w] # <<>>
  BY <1>1, <1>3, AppliedCells
<1>5. d.key \in KeysOf[plan] /\ d.key \in Keys /\ d.cell \in Cells /\ Bump[plan][d.key][d.cell] # 0
  BY <1>3, <1>4, WeightNat DEF Fits, CellDeltas
<1>6. Offers(d) <=> d.cell[1] = Followed
  BY DEF Offers, TopKPlans
<1>7. SUFFICES ASSUME tally'.complete
               PROVE  /\ \A k \in Keys : offered'[k] # <<>> => k \in ResidentsOf(heap')
                      /\ ~ unheard' => NothingHeldBack'
  BY <1>2 DEF CompleteInv
<1>8. tally.complete /\ ~ Thresholds /\ (d.cell[1] = Followed => RetainsAll(d.key))
  BY <1>2, <1>7 DEF Tallied, Refreshed
<1>9. \A k \in Keys : offered[k] # <<>> => k \in ResidentsOf(heap)
  BY <1>3, <1>8 DEF CompleteInv
<1>10. CASE d.cell[1] = Followed
  <2>1. PICK cells \in CellArray : cells = parent'
    BY <1>4
  <2>2. Offer(cells, d.key)
    BY <1>2, <1>6, <1>10, <2>1
  <2>3. Touched(plan, d.key, Followed) # {}
    BY <1>5, <1>10 DEF Touched
  <2>4. PICK n \in Int : /\ Updated(heap, d.key, n, heap')
                         /\ offered' = Offered(offered, d.key, n)
    BY <1>3, <1>5, <2>2, <2>3, OfferStep
  <2>5. d.key \in ResidentsOf(heap) \/ Len(heap) < K
    BY <1>3, <1>5, <1>8, <1>10, ResidentsFound DEF RetainsAll
  <2>6. heap \in Seq(Entries)
    BY <1>3 DEF HeapInv, Index, Shapes
  <2>7. PICK h2 : h2 = heap'
    OBVIOUS
  <2>8. ResidentsOf(h2) = ResidentsOf(heap) \cup {d.key}
    BY <1>5, <2>4, <2>5, <2>6, <2>7, UpdateRetains
  <2>9. \A k \in Keys : offered'[k] = IF k = d.key THEN <<n>> ELSE offered[k]
    BY <1>3, <1>5, <2>4 DEF Offered, Shares
  <2>10. \A k \in Keys : offered'[k] # <<>> => k \in ResidentsOf(heap')
    <3> SUFFICES ASSUME NEW k \in Keys, offered'[k] # <<>>
                 PROVE  k \in ResidentsOf(heap) \cup {d.key}
      BY <2>7, <2>8
    <3>1. k # d.key => offered[k] # <<>>
      BY <2>9
    <3> QED
      BY <1>9, <3>1
  <2>11. offered'[d.key] # <<>> /\ \A k \in Keys : offered[k] # <<>> => offered'[k] # <<>>
    <3>1. PICK one : one = <<n>> /\ one # <<>>
      <4>1. Len(<<n>>) = 1 /\ Len(<<>>) = 0
        OBVIOUS
      <4>2. <<n>> # <<>>
        BY <4>1
      <4> QED
        BY <4>2
    <3>2. \A k \in Keys : offered'[k] = IF k = d.key THEN one ELSE offered[k]
      BY <2>9, <3>1
    <3> QED
      BY <1>5, <3>1, <3>2
  <2>12. ASSUME ~ unheard'
         PROVE  NothingHeldBack'
    <3>1. NothingHeldBack
      BY <1>2, <1>3, <1>8, <2>12 DEF CompleteInv
    <3>2. ASSUME NEW k \in KeysOf[plan], Known(k)
          PROVE  Known(k)'
      <4>1. k \in Keys
        BY <1>3, WeightNat
      <4>2. CASE offered[k] # <<>>
        BY <2>11, <4>1, <4>2 DEF Known
      <4>3. CASE offered[k] = <<>>
        <5>1. PICK v \in Workers : \E m \in DOMAIN queue[v] :
                 queue[v][m].key = k /\ queue[v][m].cell[1] = Followed
          BY <3>2, <4>3 DEF Known
        <5>2. PICK m \in DOMAIN queue[v] : queue[v][m].key = k /\ queue[v][m].cell[1] = Followed
          BY <5>1
        <5>3. CASE v # w
          <6>1. queue'[v] = queue[v]
            BY <1>2, <5>1, <5>3
          <6> QED
            BY <5>2, <6>1 DEF Known
        <5>4. CASE v = w
          <6>1. PICK q \in Seq(CellDeltas) : q = queue[w] /\ q # <<>>
            BY <1>4
          <6>2. /\ Head(q) = q[1]
                /\ \A j \in DOMAIN q : j = 1 \/ (j - 1 \in DOMAIN Tail(q) /\ Tail(q)[j - 1] = q[j])
            BY <6>1, Shortened
          <6>3. CASE m = 1
            <7>1. k = d.key
              BY <1>1, <5>2, <5>4, <6>1, <6>2, <6>3
            <7> QED
              BY <2>11, <7>1 DEF Known
          <6>4. CASE m # 1
            <7>1. m - 1 \in DOMAIN Tail(q) /\ Tail(q)[m - 1] = queue[v][m]
              BY <5>2, <5>4, <6>1, <6>2, <6>4
            <7>2. queue'[w] = Tail(q)
              BY <1>2, <1>3, <6>1 DEF CellTyped
            <7> QED
              BY <5>2, <7>1, <7>2 DEF Known
          <6> QED
            BY <6>3, <6>4
        <5> QED
          BY <5>3, <5>4
      <4> QED
        BY <4>2, <4>3
    <3> QED
      BY <1>2, <3>1, <3>2 DEF NothingHeldBack
  <2> QED
    BY <2>10, <2>12
<1>11. CASE d.cell[1] # Followed
  <2>1. heap' = heap /\ offered' = offered
    BY <1>2, <1>6, <1>11 DEF heapVars
  <2>2. \A k \in Keys : offered'[k] # <<>> => k \in ResidentsOf(heap')
    BY <1>9, <2>1
  <2>3. ASSUME ~ unheard'
        PROVE  NothingHeldBack'
    <3>1. NothingHeldBack
      BY <1>2, <1>3, <1>8, <2>3 DEF CompleteInv
    <3>2. ASSUME NEW k \in KeysOf[plan], Known(k)
          PROVE  Known(k)'
      <4>1. CASE offered[k] # <<>>
        BY <2>1, <4>1 DEF Known
      <4>2. CASE offered[k] = <<>>
        <5>1. PICK v \in Workers : \E m \in DOMAIN queue[v] :
                 queue[v][m].key = k /\ queue[v][m].cell[1] = Followed
          BY <3>2, <4>2 DEF Known
        <5>2. PICK m \in DOMAIN queue[v] : queue[v][m].key = k /\ queue[v][m].cell[1] = Followed
          BY <5>1
        <5>3. CASE v # w
          <6>1. queue'[v] = queue[v]
            BY <1>2, <5>1, <5>3
          <6> QED
            BY <5>2, <6>1 DEF Known
        <5>4. CASE v = w
          <6>1. PICK q \in Seq(CellDeltas) : q = queue[w] /\ q # <<>>
            BY <1>4
          <6>2. /\ Head(q) = q[1]
                /\ \A j \in DOMAIN q : j = 1 \/ (j - 1 \in DOMAIN Tail(q) /\ Tail(q)[j - 1] = q[j])
            BY <6>1, Shortened
          <6>3. m # 1
            BY <1>1, <1>11, <5>2, <5>4, <6>1, <6>2
          <6>4. m - 1 \in DOMAIN Tail(q) /\ Tail(q)[m - 1] = queue[v][m]
            BY <5>2, <5>4, <6>1, <6>2, <6>3
          <6>5. queue'[w] = Tail(q)
            BY <1>2, <1>3, <6>1 DEF CellTyped
          <6> QED
            BY <5>2, <6>4, <6>5 DEF Known
        <5> QED
          BY <5>3, <5>4
      <4> QED
        BY <4>1, <4>2
    <3> QED
      BY <1>2, <3>1, <3>2 DEF NothingHeldBack
  <2> QED
    BY <2>2, <2>3
<1> QED
  BY <1>10, <1>11

LEMMA ApplyInv ==
  ASSUME PlanInv, NEW w \in Workers, Apply(w)
  PROVE  PlanInv'
<1>1. PICK d : d = Head(queue[w])
  OBVIOUS
<1>2. /\ plan' = plan /\ tau' = tau /\ returned' = returned /\ pending' = pending /\ given' = given
      /\ ~ returned
      /\ IF Offers(d) THEN Offer(parent', d.key) ELSE UNCHANGED <<heapVars, offered>>
  BY <1>1 DEF Apply
<1>3. Shares /\ CellTyped /\ HeapInv /\ HeaviestInv /\ pending = <<>>
  BY <1>2 DEF PlanInv, Shares
<1>4. CASE ~ CellPlan(plan)
  <2>1. plan \notin HeapPlans /\ ~ Offers(d)
    BY <1>4 DEF CellPlan, HeapPlans, Offers, TopKPlans
  <2>2. UNCHANGED heapVars /\ offered' = offered
    BY <1>2, <2>1
  <2>3. Shares' /\ HeapInv'
    BY <1>2, <1>3, <2>2, HeapUntouched DEF Shares
  <2>4. CellTyped' /\ HeaviestInv' /\ CompleteInv'
    BY <1>2, <1>4, <2>1 DEF CellTyped, HeaviestInv, CompleteInv, CellPlan, HeapPlans
  <2> QED
    BY <2>3, <2>4 DEF PlanInv
<1>5. CASE CellPlan(plan)
  <2>1. /\ d \in CellDeltas /\ Fits(d) /\ parent' \in CellArray
        /\ parent' = [parent EXCEPT ![d.cell] = @ + d.value]
        /\ CellTyped'
    BY <1>1, <1>3, <1>5, AppliedCells
  <2>2. CASE Offers(d)
    <3>1. plan \in HeapPlans
      BY <2>2 DEF Offers, TopKPlans, HeapPlans
    <3>2. d.key \in KeysOf[plan] /\ d.key \in Keys /\ d.cell \in Cells
          /\ Bump[plan][d.key][d.cell] # 0
      BY <1>3, <2>1, <3>1, WeightNat DEF Fits, CellDeltas
    <3>3. plan = "UnivMon" => Touched(plan, d.key, Followed) # {}
      BY <2>2, <3>2 DEF Offers, TopKPlans, Touched
    <3>4. PICK cells \in CellArray : cells = parent'
      BY <2>1
    <3>5. Offer(cells, d.key)
      BY <1>2, <2>2, <3>4
    <3>6. HeapInv' /\ offered' \in [Keys -> Seq(Int)]
      BY <1>3, <3>1, <3>2, <3>3, <3>5, OfferStep
    <3>7. Shares'
      BY <1>2, <1>3, <3>6 DEF Shares
    <3>8. HeaviestInv'
      <4> SUFFICES ASSUME plan = "CmTopK"
                   PROVE  Heaviest(heap', offered', pending', cells)
        BY <1>2, <3>4 DEF HeaviestInv
      <4>1. d.value >= 0 /\ parent \in CellArray
        BY <1>3, <1>5, <2>1 DEF Fits, CellTyped
      <4>2. \A c \in Cells : parent[c] <= cells[c]
        BY <2>1, <3>4, <4>1, AddedGrows
      <4>3. Heaviest(heap, offered, <<>>, cells)
        <5>1. Heaviest(heap, offered, <<>>, parent)
          BY <1>3 DEF HeaviestInv
        <5>2. <<>> \in Seq(Keys) /\ offered \in [Keys -> Seq(Int)]
          BY <1>3 DEF Shares
        <5> QED
          BY <4>1, <4>2, <5>1, <5>2, GrowthKeepsHeaviest
      <4>4. Offers1(<<>>, d.key, <<>>) /\ <<>> \in Seq(Keys)
        BY DEF Offers1
      <4>5. Heaviest(heap', offered', <<>>, cells)
        BY <1>3, <3>2, <3>5, <4>3, <4>4, OfferHeaviest
      <4> QED
        BY <1>2, <1>3, <4>5
    <3>9. CompleteInv'
      <4>1. CASE plan = "UnivMon"
        BY <4>1, ApplyComplete
      <4>2. CASE plan # "UnivMon"
        BY <1>2, <4>2 DEF CompleteInv
      <4> QED
        BY <4>1, <4>2
    <3> QED
      BY <2>1, <3>6, <3>7, <3>8, <3>9 DEF PlanInv
  <2>3. CASE ~ Offers(d)
    <3>1. UNCHANGED heapVars /\ offered' = offered /\ plan # "CmTopK"
      BY <1>2, <2>3 DEF Offers, TopKPlans
    <3>2. Shares' /\ HeapInv' /\ HeaviestInv'
      BY <1>2, <1>3, <3>1, HeapUntouched DEF Shares, HeaviestInv
    <3>3. CompleteInv'
      <4>1. CASE plan = "UnivMon"
        BY <4>1, ApplyComplete
      <4>2. CASE plan # "UnivMon"
        BY <1>2, <4>2 DEF CompleteInv
      <4> QED
        BY <4>1, <4>2
    <3> QED
      BY <2>1, <3>2, <3>3 DEF PlanInv
  <2> QED
    BY <2>2, <2>3
<1> QED
  BY <1>4, <1>5

LEMMA SiftInv ==
  ASSUME PlanInv, SiftStep
  PROVE  PlanInv'
<1>1. /\ UNCHANGED <<plan, held, queue, turn, parent, tally, given, tau, moves, returned,
                     pending, calls, unheard, offered>>
      /\ Sift
  BY DEF SiftStep, streamVars
<1>2. HeapInv' /\ Shuffled(heap, heap')
  BY <1>1, SiftShuffles DEF PlanInv
<1>3. PICK h2 : h2 = heap'
  OBVIOUS
<1>4. HeaviestInv'
  <2> SUFFICES ASSUME plan = "CmTopK"
               PROVE  Heaviest(h2, offered, pending, parent)
    BY <1>1, <1>3 DEF HeaviestInv
  <2>1. Heaviest(heap, offered, pending, parent)
    BY DEF PlanInv, HeaviestInv
  <2> QED
    BY <1>2, <1>3, <2>1, ShuffleKeepsHeaviest
<1>5. CompleteInv'
  <2>1. ResidentsOf(h2) = ResidentsOf(heap)
    BY <1>2, <1>3, ShuffleFacts
  <2>2. NothingHeldBack' <=> NothingHeldBack
    BY <1>1 DEF NothingHeldBack, Known
  <2> QED
    BY <1>1, <1>3, <2>1, <2>2 DEF PlanInv, CompleteInv
<1>6. Shares' /\ CellTyped'
  BY <1>1 DEF PlanInv, Shares, CellTyped, Fits
<1> QED
  BY <1>2, <1>4, <1>5, <1>6 DEF PlanInv

LEMMA AdjustInv ==
  ASSUME PlanInv, Adjust
  PROVE  PlanInv'
<1>1. /\ UNCHANGED <<plan, held, queue, turn, parent, tally, given, returned,
                     pending, calls, unheard, offered>>
      /\ UNCHANGED heapVars /\ heap' = heap
      /\ tau' \in TauRange[plan]
  BY DEF Adjust, streamVars, heapVars
<1>2. tau' \in Nat \ {0}
  BY <1>1, PlansAssumption DEF PlansAssumption, PlanInv, Shares
<1>3. HeapInv' /\ HeaviestInv'
  BY <1>1, HeapUntouched DEF PlanInv, HeaviestInv
<1>4. CompleteInv'
  <2>1. NothingHeldBack' <=> NothingHeldBack
    BY <1>1 DEF NothingHeldBack, Known
  <2> QED
    BY <1>1, <2>1 DEF PlanInv, CompleteInv, ResidentsOf
<1>5. Shares' /\ CellTyped'
  BY <1>1, <1>2 DEF PlanInv, Shares, CellTyped, Fits
<1> QED
  BY <1>3, <1>4, <1>5 DEF PlanInv

LEMMA FinishInv ==
  ASSUME PlanInv, Finish
  PROVE  PlanInv'
<1>1. /\ UNCHANGED <<plan, held, queue, turn, parent, tally, given, tau,
                     pending, calls, unheard, offered>>
      /\ UNCHANGED heapVars /\ heap' = heap
      /\ returned' = TRUE /\ plan \in TopKPlans
  BY DEF Finish, streamVars, heapVars
<1>2. HeapInv' /\ HeaviestInv'
  BY <1>1, HeapUntouched DEF PlanInv, HeaviestInv
<1>3. CompleteInv'
  BY <1>1 DEF CompleteInv, TopKPlans
<1>4. Shares' /\ CellTyped'
  BY <1>1 DEF PlanInv, Shares, CellTyped, Fits
<1> QED
  BY <1>2, <1>3, <1>4 DEF PlanInv

\* Before a call.
LEMMA CallFacts ==
  ASSUME PlanInv, Call
  PROVE  /\ UNCHANGED <<plan, tau, held, queue, tally, returned, given, unheard>>
         /\ plan \in TopKPlans /\ plan \in HeapPlans /\ plan \in LinearPlans /\ CellPlan(plan)
         /\ pending = <<>> /\ Resting /\ returned
         /\ held \in [Workers -> CellArray] /\ parent \in CellArray
         /\ KeysOf[plan] \subseteq Keys
<1>1. UNCHANGED <<plan, tau, held, queue, tally, returned, given, unheard>>
  BY DEF Call
<1>2. pending = <<>> /\ Resting /\ returned
  BY DEF Call
<1>3. plan \in TopKPlans
  BY <1>2 DEF PlanInv, Shares
<1>4. plan \in HeapPlans /\ plan \in LinearPlans /\ CellPlan(plan)
  BY <1>3 DEF TopKPlans, HeapPlans, LinearPlans, CellPlan
<1>5. held \in [Workers -> CellArray] /\ parent \in CellArray
  BY <1>4 DEF PlanInv, CellTyped
<1>6. KeysOf[plan] \subseteq Keys
  BY PlansAssumption DEF PlansAssumption, PlanInv, Shares
<1> QED
  BY <1>1, <1>2, <1>3, <1>4, <1>5, <1>6

LEMMA BumpedParent ==
  ASSUME Shares, plan \in TopKPlans, NEW cells \in CellArray, NEW k \in Keys,
         NEW cells2, cells2 = Bumped(cells, Bump[plan][k])
  PROVE  /\ cells2 \in CellArray
         /\ plan = "CmTopK" => \A c \in Cells : cells[c] <= cells2[c]
<1>1. plan \in LinearPlans
  BY DEF TopKPlans, LinearPlans
<1>2. /\ Bump[plan][k] \in [Cells -> {-1, 0, 1}]
      /\ plan \in {"CmTopK", "Dd"} => Bump[plan][k] \in [Cells -> {0, 1}]
  BY <1>1, BumpFacts
<1>3. cells2 = [c \in Cells |-> cells[c] + Bump[plan][k][c]]
  BY DEF Bumped, CellArray
<1>4. \A c \in Cells : cells[c] \in Int /\ Bump[plan][k][c] \in {-1, 0, 1}
  BY <1>2 DEF CellArray
<1>5. \A c \in Cells : cells[c] + Bump[plan][k][c] \in Int
  BY <1>4
<1>6. cells2 \in CellArray
  BY <1>3, <1>5 DEF CellArray
<1>7. ASSUME plan = "CmTopK", NEW c \in Cells
      PROVE  cells[c] <= cells2[c]
  <2>1. Bump[plan][k][c] \in {0, 1}
    BY <1>2, <1>7
  <2> QED
    BY <1>3, <1>4, <2>1
<1> QED
  BY <1>6, <1>7

LEMMA NoUniv ==
  ASSUME plan' = plan, plan \in TopKPlans
  PROVE  CompleteInv'
BY DEF CompleteInv, TopKPlans

LEMMA CallTyped ==
  ASSUME PlanInv, Call, parent' \in CellArray
  PROVE  CellTyped'
<1>1. UNCHANGED <<plan, held, queue>>
  BY DEF Call
<1> QED
  BY <1>1 DEF PlanInv, CellTyped, Fits

LEMMA InsertInv ==
  ASSUME PlanInv, NEW k \in KeysOf[plan], InsertTopK(k)
  PROVE  PlanInv'
<1>1. Call /\ parent' = Bumped(parent, Bump[plan][k]) /\ Offer(parent', k) /\ pending' = pending
  BY DEF InsertTopK
<1>2. /\ UNCHANGED <<plan, tau, held, queue, tally, returned, given, unheard>>
      /\ plan \in TopKPlans /\ plan \in HeapPlans /\ plan # "UnivMon"
      /\ pending = <<>> /\ parent \in CellArray /\ k \in Keys
      /\ Shares /\ HeapInv /\ HeaviestInv
  BY <1>1, CallFacts DEF PlanInv, TopKPlans
<1>3. PICK cells : cells = parent'
  OBVIOUS
<1>4. /\ cells \in CellArray
      /\ plan = "CmTopK" => \A c \in Cells : parent[c] <= cells[c]
  BY <1>1, <1>2, <1>3, BumpedParent
<1>5. Offer(cells, k)
  BY <1>1, <1>3
<1>6. HeapInv' /\ offered' \in [Keys -> Seq(Int)]
  BY <1>2, <1>4, <1>5, OfferStep
<1>7. Shares'
  BY <1>1, <1>2, <1>6 DEF Shares
<1>8. HeaviestInv'
  <2> SUFFICES ASSUME plan = "CmTopK"
               PROVE  Heaviest(heap', offered', <<>>, cells)
    BY <1>1, <1>2, <1>3 DEF HeaviestInv
  <2>1. Heaviest(heap, offered, <<>>, parent) /\ <<>> \in Seq(Keys)
        /\ offered \in [Keys -> Seq(Int)]
    BY <1>2 DEF HeaviestInv, Shares
  <2>2. Heaviest(heap, offered, <<>>, cells)
    BY <1>2, <1>4, <2>1, GrowthKeepsHeaviest
  <2>3. Offers1(<<>>, k, <<>>)
    BY DEF Offers1
  <2> QED
    BY <1>2, <1>4, <1>5, <2>1, <2>2, <2>3, OfferHeaviest
<1>9. CellTyped' /\ CompleteInv'
  BY <1>1, <1>2, <1>3, <1>4, CallTyped, NoUniv
<1> QED
  BY <1>6, <1>7, <1>8, <1>9 DEF PlanInv

LEMMA ClearHeapInv ==
  ASSUME PlanInv, ClearHeap
  PROVE  PlanInv'
<1>1. Call /\ Clear /\ offered' = [k \in Keys |-> <<>>] /\ parent' = parent /\ pending' = pending
  BY DEF ClearHeap
<1>2. /\ UNCHANGED <<plan, tau, held, queue, tally, returned, given, unheard>>
      /\ plan \in TopKPlans /\ pending = <<>> /\ parent \in CellArray
      /\ Shares /\ HeapInv
  BY <1>1, CallFacts DEF PlanInv
<1>3. HeapInv' /\ heap' = <<>>
  BY <1>1, <1>2, HeapStepInv DEF HeapNext, Clear
<1>4. offered' \in [Keys -> Seq(Int)]
  <2>1. <<>> \in Seq(Int)
    OBVIOUS
  <2> QED
    BY <1>1, <2>1
<1>5. Shares'
  BY <1>1, <1>2, <1>4 DEF Shares
<1>6. HeaviestInv'
  <2>1. PICK off : off = offered'
    OBVIOUS
  <2>2. Heaviest(<<>>, off, <<>>, parent)
    BY <1>1, <2>1, ClearedIsHeaviest
  <2> QED
    BY <1>1, <1>2, <1>3, <2>1, <2>2 DEF HeaviestInv
<1>7. CellTyped' /\ CompleteInv'
  BY <1>1, <1>2, CallTyped, NoUniv
<1> QED
  BY <1>3, <1>5, <1>6, <1>7 DEF PlanInv

LEMMA ReloadInv ==
  ASSUME PlanInv, ReloadTopK
  PROVE  PlanInv'
<1>1. Call /\ Reload /\ offered' = offered /\ parent' = parent /\ pending' = pending
  BY DEF ReloadTopK
<1>2. /\ UNCHANGED <<plan, tau, held, queue, tally, returned, given, unheard>>
      /\ plan \in TopKPlans /\ parent \in CellArray
      /\ Shares /\ HeapInv /\ HeaviestInv
  BY <1>1, CallFacts DEF PlanInv
<1>3. HeapInv' /\ heap' = heap
  BY <1>1, <1>2, HeapStepInv DEF HeapNext, Reload
<1>4. Shares' /\ HeaviestInv'
  BY <1>1, <1>2, <1>3 DEF Shares, HeaviestInv
<1>5. CellTyped' /\ CompleteInv'
  BY <1>1, <1>2, CallTyped, NoUniv
<1> QED
  BY <1>3, <1>4, <1>5 DEF PlanInv

LEMMA MergeInv ==
  ASSUME PlanInv, NEW k \in KeysOf[plan], Merge(k)
  PROVE  PlanInv'
<1>1. /\ Call /\ Clear /\ offered' = offered
      /\ parent' = Bumped(parent, Bump[plan][k])
      /\ pending' = [i \in Places |-> heap[i].key] \o <<k>>
  BY DEF Merge
<1>2. /\ UNCHANGED <<plan, tau, held, queue, tally, returned, given, unheard>>
      /\ plan \in TopKPlans /\ pending = <<>> /\ parent \in CellArray /\ k \in Keys /\ returned
      /\ Shares /\ HeapInv /\ HeaviestInv
  BY <1>1, CallFacts DEF PlanInv
<1>3. HeapInv' /\ heap' = <<>>
  BY <1>1, <1>2, HeapStepInv DEF HeapNext, Clear
<1>4. heap \in Seq(Entries) /\ Distinct(heap) /\ Len(heap) <= K /\ DOMAIN heap = Places
  BY <1>2 DEF HeapInv, Index, Shapes, KeysOnce, Distinct, Places
<1>5. pending' = Requeued(heap, k)
  BY <1>1, <1>4 DEF Requeued
<1>6. pending' \in Seq(Keys)
  BY <1>2, <1>4, <1>5, RequeuedFacts
<1>7. Shares'
  BY <1>1, <1>2, <1>6 DEF Shares
<1>8. PICK cells : cells = parent'
  OBVIOUS
<1>9. /\ cells \in CellArray
      /\ plan = "CmTopK" => \A c \in Cells : parent[c] <= cells[c]
  BY <1>1, <1>2, <1>8, BumpedParent
<1>10. HeaviestInv'
  <2> SUFFICES ASSUME plan = "CmTopK"
               PROVE  Heaviest(<<>>, offered, Requeued(heap, k), cells)
    BY <1>1, <1>2, <1>3, <1>5, <1>8 DEF HeaviestInv
  <2>1. Heaviest(heap, offered, <<>>, parent) /\ <<>> \in Seq(Keys)
        /\ offered \in [Keys -> Seq(Int)]
    BY <1>2 DEF HeaviestInv, Shares
  <2>2. Heaviest(heap, offered, <<>>, cells)
    BY <1>2, <1>9, <2>1, GrowthKeepsHeaviest
  <2> QED
    BY <1>2, <1>4, <1>9, <2>1, <2>2, MergeKeepsHeaviest
<1>11. CellTyped' /\ CompleteInv'
  BY <1>1, <1>2, <1>8, <1>9, CallTyped, NoUniv
<1> QED
  BY <1>3, <1>7, <1>10, <1>11 DEF PlanInv

LEMMA OfferPendingInv ==
  ASSUME PlanInv, OfferPending
  PROVE  PlanInv'
<1>1. /\ pending # <<>> /\ Offer(parent, Head(pending)) /\ pending' = Tail(pending)
      /\ UNCHANGED <<plan, held, queue, turn, parent, tally, given, tau, moves, returned, calls,
                     unheard>>
  BY DEF OfferPending, streamVars
<1>2. Shares /\ HeapInv /\ HeaviestInv /\ pending \in Seq(Keys) /\ plan \in TopKPlans /\ returned
  BY <1>1 DEF PlanInv, Shares
<1>3. plan \in HeapPlans /\ plan # "UnivMon" /\ CellPlan(plan)
  BY <1>2 DEF TopKPlans, HeapPlans, CellPlan
<1>4. parent \in CellArray
  BY <1>3 DEF PlanInv, CellTyped
<1>5. PICK k \in Keys : k = Head(pending)
  BY <1>1, <1>2
<1>6. PICK q2 : q2 = Tail(pending)
  OBVIOUS
<1>7. Offers1(pending, k, q2) /\ q2 \in Seq(Keys)
  BY <1>1, <1>2, <1>5, <1>6 DEF Offers1
<1>8. HeapInv' /\ offered' \in [Keys -> Seq(Int)]
  BY <1>1, <1>2, <1>3, <1>4, <1>5, OfferStep
<1>9. Shares'
  BY <1>1, <1>2, <1>6, <1>7, <1>8 DEF Shares
<1>10. HeaviestInv'
  <2> SUFFICES ASSUME plan = "CmTopK"
               PROVE  Heaviest(heap', offered', q2, parent)
    BY <1>1, <1>6 DEF HeaviestInv
  <2>1. Heaviest(heap, offered, pending, parent)
    BY <1>2 DEF HeaviestInv
  <2> QED
    BY <1>1, <1>2, <1>4, <1>5, <1>7, <2>1, OfferHeaviest
<1>11. CellTyped'
  BY <1>1 DEF PlanInv, CellTyped, Fits
<1>12. CompleteInv'
  BY <1>1, <1>2, NoUniv
<1> QED
  BY <1>8, <1>9, <1>10, <1>11, <1>12 DEF PlanInv

LEMMA NoCellsFacts ==
  NoCells \in CellArray /\ \A c \in Cells : NoCells[c] = 0
BY DEF NoCells, CellArray

LEMMA PlanInitInv == Init => PlanInv
<1> SUFFICES ASSUME Init
             PROVE  PlanInv
  OBVIOUS
<1>1. /\ plan \in Plans /\ tau \in TauRange[plan]
      /\ held = [w \in Workers |-> Fresh(plan)]
      /\ queue = [w \in Workers |-> <<>>]
      /\ parent = Fresh(plan)
      /\ returned = FALSE /\ pending = <<>>
      /\ given = [w \in Workers |-> [k \in KeysOf[plan] |-> 0]]
      /\ offered = [k \in Keys |-> <<>>]
      /\ HeapInit
  BY DEF Init
<1>2. HeapInv /\ heap = <<>>
  BY <1>1, HeapInitInv DEF HeapInit
<1>3. Shares
  <2>1. tau \in Nat \ {0}
    BY <1>1, PlansAssumption DEF PlansAssumption
  <2>2. offered \in [Keys -> Seq(Int)] /\ pending \in Seq(Keys)
    <3>1. <<>> \in Seq(Int) /\ <<>> \in Seq(Keys)
      OBVIOUS
    <3> QED
      BY <1>1, <3>1
  <2>3. given \in [Workers -> [KeysOf[plan] -> Nat]]
    BY <1>1
  <2> QED
    BY <1>1, <2>1, <2>2, <2>3 DEF Shares
<1>4. CellTyped
  <2> SUFFICES ASSUME CellPlan(plan)
               PROVE  /\ held \in [Workers -> CellArray]
                      /\ parent \in CellArray
                      /\ queue \in [Workers -> Seq(CellDeltas)]
                      /\ \A w \in Workers :
                           /\ \A n \in DOMAIN queue[w] : Fits(queue[w][n])
                           /\ plan \in {"CmTopK", "Dd"} => \A c \in Cells : held[w][c] >= 0
    BY DEF CellTyped
  <2>1. Fresh(plan) = NoCells
    <3>1. plan # "Hll" /\ plan # "Coco" /\ plan # "Elastic"
      BY DEF CellPlan, HeapPlans
    <3> QED
      BY <3>1 DEF Fresh
  <2>2. held \in [Workers -> CellArray] /\ parent \in CellArray
    BY <1>1, <2>1, NoCellsFacts
  <2>3. queue \in [Workers -> Seq(CellDeltas)] /\ \A w \in Workers : DOMAIN queue[w] = {}
    BY <1>1
  <2>4. \A w \in Workers : \A c \in Cells : held[w][c] >= 0
    BY <1>1, <2>1, NoCellsFacts
  <2> QED
    BY <2>2, <2>3, <2>4
<1>5. HeaviestInv
  BY <1>1, <1>2, ClearedIsHeaviest DEF HeaviestInv
<1>6. CompleteInv
  <2>1. \A k \in Keys : offered[k] = <<>>
    BY <1>1
  <2>2. plan = "UnivMon" => NothingHeldBack
    <3> SUFFICES ASSUME plan = "UnivMon"
                 PROVE  NothingHeldBack
      OBVIOUS
    <3>1. Fresh(plan) = NoCells
      BY DEF Fresh, CellPlan, HeapPlans
    <3>2. \A w \in Workers, c \in Cells : held[w][c] = 0
      BY <1>1, <3>1, NoCellsFacts
    <3>3. \A k \in KeysOf[plan], w \in Workers : given[w][k] = 0
      BY <1>1
    <3>4. \A k \in KeysOf[plan] : ~ \E w \in Workers : given[w][k] > 0
      BY <3>3
    <3> QED
      BY <3>2, <3>4 DEF NothingHeldBack
  <2> QED
    BY <2>1, <2>2 DEF CompleteInv
<1> QED
  BY <1>2, <1>3, <1>4, <1>5, <1>6 DEF PlanInv

LEMMA PlanStutter ==
  ASSUME PlanInv, UNCHANGED vars
  PROVE  PlanInv'
<1>1. /\ UNCHANGED <<plan, held, queue, parent, tally, given, tau, returned, pending,
                     unheard, offered>>
      /\ UNCHANGED heapVars /\ heap' = heap
  BY DEF vars, heapVars
<1>2. HeapInv' /\ HeaviestInv'
  BY <1>1, HeapUntouched DEF PlanInv, HeaviestInv
<1>3. CompleteInv'
  <2>1. NothingHeldBack' <=> NothingHeldBack
    BY <1>1 DEF NothingHeldBack, Known
  <2> QED
    BY <1>1, <2>1 DEF PlanInv, CompleteInv, ResidentsOf
<1>4. Shares' /\ CellTyped'
  BY <1>1 DEF PlanInv, Shares, CellTyped, Fits
<1> QED
  BY <1>2, <1>3, <1>4 DEF PlanInv

LEMMA PlanStepInv == PlanInv /\ [Next]_vars => PlanInv'
<1> SUFFICES ASSUME PlanInv, [Next]_vars
             PROVE  PlanInv'
  OBVIOUS
<1>1. ASSUME NEW w \in Workers, NEW k \in KeysOf[plan], Process(w, k)
      PROVE  PlanInv'
  BY <1>1, ProcessInv
<1>2. ASSUME NEW w \in Workers, Flush(w)
      PROVE  PlanInv'
  BY <1>2, FlushInv
<1>3. ASSUME NEW w \in Workers, Apply(w)
      PROVE  PlanInv'
  BY <1>3, ApplyInv
<1>4. CASE Adjust
  BY <1>4, AdjustInv
<1>5. CASE SiftStep
  BY <1>5, SiftInv
<1>6. CASE Finish
  BY <1>6, FinishInv
<1>7. ASSUME NEW k \in KeysOf[plan], InsertTopK(k)
      PROVE  PlanInv'
  BY <1>7, InsertInv
<1>8. ASSUME NEW k \in KeysOf[plan], Merge(k)
      PROVE  PlanInv'
  BY <1>8, MergeInv
<1>9. CASE ClearHeap
  BY <1>9, ClearHeapInv
<1>10. CASE ReloadTopK
  BY <1>10, ReloadInv
<1>11. CASE OfferPending
  BY <1>11, OfferPendingInv
<1>12. CASE UNCHANGED vars
  BY <1>12, PlanStutter
<1> QED
  BY <1>1, <1>2, <1>3, <1>4, <1>5, <1>6, <1>7, <1>8, <1>9, <1>10, <1>11, <1>12 DEF Next

\* In every behaviour of a stream and of the calls that follow it: the types
\* of the counters and deltas, the heap's invariant, which keys a Count-Min
\* heap keeps, and what a complete layer of UnivMon has been offered.
THEOREM PlanInvariant == Spec => []PlanInv
<1>1. Init => PlanInv
  BY PlanInitInv
<1>2. PlanInv /\ [Next]_vars => PlanInv'
  BY PlanStepInv
<1> QED
  BY <1>1, <1>2, PTL DEF Spec

\* The heap of a top-k or UnivMon parent is sound in the stream, whatever
\* order the workers' deltas reach it in, and under the caller's inserts,
\* clears, merges and round trips.
THEOREM PlanHeapSound == Spec => []HeapSound
<1>1. PlanInv => HeapSound
  BY HeapInvSound DEF PlanInv
<1> QED
  BY <1>1, PlanInvariant, PTL

\* No key that was turned away or displaced had more than any key that is
\* kept, and each kept key has the count it was last offered with.
THEOREM HeaviestAreKept == Spec => []HeaviestKept
<1>1. PlanInv => HeaviestKept
  <2> SUFFICES ASSUME PlanInv, plan = "CmTopK", Resting, pending = <<>>,
                      NEW k \in Keys, offered[k] # <<>>
               PROVE  IF Matches(k) # {}
                      THEN \A i \in Matches(k) : heap[i].count = offered[k][1]
                      ELSE /\ Len(heap) = K
                           /\ \A i \in Places : offered[k][1] <= heap[i].count
    BY DEF HeaviestKept
  <2>1. HeapInv /\ Heaviest(heap, offered, <<>>, parent)
    BY DEF PlanInv, HeaviestInv
  <2>2. /\ Matches(k) # {} <=> k \in ResidentsOf(heap)
        /\ Matches(k) = {i \in Places : heap[i].key = k}
        /\ DOMAIN heap = Places
    BY <2>1, ResidentsFound
  <2>3. CASE Matches(k) # {}
    <3>1. \A i \in Matches(k) : offered[k] = <<heap[i].count>>
      BY <2>1, <2>2 DEF Heaviest, Scored
    <3>2. \A i \in Matches(k) : heap[i].count = offered[k][1]
      BY <3>1
    <3> QED
      BY <2>3, <3>2
  <2>4. CASE Matches(k) = {}
    <3>1. DOMAIN <<>> = {} /\ Len(<<>>) = 0
      OBVIOUS
    <3>2. ToSet(<<>>) = {} /\ FrontOf(<<>>) = {}
      BY <3>1 DEF ToSet, FrontOf
    <3>3. Passed(heap, offered, <<>>, k)
      BY <2>2, <2>4, <3>2 DEF Passed
    <3>4. Outranked(heap, offered, <<>>, parent, k)
      BY <2>1, <3>3 DEF Heaviest
    <3>5. heap \in Seq(Entries) /\ Distinct(heap) /\ Len(heap) <= K
      BY <2>1, <2>2 DEF HeapInv, Index, Shapes, KeysOnce, Distinct
    <3>6. ResidentsOf(heap) \cup FrontOf(<<>>) = ResidentsOf(heap)
          /\ Cardinality(ResidentsOf(heap)) = Len(heap)
      BY <3>2, <3>5, ResidentsCount
    <3>7. Len(heap) = K
      <4>1. Len(heap) \in Nat /\ K \in Nat
        BY <3>5, HeapAssumption DEF HeapAssumption
      <4>2. Cardinality(ResidentsOf(heap) \cup FrontOf(<<>>)) >= K
        BY <3>4 DEF Outranked
      <4>3. Len(heap) >= K
        BY <3>6, <4>2
      <4> QED
        BY <3>5, <4>1, <4>3
    <3> QED
      BY <2>2, <2>4, <3>4, <3>7 DEF Outranked
  <2> QED
    BY <2>3, <2>4
<1> QED
  BY <1>1, PlanInvariant, PTL

\* A layer of UnivMon that calls its candidates complete has every key it was
\* sent in its heap, and once all is applied every key it was given, unless
\* tau rose and no delta told the aggregator.
THEOREM CompleteMeansAllCorrect == Spec => []CompleteMeansAll
<1>1. PlanInv => CompleteMeansAll
  <2> SUFFICES ASSUME PlanInv, plan = "UnivMon", tally.complete, NEW k \in KeysOf[plan]
               PROVE  /\ offered[k] # <<>> => Matches(k) # {}
                      /\ /\ Drained
                         /\ ~ unheard
                         /\ Touched(plan, k, Followed) # {}
                         /\ Given(k) > 0
                         => Matches(k) # {}
    BY DEF CompleteMeansAll
  <2>1. Shares /\ HeapInv /\ CompleteInv /\ k \in Keys /\ IsFiniteSet(Workers)
    BY WeightNat, PlansAssumption DEF PlanInv, PlansAssumption, Shares
  <2>2. offered[k] # <<>> => Matches(k) # {}
    BY <2>1, ResidentsFound DEF CompleteInv
  <2>3. ASSUME Drained, ~ unheard, Touched(plan, k, Followed) # {}, Given(k) > 0
        PROVE  Matches(k) # {}
    <3>1. NothingHeldBack
      BY <2>1, <2>3 DEF CompleteInv
    <3>2. PICK f : f = [w \in Workers |-> given[w][k]]
      OBVIOUS
    <3>3. f \in [Workers -> Int] /\ \A w \in Workers : given[w][k] \in Nat
      BY <2>1, <3>2 DEF Shares
    <3>4. SumOf(f) > 0
      BY <2>3, <3>2 DEF Given, SumOver, SumOf
    <3>5. ~ \A w \in Workers : f[w] = 0
      <4>1. ASSUME \A w \in Workers : f[w] = 0
            PROVE  SumOf(f) = 0
        BY <2>1, <3>3, <4>1, IntSumOfNothing
      <4> QED
        BY <3>4, <4>1
    <3>6. PICK w \in Workers : given[w][k] > 0
      BY <3>2, <3>3, <3>5
    <3>7. Known(k)
      BY <2>3, <3>1, <3>6 DEF NothingHeldBack
    <3>8. \A v \in Workers : DOMAIN queue[v] = {}
      BY <2>3 DEF Drained
    <3>9. offered[k] # <<>>
      BY <3>7, <3>8 DEF Known
    <3> QED
      BY <2>2, <3>9
  <2> QED
    BY <2>2, <2>3
<1> QED
  BY <1>1, PlanInvariant, PTL

(***************************************************************************)
(* What a visit posts of a cell.                                           *)
(***************************************************************************)
\* A visit has at most one post of a cell.
LEMMA OnWayPosted ==
  ASSUME NEW order, NEW picked, NEW cells, NEW posts, Posts(order, picked, cells, posts),
         NEW S, \A d \in S : d.value \in Int, posts \in Seq(S), NEW D, NEW c,
         \A i \in DOMAIN posts : posts[i] \in D <=> posts[i].cell = c
  PROVE  OnWay(posts, D) = IF c \in picked THEN cells[c] ELSE 0
<1>1. CASE c \notin picked
  <2>1. \A i \in DOMAIN posts : posts[i] \notin D
    BY <1>1 DEF Posts
  <2> QED
    BY <1>1, <2>1, OnWayOfNone
<1>2. CASE c \in picked
  <2>1. PICK i \in DOMAIN posts : posts[i].cell = c
    BY <1>2 DEF Posts
  <2>2. posts[i].value = cells[c]
    BY <2>1 DEF Posts
  <2>3. PICK T : T = At(posts, D)
    OBVIOUS
  <2>4. PICK f : f = [j \in T |-> posts[j].value]
    OBVIOUS
  <2>5. IsFiniteSet(T) /\ f \in [T -> Int]
    BY <2>3, <2>4, AtFacts
  <2>6. T = {i}
    <3>1. i \in T
      BY <2>1, <2>3 DEF At
    <3>2. \A j \in T : j = i
      BY <2>1, <2>3 DEF At, Posts
    <3> QED
      BY <3>1, <3>2
  <2>7. SumOf(f) = f[i]
    BY <2>5, <2>6, IntSumOfOne
  <2>8. f[i] = cells[c]
    BY <2>2, <2>4, <2>6
  <2> QED
    BY <1>2, <2>3, <2>4, <2>7, <2>8 DEF OnWay
<1> QED
  BY <1>1, <1>2

(***************************************************************************)
(* What the properties say, in these sums.                                 *)
(***************************************************************************)
LEMMA SumOverIs ==
  ASSUME NEW f
  PROVE  SumOver(f) = SumOf(f)
BY DEF SumOver, SumOf

LEMMA CellsInFlight ==
  ASSUME NEW w, queue[w] \in Seq(CellDeltas), NEW c
  PROVE  InFlight(w, LAMBDA d : d.cell = c) = OnWay(queue[w], CellWay(c))
<1>1. \A i \in DOMAIN queue[w] : queue[w][i] \in CellDeltas
  OBVIOUS
<1>2. {i \in DOMAIN queue[w] : queue[w][i].cell = c} = At(queue[w], CellWay(c))
  BY <1>1 DEF At, CellWay
<1>3. InFlight(w, LAMBDA d : d.cell = c)
      = SumOver([i \in At(queue[w], CellWay(c)) |-> queue[w][i].value])
  BY <1>2 DEF InFlight, Sum
<1> QED
  BY <1>3, SumOverIs DEF OnWay

(***************************************************************************)
(* A balance: what was given is in the parent, held back or on the way.    *)
(* to, mass and back are sums of one kind of mass, and the deltas in D     *)
(* carry it.                                                               *)
(***************************************************************************)
OffWorker(w, f, g) ==
  /\ w \in Workers /\ f \in [Workers -> Int] /\ g \in [Workers -> Int]
  /\ \A v \in Workers : v # w => g[v] = f[v]

Carry(S, q) == q \in [Workers -> Seq(S)] /\ \A d \in S : d.value \in Int
Amounts(f) == f \in [Workers -> Int]
Totals(f, back, q, D) ==
  Amounts(f) /\ \A w \in Workers : f[w] = back[w] + OnWay(q[w], D)

LEMMA WorkersFinite == IsFiniteSet(Workers)
BY PlansAssumption DEF PlansAssumption

LEMMA ApartFacts ==
  ASSUME NEW S, NEW q, Carry(S, q), NEW back, Amounts(back), NEW D
  PROVE  /\ Totals(Apart(back, q, D), back, q, D)
         /\ \A w \in Workers : OnWay(q[w], D) \in Int
<1>1. \A w \in Workers : OnWay(q[w], D) \in Int
  BY AtFacts DEF Carry
<1>2. \A w \in Workers : back[w] \in Int
  BY DEF Amounts
<1> QED
  BY <1>1, <1>2 DEF Apart, Totals, Amounts

LEMMA OffWorkerSum ==
  ASSUME NEW w, NEW f, NEW g, OffWorker(w, f, g)
  PROVE  /\ SumOf(g) = SumOf(f) + (g[w] - f[w])
         /\ SumOf(f) \in Int /\ f[w] \in Int /\ g[w] \in Int
<1>1. ChangesAt(w, Workers, f, g)
  BY WorkersFinite DEF OffWorker, ChangesAt
<1>2. SumOf(f) \in Int
  BY WorkersFinite, IntSumFacts DEF OffWorker
<1> QED
  BY <1>1, <1>2, IntSumChanged DEF OffWorker

\* What comes to w changes as the parent's mass and w's own part do.
Evens(w, to, to2, mass, mass2, back, back2, q, q2, D) ==
  /\ \A v \in Workers : v # w => q2[v] = q[v]
  /\ to2[w] - to[w] = (mass2 - mass) + ((back2[w] + OnWay(q2[w], D))
                                         - (back[w] + OnWay(q[w], D)))

\* Only w's part of what is held back or on the way changes.
LEMMA BalanceShifts ==
  ASSUME NEW S, NEW w \in Workers, NEW D,
         NEW q, NEW q2, Carry(S, q), Carry(S, q2),
         NEW back, NEW back2, OffWorker(w, back, back2),
         NEW to, NEW to2, OffWorker(w, to, to2),
         NEW mass \in Int, NEW mass2 \in Int, Balanced(to, mass, back, q, D),
         Evens(w, to, to2, mass, mass2, back, back2, q, q2, D)
  PROVE  Balanced(to2, mass2, back2, q2, D)
<1>1. Amounts(back) /\ Amounts(back2)
  BY DEF OffWorker, Amounts
<1>2. PICK f, g : f = Apart(back, q, D) /\ g = Apart(back2, q2, D)
  OBVIOUS
<1>3. Totals(f, back, q, D) /\ OnWay(q[w], D) \in Int
  BY <1>1, <1>2, ApartFacts
<1>4. Totals(g, back2, q2, D) /\ OnWay(q2[w], D) \in Int
  BY <1>1, <1>2, ApartFacts
<1>5. OffWorker(w, f, g)
  BY <1>3, <1>4 DEF OffWorker, Totals, Amounts, Evens
<1>6. /\ SumOf(to2) = SumOf(to) + (to2[w] - to[w])
      /\ SumOf(g) = SumOf(f) + (g[w] - f[w])
      /\ SumOf(to) \in Int /\ SumOf(f) \in Int
      /\ to[w] \in Int /\ to2[w] \in Int /\ f[w] \in Int /\ g[w] \in Int
  BY <1>5, OffWorkerSum
<1>7. f[w] = back[w] + OnWay(q[w], D) /\ g[w] = back2[w] + OnWay(q2[w], D)
  BY <1>3, <1>4 DEF Totals
<1>8. PICK a \in Int, b \in Int, t \in Int, t2 \in Int, x \in Int, y \in Int :
        /\ a = SumOf(to) /\ b = SumOf(f)
        /\ t = to[w] /\ t2 = to2[w] /\ x = f[w] /\ y = g[w]
  BY <1>6
<1>9. a = mass + b /\ t2 - t = (mass2 - mass) + (y - x)
  BY <1>2, <1>7, <1>8 DEF Balanced, Evens
<1>10. a + (t2 - t) = mass2 + (b + (y - x))
  BY <1>9
<1>11. SumOf(to2) = a + (t2 - t) /\ SumOf(g) = b + (y - x)
  BY <1>6, <1>8
<1> QED
  BY <1>2, <1>10, <1>11 DEF Balanced

Queued(S, w, q, out, q2) == out \in Seq(S) /\ q2 = [q EXCEPT ![w] = @ \o out]
Parts(w, back, back2, to, to2, shipped) ==
  back2[w] + shipped = back[w] + (to2[w] - to[w])

\* A worker ships: what comes in stays with it or goes on the way.
LEMMA ShippingBalances ==
  ASSUME NEW S, NEW w \in Workers, NEW q, Carry(S, q), NEW out, NEW q2,
         Queued(S, w, q, out, q2), NEW D,
         NEW back, NEW back2, OffWorker(w, back, back2),
         NEW to, NEW to2, OffWorker(w, to, to2),
         NEW mass \in Int, Balanced(to, mass, back, q, D),
         Parts(w, back, back2, to, to2, OnWay(out, D))
  PROVE  Balanced(to2, mass, back2, q2, D)
<1>0. /\ out \in Seq(S) /\ q2 = [q EXCEPT ![w] = @ \o out]
      /\ back2[w] + OnWay(out, D) = back[w] + (to2[w] - to[w])
  BY DEF Queued, Parts
<1>1. q \in [Workers -> Seq(S)] /\ \A d \in S : d.value \in Int
  BY DEF Carry
<1>2. PICK r \in Seq(S) : r = q[w]
  BY <1>1
<1>3. r \o out \in Seq(S)
  BY <1>0
<1>4. q2 \in [Workers -> Seq(S)] /\ q2[w] = r \o out
      /\ \A v \in Workers : v # w => q2[v] = q[v]
  BY <1>0, <1>1, <1>2, <1>3
<1>5. Carry(S, q2)
  BY <1>1, <1>4 DEF Carry
<1>6. OnWay(r \o out, D) = OnWay(r, D) + OnWay(out, D)
  BY <1>0, <1>1, OnWayAppended
<1>7. PICK x \in Int, y \in Int, z \in Int :
        x = OnWay(r, D) /\ y = OnWay(out, D) /\ z = OnWay(r \o out, D)
  BY <1>0, <1>1, <1>3, AtFacts
<1>8. PICK t \in Int, t2 \in Int, h \in Int, h2 \in Int :
        t = to[w] /\ t2 = to2[w] /\ h = back[w] /\ h2 = back2[w]
  BY DEF OffWorker
<1>9. h2 + y = h + (t2 - t) /\ z = x + y
  BY <1>0, <1>6, <1>7, <1>8
<1>10. t2 - t = (mass - mass) + ((h2 + z) - (h + x))
  BY <1>9
<1>11. to2[w] - to[w] = (mass - mass) + ((back2[w] + OnWay(q2[w], D))
                                          - (back[w] + OnWay(q[w], D)))
  BY <1>2, <1>4, <1>7, <1>8, <1>10
<1>12. Evens(w, to, to2, mass, mass, back, back2, q, q2, D)
  BY <1>4, <1>11 DEF Evens
<1> QED
  BY <1>5, <1>12, BalanceShifts

Taken(w, q, d, q2) ==
  q[w] # <<>> /\ d = Head(q[w]) /\ q2 = [q EXCEPT ![w] = Tail(@)]
Gives(mass, mass2, d, D) == mass2 - mass = IF d \in D THEN d.value ELSE 0

\* The aggregator takes a delta off a queue and adds what it carries.
LEMMA TakingBalances ==
  ASSUME NEW S, NEW w \in Workers, NEW q, Carry(S, q), NEW e, NEW q2,
         Taken(w, q, e, q2), NEW D,
         NEW to, Amounts(to), NEW back, Amounts(back),
         NEW mass \in Int, NEW mass2 \in Int, Balanced(to, mass, back, q, D),
         Gives(mass, mass2, e, D)
  PROVE  Balanced(to, mass2, back, q2, D)
<1>0. /\ q[w] # <<>> /\ q2 = [q EXCEPT ![w] = Tail(@)]
      /\ mass2 - mass = IF Head(q[w]) \in D THEN Head(q[w]).value ELSE 0
  BY DEF Taken, Gives
<1>1. q \in [Workers -> Seq(S)] /\ \A d \in S : d.value \in Int
  BY DEF Carry
<1>2. PICK r \in Seq(S) : r = q[w] /\ r # <<>>
  BY <1>0, <1>1
<1>3. Tail(r) \in Seq(S) /\ Head(r) \in S
  BY <1>2
<1>4. q2 \in [Workers -> Seq(S)] /\ q2[w] = Tail(r)
      /\ \A v \in Workers : v # w => q2[v] = q[v]
  BY <1>0, <1>1, <1>2, <1>3
<1>5. Carry(S, q2)
  BY <1>1, <1>4 DEF Carry
<1>6. OnWay(r, D) = (mass2 - mass) + OnWay(Tail(r), D)
  BY <1>0, <1>1, <1>2, OnWayTaken
<1>7. PICK x \in Int, y \in Int : x = OnWay(r, D) /\ y = OnWay(Tail(r), D)
  BY <1>1, <1>3, AtFacts
<1>8. PICK t \in Int, h \in Int : t = to[w] /\ h = back[w]
  BY DEF Amounts
<1>9. t - t = (mass2 - mass) + ((h + y) - (h + x))
  BY <1>6, <1>7
<1>10. to[w] - to[w] = (mass2 - mass) + ((back[w] + OnWay(q2[w], D))
                                         - (back[w] + OnWay(q[w], D)))
  BY <1>2, <1>4, <1>7, <1>8, <1>9
<1>11. OffWorker(w, to, to) /\ OffWorker(w, back, back)
  BY DEF OffWorker, Amounts
<1>12. Evens(w, to, to, mass, mass2, back, back, q, q2, D)
  BY <1>4, <1>10 DEF Evens
<1> QED
  BY <1>5, <1>11, <1>12, BalanceShifts

(***************************************************************************)
(* The counters of the linear plans.                                       *)
(***************************************************************************)
\* Of a typed state the property and the balance say the same.
LEMMA CellsKeptIs ==
  ASSUME CellTyped, CellPlan(plan), CellBalance
  PROVE  CellsKept
<1> SUFFICES ASSUME NEW c \in Cells
             PROVE  Sum(Workers, LAMBDA w : Sum(KeysOf[plan],
                                   LAMBDA k : given[w][k] * Bump[plan][k][c]))
                    = parent[c] + Sum(Workers, LAMBDA w : held[w][c]
                                         + InFlight(w, LAMBDA d : d.cell = c))
  BY DEF CellsKept
<1>1. \A w \in Workers : queue[w] \in Seq(CellDeltas)
  BY DEF CellTyped
<1>2. \A w \in Workers :
        InFlight(w, LAMBDA d : d.cell = c) = OnWay(queue[w], CellWay(c))
  BY <1>1, CellsInFlight
<1>3. [w \in Workers |-> held[w][c] + InFlight(w, LAMBDA d : d.cell = c)]
      = Apart(Back(held, c), queue, CellWay(c))
  BY <1>2 DEF Apart, Back
<1>4. Sum(Workers, LAMBDA w : held[w][c] + InFlight(w, LAMBDA d : d.cell = c))
      = SumOf(Apart(Back(held, c), queue, CellWay(c)))
  <2>1. Sum(Workers, LAMBDA w : held[w][c] + InFlight(w, LAMBDA d : d.cell = c))
        = SumOver(Apart(Back(held, c), queue, CellWay(c)))
    BY <1>3 DEF Sum
  <2> QED
    BY <2>1, SumOverIs
<1>5. \A w \in Workers :
        Sum(KeysOf[plan], LAMBDA k : given[w][k] * Bump[plan][k][c])
        = SumOf([k \in KeysOf[plan] |-> given[w][k] * Bump[plan][k][c]])
  BY SumOverIs DEF Sum
<1>6. [w \in Workers |-> Sum(KeysOf[plan], LAMBDA k : given[w][k] * Bump[plan][k][c])]
      = GivenTo(given, c)
  BY <1>5 DEF GivenTo
<1>7. Sum(Workers, LAMBDA w : Sum(KeysOf[plan],
                                  LAMBDA k : given[w][k] * Bump[plan][k][c]))
      = SumOf(GivenTo(given, c))
  <2>1. Sum(Workers, LAMBDA w : Sum(KeysOf[plan],
                                    LAMBDA k : given[w][k] * Bump[plan][k][c]))
        = SumOver(GivenTo(given, c))
    BY <1>6 DEF Sum
  <2> QED
    BY <2>1, SumOverIs
<1>8. SumOf(GivenTo(given, c))
      = parent[c] + SumOf(Apart(Back(held, c), queue, CellWay(c)))
  BY DEF CellBalance, Balanced
<1> QED
  BY <1>4, <1>7, <1>8

LEMMA GivenTyped ==
  ASSUME Shares, CellPlan(plan), NEW c \in Cells
  PROVE  Amounts(GivenTo(given, c))
<1>1. plan \in LinearPlans
  BY DEF CellPlan, HeapPlans, LinearPlans
<1>2. (IsFiniteSet(KeysOf[plan]) /\ KeysOf[plan] \subseteq Keys) \/ Workers = {}
  BY WeightNat
<1>3. ASSUME NEW w \in Workers
      PROVE  SumOf([k \in KeysOf[plan] |-> given[w][k] * Bump[plan][k][c]]) \in Int
  <2>1. IsFiniteSet(KeysOf[plan]) /\ KeysOf[plan] \subseteq Keys
    BY <1>2, <1>3
  <2>2. \A x \in KeysOf[plan] : Bump[plan][x] \in [Cells -> {-1, 0, 1}]
    BY <1>1, <2>1, BumpFacts
  <2>3. \A x \in KeysOf[plan] : Bump[plan][x][c] \in Int
    BY <2>2
  <2>4. given[w] \in [KeysOf[plan] -> Nat]
    BY <1>3 DEF Shares
  <2>5. PICK f : f = [k \in KeysOf[plan] |-> given[w][k] * Bump[plan][k][c]]
    OBVIOUS
  <2>6. f \in [KeysOf[plan] -> Int]
    BY <2>3, <2>4, <2>5
  <2> QED
    BY <2>1, <2>5, <2>6, IntSumFacts
<1> QED
  BY <1>3 DEF GivenTo, Amounts

\* An input adds its bump to what the cell was given.
LEMMA GivenGrows ==
  ASSUME Shares, CellPlan(plan), NEW w \in Workers, NEW k \in KeysOf[plan],
         given' = [given EXCEPT ![w][k] = @ + 1], NEW c \in Cells
  PROVE  /\ Amounts(GivenTo(given, c))
         /\ OffWorker(w, GivenTo(given, c), GivenTo(given', c))
         /\ GivenTo(given', c)[w] - GivenTo(given, c)[w] = Bump[plan][k][c]
<1>1. plan \in LinearPlans
  BY DEF CellPlan, HeapPlans, LinearPlans
<1>2. IsFiniteSet(KeysOf[plan]) /\ KeysOf[plan] \subseteq Keys
  BY WeightNat
<1>3. \A x \in KeysOf[plan] : Bump[plan][x][c] \in Int
  <2>1. \A x \in KeysOf[plan] : Bump[plan][x] \in [Cells -> {-1, 0, 1}]
    BY <1>1, <1>2, BumpFacts
  <2> QED
    BY <2>1
<1>4. given \in [Workers -> [KeysOf[plan] -> Nat]]
  BY DEF Shares
<1>5. /\ \A v \in Workers : v # w => given'[v] = given[v]
      /\ given'[w] = [given[w] EXCEPT ![k] = @ + 1]
      /\ \A v \in Workers : given'[v] \in [KeysOf[plan] -> Nat]
  BY <1>4
<1>6. ASSUME NEW row \in [KeysOf[plan] -> Nat],
             NEW f, f = [x \in KeysOf[plan] |-> row[x] * Bump[plan][x][c]]
      PROVE  f \in [KeysOf[plan] -> Int] /\ SumOf(f) \in Int
  <2>1. \A x \in KeysOf[plan] : row[x] * Bump[plan][x][c] \in Int
    BY <1>3
  <2>2. f \in [KeysOf[plan] -> Int]
    BY <1>6, <2>1
  <2> QED
    BY <1>2, <2>2, IntSumFacts
<1>7. \A row \in [KeysOf[plan] -> Nat] :
        SumOf([x \in KeysOf[plan] |-> row[x] * Bump[plan][x][c]]) \in Int
  BY <1>6
<1>8. Amounts(GivenTo(given, c)) /\ Amounts(GivenTo(given', c))
  BY <1>4, <1>5, <1>7 DEF GivenTo, Amounts
<1>9. OffWorker(w, GivenTo(given, c), GivenTo(given', c))
  BY <1>5, <1>8 DEF OffWorker, GivenTo, Amounts
<1>10. PICK f, g : /\ f = [x \in KeysOf[plan] |-> given[w][x] * Bump[plan][x][c]]
                   /\ g = [x \in KeysOf[plan] |-> given'[w][x] * Bump[plan][x][c]]
  OBVIOUS
<1>11. f \in [KeysOf[plan] -> Int] /\ g \in [KeysOf[plan] -> Int] /\ SumOf(f) \in Int
  BY <1>4, <1>5, <1>6, <1>10
<1>12. \A x \in KeysOf[plan] : x # k => g[x] = f[x]
  BY <1>4, <1>5, <1>10
<1>13. ChangesAt(k, KeysOf[plan], f, g)
  BY <1>2, <1>11, <1>12 DEF ChangesAt
<1>14. SumOf(g) = SumOf(f) + (g[k] - f[k])
  BY <1>13, IntSumChanged
<1>15. PICK n \in Nat, b \in Int : n = given[w][k] /\ b = Bump[plan][k][c]
  BY <1>3, <1>4
<1>16. f[k] = n * b /\ g[k] = (n + 1) * b
  BY <1>4, <1>5, <1>10, <1>15
<1>17. (n + 1) * b = n * b + b /\ n * b \in Int
  OBVIOUS
<1>18. SumOf(g) - SumOf(f) = b
  BY <1>11, <1>14, <1>16, <1>17
<1>19. GivenTo(given', c)[w] = SumOf(g) /\ GivenTo(given, c)[w] = SumOf(f)
  BY <1>10 DEF GivenTo
<1> QED
  BY <1>8, <1>9, <1>15, <1>18, <1>19

LEMMA CellCarry ==
  ASSUME CellTyped, CellPlan(plan), NEW c \in Cells
  PROVE  /\ Carry(CellDeltas, queue)
         /\ Amounts(Back(held, c))
         /\ parent[c] \in Int
BY DEF CellTyped, Carry, CellDeltas, Amounts, Back, CellArray

LEMMA CellPosted ==
  ASSUME NEW picked, NEW cells, NEW out \in Seq(CellDeltas),
         Posts(CellOrder, picked, cells, out), NEW c
  PROVE  OnWay(out, CellWay(c)) = IF c \in picked THEN cells[c] ELSE 0
<1>1. \A i \in DOMAIN out : out[i] \in CellWay(c) <=> out[i].cell = c
  <2>1. \A i \in DOMAIN out : out[i] \in CellDeltas
    OBVIOUS
  <2> QED
    BY <2>1 DEF CellWay
<1>2. \A d \in CellDeltas : d.value \in Int
  BY DEF CellDeltas
<1> QED
  BY <1>1, <1>2, OnWayPosted

LEMMA ProcessBalance ==
  ASSUME Shares, CellTyped, CellPlan(plan), CellBalance,
         NEW w \in Workers, NEW k \in KeysOf[plan], Process(w, k)
  PROVE  CellBalance'
<1>1. PICK out : Ships1(w, k, out)
  BY ProcessShips
<1>2. PICK due : due = Due(held[w], Bump[plan][k], Taus(plan, tau))
  OBVIOUS
<1>3. plan' = plan /\ parent' = parent /\ given' = [given EXCEPT ![w][k] = @ + 1]
  BY DEF Process
<1> SUFFICES ASSUME NEW c \in Cells
             PROVE  Balanced(GivenTo(given', c), parent[c], Back(held', c), queue', CellWay(c))
  BY <1>3 DEF CellBalance, GivenTo
<1>4. /\ Carry(CellDeltas, queue) /\ Amounts(Back(held, c)) /\ parent[c] \in Int
      /\ held \in [Workers -> CellArray]
  BY CellCarry DEF CellTyped
<1>5. /\ Bumped(held[w], Bump[plan][k])[c] = held[w][c] + Bump[plan][k][c]
      /\ held[w][c] \in Int
      /\ Bump[plan][k][c] \in Int
      /\ Held(held[w], Bump[plan][k], Taus(plan, tau)) \in CellArray
      /\ Held(held[w], Bump[plan][k], Taus(plan, tau))[c]
           = IF c \in due THEN 0 ELSE held[w][c] + Bump[plan][k][c]
  BY <1>2, DueInsert
<1>6. /\ out \in Seq(CellDeltas) /\ queue' = [queue EXCEPT ![w] = @ \o out]
      /\ held' = [held EXCEPT ![w] = Held(held[w], Bump[plan][k], Taus(plan, tau))]
      /\ Posts(CellOrder, due, Bumped(held[w], Bump[plan][k]), out)
  BY <1>1, <1>2 DEF Ships1
<1>7. OnWay(out, CellWay(c)) = IF c \in due THEN held[w][c] + Bump[plan][k][c] ELSE 0
  BY <1>5, <1>6, CellPosted
<1>8. /\ \A v \in Workers : v # w => held'[v] = held[v]
      /\ held'[w] = Held(held[w], Bump[plan][k], Taus(plan, tau))
      /\ held' \in [Workers -> CellArray]
  BY <1>4, <1>5, <1>6
<1>9. OffWorker(w, Back(held, c), Back(held', c))
  BY <1>4, <1>8 DEF OffWorker, Back, CellArray
<1>10. /\ OffWorker(w, GivenTo(given, c), GivenTo(given', c))
       /\ GivenTo(given', c)[w] - GivenTo(given, c)[w] = Bump[plan][k][c]
  BY <1>3, GivenGrows
<1>11. Back(held', c)[w] + OnWay(out, CellWay(c))
       = Back(held, c)[w] + (GivenTo(given', c)[w] - GivenTo(given, c)[w])
  <2>1. /\ Back(held', c)[w] = IF c \in due THEN 0 ELSE held[w][c] + Bump[plan][k][c]
        /\ Back(held, c)[w] = held[w][c]
    BY <1>5, <1>8 DEF Back
  <2>2. CASE c \in due
    BY <1>5, <1>7, <1>10, <2>1, <2>2
  <2>3. CASE c \notin due
    BY <1>5, <1>7, <1>10, <2>1, <2>3
  <2> QED
    BY <2>2, <2>3
<1>12. Balanced(GivenTo(given, c), parent[c], Back(held, c), queue, CellWay(c))
  BY DEF CellBalance
<1>13. /\ Queued(CellDeltas, w, queue, out, queue')
       /\ Parts(w, Back(held, c), Back(held', c), GivenTo(given, c),
                GivenTo(given', c), OnWay(out, CellWay(c)))
  BY <1>6, <1>11 DEF Queued, Parts
<1> QED
  BY <1>4, <1>9, <1>10, <1>12, <1>13, ShippingBalances

LEMMA FlushBalance ==
  ASSUME Shares, CellTyped, CellPlan(plan), CellBalance, NEW w \in Workers, Flush(w)
  PROVE  CellBalance'
<1>1. /\ plan' = plan /\ parent' = parent /\ given' = given /\ Ships(w, FlushOf(w))
  BY DEF Flush
<1>2. PICK r : r = CellFlush(plan, held[w], Nobody)
  OBVIOUS
<1>3. FlushOf(w) = r
  <2>1. plan # "Hll" /\ plan # "Coco" /\ plan # "Elastic"
    BY DEF CellPlan, HeapPlans
  <2> QED
    BY <1>2, <2>1 DEF FlushOf
<1>4. held' = [held EXCEPT ![w] = r.held] /\ queue' = [queue EXCEPT ![w] = @ \o r.out]
  BY <1>1, <1>3 DEF Ships
<1>5. held \in [Workers -> CellArray] /\ queue \in [Workers -> Seq(CellDeltas)]
  BY DEF CellTyped
<1>6. CASE ~ FlushesCells(plan)
  <2>1. r.held = held[w] /\ r.out = <<>>
    BY <1>2, <1>6 DEF CellFlush
  <2>2. queue[w] \o <<>> = queue[w]
    BY <1>5
  <2>3. held' = held /\ queue' = queue
    BY <1>4, <1>5, <2>1, <2>2
  <2> QED
    BY <1>1, <2>3 DEF CellBalance, GivenTo, Back
<1>7. CASE FlushesCells(plan)
  <2> SUFFICES ASSUME NEW c \in Cells
               PROVE  Balanced(GivenTo(given, c), parent[c], Back(held', c), queue', CellWay(c))
    BY <1>1 DEF CellBalance, GivenTo
  <2>1. /\ r.held = [x \in Cells |-> 0] /\ r.out \in Seq(CellDeltas)
        /\ Posts(CellOrder, NonZero(held[w]), held[w], r.out)
    BY <1>2, <1>5, <1>7, CellFlushFacts
  <2>2. Carry(CellDeltas, queue) /\ Amounts(Back(held, c)) /\ parent[c] \in Int
    BY CellCarry
  <2>3. OnWay(r.out, CellWay(c)) = held[w][c]
    <3>1. OnWay(r.out, CellWay(c)) = IF c \in NonZero(held[w]) THEN held[w][c] ELSE 0
      BY <2>1, CellPosted
    <3>2. c \notin NonZero(held[w]) => held[w][c] = 0
      BY <1>5 DEF NonZero, CellArray
    <3> QED
      BY <3>1, <3>2
  <2>4. /\ \A v \in Workers : v # w => held'[v] = held[v]
        /\ held'[w][c] = 0
        /\ \A v \in Workers : held[v][c] \in Int /\ held'[v][c] \in Int
    BY <1>4, <1>5, <2>1 DEF CellArray
  <2>5. OffWorker(w, Back(held, c), Back(held', c))
    BY <2>4 DEF OffWorker, Back
  <2>6. OffWorker(w, GivenTo(given, c), GivenTo(given, c))
        /\ GivenTo(given, c)[w] \in Int
    <3>1. Amounts(GivenTo(given, c))
      BY GivenTyped
    <3> QED
      BY <3>1 DEF OffWorker, Amounts
  <2>7. Back(held', c)[w] + OnWay(r.out, CellWay(c))
        = Back(held, c)[w] + (GivenTo(given, c)[w] - GivenTo(given, c)[w])
    <3>1. Back(held', c)[w] = 0 /\ Back(held, c)[w] = held[w][c] /\ held[w][c] \in Int
      BY <2>4 DEF Back
    <3> QED
      BY <2>3, <2>6, <3>1
  <2>8. Balanced(GivenTo(given, c), parent[c], Back(held, c), queue, CellWay(c))
    BY DEF CellBalance
  <2>9. /\ Queued(CellDeltas, w, queue, r.out, queue')
        /\ Parts(w, Back(held, c), Back(held', c), GivenTo(given, c),
                 GivenTo(given, c), OnWay(r.out, CellWay(c)))
    BY <1>4, <2>1, <2>7 DEF Queued, Parts
  <2> QED
    BY <2>2, <2>5, <2>6, <2>8, <2>9, ShippingBalances
<1> QED
  BY <1>6, <1>7

LEMMA ApplyBalance ==
  ASSUME Shares, CellTyped, CellPlan(plan), CellBalance, NEW w \in Workers, Apply(w)
  PROVE  CellBalance'
<1>1. /\ plan' = plan /\ held' = held /\ given' = given
      /\ queue' = [queue EXCEPT ![w] = Tail(@)]
  BY DEF Apply
<1>2. PICK d : d = Head(queue[w])
  OBVIOUS
<1>3. /\ d \in CellDeltas /\ queue[w] # <<>>
      /\ parent' = [parent EXCEPT ![d.cell] = @ + d.value]
  BY <1>2, AppliedCells
<1>4. parent \in [Cells -> Int] /\ d.cell \in Cells /\ d.value \in Int
  BY <1>3 DEF CellTyped, CellArray, CellDeltas
<1> SUFFICES ASSUME NEW c \in Cells
             PROVE  Balanced(GivenTo(given, c), parent'[c], Back(held, c), queue', CellWay(c))
  BY <1>1 DEF CellBalance, GivenTo, Back
<1>5. Carry(CellDeltas, queue) /\ Amounts(Back(held, c)) /\ parent[c] \in Int
  BY CellCarry
<1>6. Amounts(GivenTo(given, c))
  BY GivenTyped
<1>7. parent'[c] = parent[c] + (IF d.cell = c THEN d.value ELSE 0)
  BY <1>3, <1>4
<1>8. d \in CellWay(c) <=> d.cell = c
  BY <1>3 DEF CellWay
<1>9. parent'[c] \in Int
      /\ parent'[c] - parent[c] = IF d \in CellWay(c) THEN d.value ELSE 0
  BY <1>4, <1>5, <1>7, <1>8
<1>10. Balanced(GivenTo(given, c), parent[c], Back(held, c), queue, CellWay(c))
  BY DEF CellBalance
<1>11. Taken(w, queue, d, queue') /\ Gives(parent[c], parent'[c], d, CellWay(c))
  BY <1>1, <1>2, <1>3, <1>9 DEF Taken, Gives
<1> QED
  BY <1>5, <1>6, <1>9, <1>10, <1>11, TakingBalances

LEMMA InitBalance ==
  ASSUME Init, CellPlan(plan)
  PROVE  CellBalance
<1>1. /\ held = [w \in Workers |-> NoCells] /\ parent = NoCells
      /\ queue = [w \in Workers |-> <<>>]
      /\ given = [w \in Workers |-> [k \in KeysOf[plan] |-> 0]]
  <2>1. plan # "Hll" /\ plan # "Coco" /\ plan # "Elastic"
    BY DEF CellPlan, HeapPlans
  <2>2. Fresh(plan) = NoCells
    BY <2>1 DEF Fresh
  <2> QED
    BY <2>2 DEF Init
<1> SUFFICES ASSUME NEW c \in Cells
             PROVE  Balanced(GivenTo(given, c), parent[c], Back(held, c), queue, CellWay(c))
  BY DEF CellBalance
<1>2. Shares /\ CellTyped
  BY PlanInitInv DEF PlanInv
<1>3. Amounts(GivenTo(given, c))
  BY <1>2, GivenTyped
<1>4. \A w \in Workers : GivenTo(given, c)[w] = 0
  <2> SUFFICES ASSUME NEW w \in Workers
               PROVE  SumOf([k \in KeysOf[plan] |-> given[w][k] * Bump[plan][k][c]]) = 0
    BY DEF GivenTo
  <2>1. plan \in LinearPlans
    BY DEF CellPlan, HeapPlans, LinearPlans
  <2>2. IsFiniteSet(KeysOf[plan]) /\ KeysOf[plan] \subseteq Keys
    BY <1>2, WeightNat
  <2>3. \A k \in KeysOf[plan] : Bump[plan][k][c] \in Int
    <3>1. \A x \in KeysOf[plan] : Bump[plan][x] \in [Cells -> {-1, 0, 1}]
      BY <2>1, <2>2, BumpFacts
    <3> QED
      BY <3>1
  <2>4. PICK f : f = [k \in KeysOf[plan] |-> given[w][k] * Bump[plan][k][c]]
    OBVIOUS
  <2>5. \A k \in KeysOf[plan] : f[k] = 0
    <3>1. \A k \in KeysOf[plan] : f[k] = given[w][k] * Bump[plan][k][c] /\ given[w][k] = 0
      BY <1>1, <2>4
    <3>2. \A x \in Int : 0 * x = 0
      OBVIOUS
    <3> QED
      BY <2>3, <3>1, <3>2
  <2>6. f \in [KeysOf[plan] -> Int]
    <3>1. \A k \in KeysOf[plan] : given[w][k] * Bump[plan][k][c] = 0
      BY <2>4, <2>5
    <3>2. \A k \in KeysOf[plan] : given[w][k] * Bump[plan][k][c] \in Int
      BY <3>1
    <3> QED
      BY <2>4, <3>2
  <2> QED
    BY <2>2, <2>4, <2>5, <2>6, IntSumOfNothing
<1>5. SumOf(GivenTo(given, c)) = 0
  BY <1>3, <1>4, WorkersFinite, IntSumOfNothing DEF Amounts
<1>6. parent[c] = 0 /\ Amounts(Back(held, c)) /\ \A w \in Workers : Back(held, c)[w] = 0
  BY <1>1, NoCellsFacts DEF Back, Amounts
<1>7. Carry(CellDeltas, queue)
  BY <1>2, CellCarry
<1>8. \A w \in Workers : OnWay(queue[w], CellWay(c)) = 0
  <2>1. <<>> \in Seq(CellDeltas) /\ DOMAIN <<>> = {}
    OBVIOUS
  <2>2. OnWay(<<>>, CellWay(c)) = 0
    BY <1>7, <2>1, OnWayOfNone DEF Carry
  <2> QED
    BY <1>1, <2>2
<1>9. Totals(Apart(Back(held, c), queue, CellWay(c)), Back(held, c), queue, CellWay(c))
  BY <1>6, <1>7, ApartFacts
<1>10. PICK f : f = Apart(Back(held, c), queue, CellWay(c))
  OBVIOUS
<1>11. f \in [Workers -> Int] /\ \A w \in Workers : f[w] = 0
  BY <1>6, <1>8, <1>9, <1>10 DEF Totals, Amounts
<1>12. SumOf(f) = 0
  BY <1>11, WorkersFinite, IntSumOfNothing
<1> QED
  BY <1>5, <1>6, <1>10, <1>12 DEF Balanced

(***************************************************************************)
(* The steps of a stream, and what they give the workers.                  *)
(***************************************************************************)
StreamStep ==
  \E w \in Workers : (\E k \in KeysOf[plan] : Process(w, k)) \/ Flush(w) \/ Apply(w)

\* Any other step leaves the stream alone, or has the caller own the parent.
LEMMA StepsOfStream ==
  ASSUME Shares, [Next]_vars
  PROVE  \/ returned'
         \/ UNCHANGED streamVars /\ returned' = returned
         \/ StreamStep /\ ~ returned /\ returned' = returned /\ plan' = plan
<1>1. ASSUME NEW w \in Workers, NEW k \in KeysOf[plan], Process(w, k)
      PROVE  StreamStep /\ ~ returned /\ returned' = returned /\ plan' = plan
  BY <1>1 DEF StreamStep, Process
<1>2. ASSUME NEW w \in Workers, Flush(w)
      PROVE  StreamStep /\ ~ returned /\ returned' = returned /\ plan' = plan
  BY <1>2 DEF StreamStep, Flush
<1>3. ASSUME NEW w \in Workers, Apply(w)
      PROVE  StreamStep /\ ~ returned /\ returned' = returned /\ plan' = plan
  BY <1>3 DEF StreamStep, Apply
<1>4. Adjust => UNCHANGED streamVars /\ returned' = returned
  BY DEF Adjust
<1>5. SiftStep => UNCHANGED streamVars /\ returned' = returned
  BY DEF SiftStep
<1>6. Finish => returned'
  BY DEF Finish
<1>7. \A k \in KeysOf[plan] : InsertTopK(k) \/ Merge(k) => returned'
  BY DEF InsertTopK, Merge, Call
<1>8. ClearHeap \/ ReloadTopK => returned'
  BY DEF ClearHeap, ReloadTopK, Call
<1>9. OfferPending => UNCHANGED streamVars /\ returned' = returned
  BY DEF OfferPending
<1>10. UNCHANGED vars => UNCHANGED streamVars /\ returned' = returned
  BY DEF vars, streamVars
<1> QED
  BY <1>1, <1>2, <1>3, <1>4, <1>5, <1>6, <1>7, <1>8, <1>9, <1>10 DEF Next

LEMMA WeightsTyped ==
  ASSUME Shares
  PROVE  Weights \in [Workers -> Nat] /\ Amounts(Weights)
<1>1. \A w \in Workers : WeightTotal(w) \in Nat
  BY WeightNat
<1> QED
  BY <1>1 DEF Weights, Amounts

\* An input counts once.
LEMMA WeightGrows ==
  ASSUME Shares, NEW w \in Workers, NEW k \in KeysOf[plan],
         given' = [given EXCEPT ![w][k] = @ + 1]
  PROVE  /\ OffWorker(w, Weights, Weights')
         /\ Weights'[w] = Weights[w] + 1
         /\ Weights[w] \in Nat
<1>1. IsFiniteSet(KeysOf[plan]) /\ given \in [Workers -> [KeysOf[plan] -> Nat]]
  BY WeightNat DEF Shares
<1>2. /\ \A v \in Workers : v # w => given'[v] = given[v]
      /\ given'[w] = [given[w] EXCEPT ![k] = @ + 1]
  BY <1>1
<1>3. PICK f, g : f = given[w] /\ g = given'[w]
  OBVIOUS
<1>4. /\ f \in [KeysOf[plan] -> Int] /\ g \in [KeysOf[plan] -> Int]
      /\ g[k] = f[k] + 1 /\ f[k] \in Int
      /\ \A x \in KeysOf[plan] : x # k => g[x] = f[x]
  BY <1>1, <1>2, <1>3
<1>5. ChangesAt(k, KeysOf[plan], f, g)
  BY <1>1, <1>4 DEF ChangesAt
<1>6. SumOf(g) = SumOf(f) + (g[k] - f[k]) /\ SumOf(f) \in Int
  BY <1>1, <1>4, <1>5, IntSumChanged, IntSumFacts
<1>7. SumOf(g) = SumOf(f) + 1
  BY <1>4, <1>6
<1>8. WeightTotal(w) = SumOf(f) /\ WeightTotal(w)' = SumOf(g)
  BY <1>3, SumOverIs DEF WeightTotal
<1>9. \A v \in Workers : v # w => WeightTotal(v)' = WeightTotal(v)
  BY <1>2 DEF WeightTotal
<1>10. Weights \in [Workers -> Nat]
  BY WeightsTyped
<1>11. /\ Weights' = [v \in Workers |-> WeightTotal(v)']
       /\ \A v \in Workers : Weights[v] = WeightTotal(v)
  BY DEF Weights
<1>12. Weights'[w] = Weights[w] + 1 /\ \A v \in Workers : v # w => Weights'[v] = Weights[v]
  BY <1>7, <1>8, <1>9, <1>11
<1>13. \A v \in Workers : Weights'[v] \in Int
  BY <1>10, <1>12
<1>14. Weights' \in [Workers -> Int]
  BY <1>11, <1>13
<1> QED
  BY <1>10, <1>12, <1>14 DEF OffWorker

LEMMA WeightsStay == given' = given => Weights' = Weights
BY DEF Weights, WeightTotal

\* A worker without a residue flush.
LEMMA FlushHolds ==
  ASSUME CellTyped, plan \in HeapPlans, NEW w \in Workers, Flush(w)
  PROVE  held' = held /\ queue' = queue
<1>1. Ships(w, FlushOf(w))
  BY DEF Flush
<1>2. PICK r : r = CellFlush(plan, held[w], Nobody)
  OBVIOUS
<1>3. FlushOf(w) = r /\ CellPlan(plan)
  <2>1. plan # "Hll" /\ plan # "Coco" /\ plan # "Elastic" /\ CellPlan(plan)
    BY DEF CellPlan, HeapPlans
  <2> QED
    BY <1>2, <2>1 DEF FlushOf
<1>4. held \in [Workers -> CellArray] /\ queue \in [Workers -> Seq(CellDeltas)]
  BY <1>3 DEF CellTyped
<1>5. r.held = held[w] /\ r.out = <<>>
  BY <1>2 DEF CellFlush, FlushesCells, HeapPlans
<1>6. queue[w] \o <<>> = queue[w]
  BY <1>4
<1> QED
  BY <1>1, <1>3, <1>4, <1>5, <1>6 DEF Ships

(***************************************************************************)
(* UnivMon's reports.                                                      *)
(***************************************************************************)
LEMMA ToldAppended ==
  ASSUME NEW q \in Seq(CellDeltas), NEW out \in Seq(CellDeltas),
         NEW low \in Nat, NEW high \in Nat, low <= high, InOrderTold(q, low, high),
         \A n \in DOMAIN out : out[n].weight = high + 1
  PROVE  InOrderTold(q \o out, low, high + 1)
<1>1. PICK a \in Nat, b \in Nat :
        a = Len(q) /\ b = Len(out) /\ DOMAIN q = 1..a /\ DOMAIN out = 1..b
  OBVIOUS
<1>2. PICK r : r = q \o out
  OBVIOUS
<1>3. DOMAIN r = 1..(a + b)
  BY <1>1, <1>2
<1>4. \A n \in 1..(a + b) : r[n] = IF n <= a THEN q[n] ELSE out[n - a]
  BY <1>1, <1>2
<1>5. \A n \in DOMAIN q : q[n].weight \in Nat
  <2>1. \A n \in DOMAIN q : q[n] \in CellDeltas
    OBVIOUS
  <2> QED
    BY <2>1 DEF CellDeltas
<1>6. \A n \in 1..(a + b) :
        \/ n <= a /\ n \in DOMAIN q /\ r[n].weight = q[n].weight
        \/ n > a /\ r[n].weight = high + 1
  <2> SUFFICES ASSUME NEW n \in 1..(a + b)
               PROVE  \/ n <= a /\ n \in DOMAIN q /\ r[n].weight = q[n].weight
                      \/ n > a /\ r[n].weight = high + 1
    OBVIOUS
  <2>1. CASE n <= a
    <3>1. n \in 1..a /\ r[n] = q[n]
      BY <1>4, <2>1
    <3> QED
      BY <1>1, <2>1, <3>1
  <2>2. CASE ~ (n <= a)
    <3>1. n > a /\ n - a \in 1..b /\ r[n] = out[n - a]
      BY <1>4, <2>2
    <3>2. out[n - a].weight = high + 1
      BY <1>1, <3>1
    <3> QED
      BY <3>1, <3>2
  <2> QED
    BY <2>1, <2>2
<1>7. \A n \in 1..(a + b) : low <= r[n].weight /\ r[n].weight <= high + 1
  BY <1>5, <1>6 DEF InOrderTold
<1>8. \A m, n \in 1..(a + b) : m <= n => r[m].weight <= r[n].weight
  BY <1>5, <1>6 DEF InOrderTold
<1> QED
  BY <1>2, <1>3, <1>7, <1>8 DEF InOrderTold

LEMMA ToldTaken ==
  ASSUME NEW q \in Seq(CellDeltas), q # <<>>, NEW low \in Nat, NEW high \in Nat,
         InOrderTold(q, low, high)
  PROVE  /\ InOrderTold(Tail(q), Head(q).weight, high)
         /\ Head(q).weight \in Nat /\ Head(q).weight <= high
<1>1. PICK r, d : r = Tail(q) /\ d = Head(q)
  OBVIOUS
<1>2. /\ 1 \in DOMAIN q /\ d = q[1] /\ d \in CellDeltas
      /\ \A n \in DOMAIN r : n + 1 \in DOMAIN q /\ r[n] = q[n + 1]
      /\ r \in Seq(CellDeltas)
  BY <1>1, Shortened
<1>3. DOMAIN r \subseteq Nat
  BY <1>2
<1>4. d.weight \in Nat
  BY <1>2 DEF CellDeltas
<1>5. \A n \in DOMAIN r : d.weight <= r[n].weight /\ r[n].weight <= high
  <2>1. \A n \in DOMAIN r : 1 <= n + 1
    BY <1>3
  <2> QED
    BY <1>2, <2>1 DEF InOrderTold
<1>6. \A m, n \in DOMAIN r : m <= n => r[m].weight <= r[n].weight
  <2>1. \A m, n \in DOMAIN r : m <= n => m + 1 <= n + 1
    BY <1>3
  <2> QED
    BY <1>2, <2>1 DEF InOrderTold
<1> QED
  BY <1>1, <1>2, <1>4, <1>5, <1>6 DEF InOrderTold

LEMMA ReportsProcess ==
  ASSUME Shares, CellTyped, Reports, NEW w \in Workers, NEW k \in KeysOf[plan], Process(w, k)
  PROVE  Reports'
<1>1. plan' = plan /\ tally' = tally /\ given' = [given EXCEPT ![w][k] = @ + 1]
  BY DEF Process
<1> SUFFICES ASSUME plan = "UnivMon"
             PROVE  Reports'
  BY <1>1 DEF Reports
<1>2. CellPlan(plan)
  BY DEF CellPlan, HeapPlans
<1>3. PICK out : Ships1(w, k, out)
  BY <1>2, ProcessShips
<1>4. /\ out \in Seq(CellDeltas) /\ queue' = [queue EXCEPT ![w] = @ \o out]
      /\ \A n \in DOMAIN out : out[n].weight = WeightTotal(w) + 1
  BY <1>3 DEF Ships1
<1>5. queue \in [Workers -> Seq(CellDeltas)]
  BY <1>2 DEF CellTyped
<1>6. OffWorker(w, Weights, Weights') /\ Weights'[w] = Weights[w] + 1 /\ Weights[w] \in Nat
  BY <1>1, WeightGrows
<1>7. /\ WeightTotal(w)' = WeightTotal(w) + 1
      /\ \A v \in Workers : v # w => WeightTotal(v)' = WeightTotal(v)
      /\ \A v \in Workers : WeightTotal(v) \in Nat
  BY <1>6, WeightNat DEF OffWorker, Weights
<1>8. InOrderTold(queue[w] \o out, tally.weights[w], WeightTotal(w) + 1)
  <2>1. tally.weights[w] \in Nat /\ WeightTotal(w) \in Nat /\ queue[w] \in Seq(CellDeltas)
    BY <1>5, <1>7 DEF Reports
  <2>2. tally.weights[w] <= WeightTotal(w)
        /\ InOrderTold(queue[w], tally.weights[w], WeightTotal(w))
    BY DEF Reports
  <2> QED
    BY <1>4, <2>1, <2>2, ToldAppended
<1>9. queue'[w] = queue[w] \o out /\ \A v \in Workers : v # w => queue'[v] = queue[v]
  BY <1>4, <1>5
<1>10. ASSUME NEW v \in Workers
       PROVE  /\ tally.weights[v] <= WeightTotal(v)'
              /\ InOrderTold(queue'[v], tally.weights[v], WeightTotal(v)')
  <2>1. CASE v = w
    <3>1. tally.weights[w] \in Nat /\ tally.weights[w] <= WeightTotal(w)
      BY DEF Reports
    <3>2. PICK x \in Nat, y \in Nat : x = tally.weights[w] /\ y = WeightTotal(w)
      BY <1>7, <3>1
    <3>3. x <= y /\ WeightTotal(w)' = y + 1
      BY <1>7, <3>1, <3>2
    <3>4. tally.weights[w] <= WeightTotal(w)'
      BY <3>2, <3>3
    <3>5. InOrderTold(queue'[w], tally.weights[w], WeightTotal(w)')
      BY <1>7, <1>8, <1>9
    <3> QED
      BY <2>1, <3>4, <3>5
  <2>2. CASE v # w
    BY <1>7, <1>9, <2>2 DEF Reports
  <2> QED
    BY <2>1, <2>2
<1> QED
  BY <1>1, <1>10 DEF Reports

LEMMA ReportsFlush ==
  ASSUME CellTyped, Reports, NEW w \in Workers, Flush(w)
  PROVE  Reports'
<1>1. plan' = plan /\ tally' = tally /\ given' = given
  BY DEF Flush
<1>2. plan = "UnivMon" => queue' = queue
  BY FlushHolds DEF HeapPlans
<1> QED
  BY <1>1, <1>2 DEF Reports, WeightTotal

LEMMA ReportsApply ==
  ASSUME Shares, CellTyped, Reports, NEW w \in Workers, Apply(w)
  PROVE  Reports'
<1>1. plan' = plan /\ given' = given /\ queue' = [queue EXCEPT ![w] = Tail(@)]
  BY DEF Apply
<1> SUFFICES ASSUME plan = "UnivMon"
             PROVE  Reports'
  BY <1>1 DEF Reports
<1>2. CellPlan(plan)
  BY DEF CellPlan, HeapPlans
<1>3. PICK d : d = Head(queue[w])
  OBVIOUS
<1>4. d \in CellDeltas /\ queue[w] # <<>>
  BY <1>2, <1>3, AppliedCells
<1>5. queue \in [Workers -> Seq(CellDeltas)]
  BY <1>2 DEF CellTyped
<1>6. tally' = Tallied(w, d)
  BY <1>3 DEF Apply
<1>7. PICK f, g : f = tally.weights /\ g = tally'.weights
  OBVIOUS
<1>8. g = [f EXCEPT ![w] = d.weight] /\ tally'.total = tally.total + d.weight - f[w]
  BY <1>6, <1>7 DEF Tallied
<1>9. f \in [Workers -> Nat] /\ tally.total = SumOf(f)
  BY <1>7 DEF Reports
<1>10. /\ InOrderTold(Tail(queue[w]), d.weight, WeightTotal(w))
       /\ d.weight \in Nat /\ d.weight <= WeightTotal(w)
  <2>1. f[w] \in Nat /\ WeightTotal(w) \in Nat /\ queue[w] \in Seq(CellDeltas)
    BY <1>5, <1>9, WeightNat
  <2>2. InOrderTold(queue[w], f[w], WeightTotal(w))
    BY <1>7 DEF Reports
  <2> QED
    BY <1>3, <1>4, <2>1, <2>2, ToldTaken
<1>11. g \in [Workers -> Nat] /\ g[w] = d.weight /\ \A v \in Workers : v # w => g[v] = f[v]
  BY <1>8, <1>9, <1>10
<1>12. tally'.total = SumOf(g)
  <2>1. ChangesAt(w, Workers, f, g)
    BY <1>9, <1>11, WorkersFinite DEF ChangesAt
  <2>2. SumOf(g) = SumOf(f) + (g[w] - f[w]) /\ SumOf(f) \in Int
    BY <1>9, <2>1, WorkersFinite, IntSumChanged, IntSumFacts
  <2>3. PICK s \in Int, x \in Nat, y \in Nat : s = SumOf(f) /\ x = f[w] /\ y = d.weight
    BY <1>9, <1>10, <2>2
  <2>4. SumOf(g) = s + (y - x) /\ tally'.total = s + y - x
    BY <1>8, <1>9, <1>11, <2>2, <2>3
  <2> QED
    BY <2>3, <2>4
<1>13. queue'[w] = Tail(queue[w]) /\ \A v \in Workers : v # w => queue'[v] = queue[v]
  BY <1>1, <1>5
<1>14. \A v \in Workers : WeightTotal(v)' = WeightTotal(v)
  BY <1>1 DEF WeightTotal
<1>15. ASSUME NEW v \in Workers
       PROVE  /\ g[v] <= WeightTotal(v)
              /\ InOrderTold(queue'[v], g[v], WeightTotal(v))
  <2>1. CASE v = w
    BY <1>10, <1>11, <1>13, <2>1
  <2>2. CASE v # w
    BY <1>7, <1>11, <1>13, <2>2 DEF Reports
  <2> QED
    BY <2>1, <2>2
<1> QED
  BY <1>7, <1>11, <1>12, <1>14, <1>15 DEF Reports

LEMMA NothingGiven ==
  ASSUME Init, NEW w \in Workers
  PROVE  WeightTotal(w) = 0
<1>1. Shares
  BY PlanInitInv DEF PlanInv
<1>2. IsFiniteSet(KeysOf[plan]) /\ given[w] \in [KeysOf[plan] -> Nat]
  BY <1>1, WeightNat DEF Shares
<1>3. \A k \in KeysOf[plan] : given[w][k] = 0
  BY DEF Init
<1>4. PICK f : f = given[w]
  OBVIOUS
<1>5. f \in [KeysOf[plan] -> Int] /\ \A k \in KeysOf[plan] : f[k] = 0
  BY <1>2, <1>3, <1>4
<1>6. SumOf(f) = 0
  BY <1>2, <1>5, IntSumOfNothing
<1> QED
  BY <1>4, <1>6, SumOverIs DEF WeightTotal

LEMMA ReportsInit == Init => Reports
<1> SUFFICES ASSUME Init
             PROVE  Reports
  OBVIOUS
<1>1. tally.weights = [w \in Workers |-> 0] /\ tally.total = 0
  BY DEF Init
<1>2. PICK f : f = tally.weights
  OBVIOUS
<1>3. f \in [Workers -> Int] /\ \A w \in Workers : f[w] = 0
  BY <1>1, <1>2
<1>4. SumOf(f) = 0
  BY <1>3, WorkersFinite, IntSumOfNothing
<1>5. \A w \in Workers : queue[w] = <<>> /\ DOMAIN <<>> = {}
  BY DEF Init
<1>6. \A w \in Workers : WeightTotal(w) = 0
  BY NothingGiven
<1>7. \A w \in Workers : InOrderTold(queue[w], tally.weights[w], WeightTotal(w))
  BY <1>5 DEF InOrderTold
<1> QED
  BY <1>1, <1>2, <1>4, <1>6, <1>7 DEF Reports

\* Of a typed state the property and the invariant say the same.
LEMMA ReportsGrowIs ==
  ASSUME Shares, CellTyped, Reports, plan = "UnivMon"
  PROVE  ReportsGrow
<1>1. tally.total = SumOver(tally.weights)
  BY SumOverIs DEF Reports
<1> SUFFICES ASSUME NEW w \in Workers,
                    NEW told, told = <<tally.weights[w]>>
                                       \o [i \in DOMAIN queue[w] |-> queue[w][i].weight]
                                       \o <<WeightTotal(w)>>,
                    NEW i \in DOMAIN told, NEW j \in DOMAIN told, i <= j
             PROVE  told[i] <= told[j]
  BY <1>1 DEF ReportsGrow
<1>2. queue[w] \in Seq(CellDeltas)
  BY DEF CellTyped, CellPlan, HeapPlans
<1>3. PICK q \in Seq(CellDeltas) : q = queue[w]
  BY <1>2
<1>4. PICK low \in Nat, high \in Nat : low = tally.weights[w] /\ high = WeightTotal(w)
  BY WeightNat DEF Reports
<1>5. InOrderTold(q, low, high) /\ low <= high
  BY <1>3, <1>4 DEF Reports
<1>6. PICK n \in Nat : n = Len(q) /\ DOMAIN q = 1..n
  OBVIOUS
<1>7. PICK m : m = [x \in 1..n |-> q[x].weight]
  OBVIOUS
<1>8. m \in Seq(Nat) /\ Len(m) = n /\ \A x \in 1..n : m[x] = q[x].weight
  <2>1. \A x \in 1..n : q[x].weight \in Nat
    <3>1. \A x \in 1..n : q[x] \in CellDeltas
      BY <1>6
    <3> QED
      BY <3>1 DEF CellDeltas
  <2> QED
    BY <1>7, <2>1
<1>9. told = Between(low, m, high)
  BY <1>3, <1>4, <1>6, <1>7 DEF Between
<1>10. Rises(low, m, high)
  BY <1>5, <1>6, <1>8 DEF InOrderTold, Rises
<1> QED
  BY <1>8, <1>9, <1>10, ToldRises

(***************************************************************************)
(* HyperLogLog: how far a register of the parent is behind.                *)
(***************************************************************************)
LEMMA PowerGrows == \A m, n \in Nat : m <= n => PowerOfTwo[m] <= PowerOfTwo[n]
<1> DEFINE Bad == {n \in Nat : \E m \in Nat : m <= n /\ ~ (PowerOfTwo[m] <= PowerOfTwo[n])}
<1>1. SUFFICES ASSUME Bad # {}
               PROVE  FALSE
  OBVIOUS
<1>2. PICK n \in Bad : \A x \in Bad : n <= x
  <2>1. Bad \in SUBSET Nat
    OBVIOUS
  <2> QED
    BY <1>1, <2>1, LeastNumber
<1>3. n \in Nat
  OBVIOUS
<1>4. PICK m \in Nat : m <= n /\ ~ (PowerOfTwo[m] <= PowerOfTwo[n])
  OBVIOUS
<1>5. PowerOfTwo[m] \in Nat /\ PowerOfTwo[n] \in Nat
  BY <1>3, PowerFacts
<1>6. m # n
  BY <1>4, <1>5
<1>7. PICK p \in Nat : n = p + 1 /\ m <= p /\ p < n
  <2>1. n - 1 \in Nat /\ n = (n - 1) + 1 /\ m <= n - 1 /\ n - 1 < n
    BY <1>3, <1>4, <1>6
  <2> QED
    BY <2>1
<1>8. p \notin Bad
  BY <1>2, <1>3, <1>7
<1>9. PowerOfTwo[m] <= PowerOfTwo[p]
  BY <1>7, <1>8
<1>10. PowerOfTwo[n] = 2 * PowerOfTwo[p] /\ PowerOfTwo[p] \in Nat
  BY <1>7, PowerFacts
<1> QED
  BY <1>4, <1>5, <1>9, <1>10

\* A growth that is not worth a delta ends at the threshold or below.
LEMMA SmallGains ==
  ASSUME NEW old \in Nat, NEW new \in Nat, old < new, ~ Gains(old, new)
  PROVE  new <= HllTau
<1> SUFFICES ASSUME ~ (new <= HllTau)
             PROVE  FALSE
  OBVIOUS
<1>1. HllTau \in Nat
  BY CellAssumption DEF CellAssumption
<1>2. PICK p \in Nat : new = p + 1 /\ old <= p /\ HllTau <= p
  <2>1. new - 1 \in Nat /\ new = (new - 1) + 1 /\ old <= new - 1 /\ HllTau <= new - 1
    BY <1>1
  <2> QED
    BY <2>1
<1>3. PICK a \in Nat, b \in Nat, c \in Nat :
        a = PowerOfTwo[old] /\ b = PowerOfTwo[p] /\ c = PowerOfTwo[HllTau]
  BY <1>1, PowerFacts
<1>4. PowerOfTwo[new] = 2 * b /\ a <= b /\ c <= b
  BY <1>1, <1>2, <1>3, PowerFacts, PowerGrows
<1>5. 2 * b - a >= c
  BY <1>4
<1> QED
  BY <1>3, <1>4, <1>5 DEF Gains

LEMMA RaisedFacts ==
  ASSUME NEW regs \in RegisterRow, NEW r \in Registers, NEW v \in Nat
  PROVE  /\ Raised(regs, r, v) \in RegisterRow
         /\ Raised(regs, r, v)[r] = IF regs[r] >= v THEN regs[r] ELSE v
         /\ \A x \in Registers : x # r => Raised(regs, r, v)[x] = regs[x]
<1>1. regs \in [Registers -> Nat]
  BY DEF RegisterRow
<1>2. PICK n \in Nat : n = regs[r]
  BY <1>1
<1>3. PICK m \in Nat : m = IF n >= v THEN n ELSE v
  OBVIOUS
<1>4. Max({n, v}) = m
  BY <1>3, MaxOfTwo
<1>5. Raised(regs, r, v) = [regs EXCEPT ![r] = m]
  BY <1>2, <1>4 DEF Raised
<1> QED
  BY <1>1, <1>2, <1>3, <1>5 DEF RegisterRow

LEMMA RegisterFacts ==
  /\ \A k \in Keys : Register[k] \in Registers /\ Rank[k] \in Nat
  /\ RegisterOrder \in Seq(Registers) /\ Row(RegisterOrder) /\ Visits(RegisterOrder)
  /\ ToSet(RegisterOrder) = Registers /\ HllTau \in Nat
<1>1. DOMAIN Register = Keys
  BY PlansAssumption DEF PlansAssumption
<1> QED
  BY <1>1, CellAssumption DEF CellAssumption, Row, Registers

\* What a worker's insert leaves in the registers, and what it ships of them.
HllInserted(regs, k, new, out) ==
  /\ new \in RegisterRow
  /\ out \in Seq(RegisterDeltas)
  /\ new[Register[k]] = IF regs[Register[k]] >= Rank[k] THEN regs[Register[k]] ELSE Rank[k]
  /\ \A x \in Registers : x # Register[k] => new[x] = regs[x]
  /\ \A n \in DOMAIN out : out[n].cell = Register[k] /\ out[n].value = Rank[k]
  /\ \/ new[Register[k]] = regs[Register[k]]
     \/ new[Register[k]] <= HllTau
     \/ Covers(out, Register[k], new[Register[k]])

LEMMA HllInsertFacts ==
  ASSUME NEW regs \in RegisterRow, NEW k \in Keys
  PROVE  HllInserted(regs, k, HllInsert(regs, k).held, HllInsert(regs, k).out)
<1>1. PICK r \in Registers, v \in Nat : r = Register[k] /\ v = Rank[k]
  BY RegisterFacts
<1>2. PICK new, out : new = HllInsert(regs, k).held /\ out = HllInsert(regs, k).out
  OBVIOUS
<1>3. new = Raised(regs, r, v)
  BY <1>1, <1>2 DEF HllInsert
<1>4. /\ new \in RegisterRow
      /\ new[r] = IF regs[r] >= v THEN regs[r] ELSE v
      /\ \A x \in Registers : x # r => new[x] = regs[x]
  BY <1>3, RaisedFacts
<1>5. PICK n \in Nat : n = regs[r]
  BY DEF RegisterRow
<1>6. out = IF v > n /\ Gains(n, v) THEN <<RegisterDelta(r, v)>> ELSE <<>>
  BY <1>1, <1>2, <1>5 DEF HllInsert
<1>7. CASE v > n /\ Gains(n, v)
  <2>1. PICK d : d = RegisterDelta(r, v)
    OBVIOUS
  <2>2. d \in RegisterDeltas /\ d.cell = r /\ d.value = v
    BY <2>1 DEF RegisterDelta, RegisterDeltas
  <2>3. out = <<d>> /\ out \in Seq(RegisterDeltas) /\ DOMAIN out = {1} /\ out[1] = d
    BY <1>6, <1>7, <2>1, <2>2
  <2>4. Covers(out, r, v)
    BY <2>2, <2>3 DEF Covers
  <2>5. new[r] = v
    BY <1>4, <1>5, <1>7
  <2>6. \A m \in DOMAIN out : out[m].cell = r /\ out[m].value = v
    BY <2>2, <2>3
  <2> QED
    BY <1>1, <1>2, <1>4, <2>3, <2>4, <2>5, <2>6 DEF HllInserted
<1>8. CASE ~ (v > n /\ Gains(n, v))
  <2>1. out = <<>> /\ out \in Seq(RegisterDeltas) /\ DOMAIN out = {}
    BY <1>6, <1>8
  <2>2. new[r] = n \/ new[r] <= HllTau
    <3>1. CASE v > n
      <4>1. v <= HllTau
        BY <1>8, <3>1, SmallGains
      <4>2. new[r] = v
        BY <1>4, <1>5, <3>1
      <4> QED
        BY <4>1, <4>2
    <3>2. CASE ~ (v > n)
      BY <1>4, <1>5, <3>2
    <3> QED
      BY <3>1, <3>2
  <2>3. /\ new \in RegisterRow /\ out \in Seq(RegisterDeltas)
        /\ \A m \in DOMAIN out : out[m].cell = r /\ out[m].value = v
    BY <1>4, <2>1
  <2> QED
    BY <1>1, <1>2, <1>4, <1>5, <2>2, <2>3 DEF HllInserted
<1> QED
  BY <1>7, <1>8

LEMMA HllFlushFacts ==
  ASSUME NEW regs \in RegisterRow
  PROVE  /\ HllFlush(regs).held = regs
         /\ HllFlush(regs).out \in Seq(RegisterDeltas)
         /\ Below(HllFlush(regs).out, regs)
<1>1. PICK full : full = InOrder(RegisterOrder, {r \in Registers : regs[r] # 0})
  OBVIOUS
<1>2. /\ Row(full) /\ \A n \in DOMAIN full : full[n] \in Registers
  BY <1>1, RegisterFacts, InOrderFacts DEF Picks
<1>3. PICK out : out = [i \in DOMAIN full |-> RegisterDelta(full[i], regs[full[i]])]
  OBVIOUS
<1>4. HllFlush(regs).held = regs /\ HllFlush(regs).out = out
  BY <1>1, <1>3 DEF HllFlush
<1>5. \A i \in DOMAIN full : /\ RegisterDelta(full[i], regs[full[i]]) \in RegisterDeltas
                             /\ RegisterDelta(full[i], regs[full[i]]).cell = full[i]
                             /\ RegisterDelta(full[i], regs[full[i]]).value = regs[full[i]]
  BY <1>2 DEF RegisterDelta, RegisterDeltas, RegisterRow
<1>6. Below(out, regs)
  <2>1. \A i \in DOMAIN full : regs[full[i]] \in Nat
    BY <1>2 DEF RegisterRow
  <2> QED
    BY <1>3, <1>5, <2>1 DEF Below
<1>7. out \in Seq(RegisterDeltas)
  <2>1. Len(full) \in Nat /\ DOMAIN full = 1..Len(full)
    BY <1>2, RowFacts
  <2>2. PICK m \in Nat : m = Len(full) /\ DOMAIN full = 1..m
    BY <2>1
  <2>3. out = [i \in 1..m |-> RegisterDelta(full[i], regs[full[i]])]
    BY <1>3, <2>2
  <2> QED
    BY <1>5, <2>2, <2>3
<1> QED
  BY <1>4, <1>6, <1>7

LEMMA CoversAppended ==
  ASSUME NEW q \in Seq(RegisterDeltas), NEW out \in Seq(RegisterDeltas), NEW r, NEW v,
         Covers(q, r, v) \/ Covers(out, r, v)
  PROVE  Covers(q \o out, r, v)
<1>1. PICK s : s = q \o out
  OBVIOUS
<1>2. /\ \A m \in DOMAIN q : m \in DOMAIN s /\ s[m] = q[m]
      /\ \A m \in DOMAIN out : Len(q) + m \in DOMAIN s /\ s[Len(q) + m] = out[m]
  BY <1>1, Appended
<1>3. Covers(s, r, v)
  BY <1>2 DEF Covers
<1> QED
  BY <1>1, <1>3

LEMMA BelowAppended ==
  ASSUME NEW q \in Seq(RegisterDeltas), NEW out \in Seq(RegisterDeltas), NEW regs,
         Below(q, regs), Below(out, regs)
  PROVE  Below(q \o out, regs)
<1>1. PICK s : s = q \o out
  OBVIOUS
<1>2. \A n \in DOMAIN s : \/ \E m \in DOMAIN q : s[n] = q[m]
                          \/ \E m \in DOMAIN out : s[n] = out[m]
  <2>1. \A n \in DOMAIN (q \o out) : \/ \E m \in DOMAIN q : (q \o out)[n] = q[m]
                                     \/ \E m \in DOMAIN out : (q \o out)[n] = out[m]
    BY Appended
  <2> QED
    BY <1>1, <2>1, Zenon
<1>3. Below(s, regs)
  BY <1>2 DEF Below
<1> QED
  BY <1>1, <1>3

LEMMA BelowGrows ==
  ASSUME NEW q \in Seq(RegisterDeltas), NEW regs \in RegisterRow, NEW new \in RegisterRow,
         \A x \in Registers : regs[x] <= new[x], Below(q, regs)
  PROVE  Below(q, new)
<1>1. \A n \in DOMAIN q : q[n] \in RegisterDeltas
  OBVIOUS
<1>2. \A n \in DOMAIN q : q[n].cell \in Registers /\ q[n].value \in Nat
  BY <1>1 DEF RegisterDeltas
<1>3. \A x \in Registers : regs[x] \in Nat /\ new[x] \in Nat
  BY DEF RegisterRow
<1> QED
  BY <1>2, <1>3 DEF Below

LEMMA HllPlan == plan = "Hll" => ~ CellPlan(plan)
BY DEF CellPlan, HeapPlans

LEMMA HllProcess ==
  ASSUME plan = "Hll", HllTyped, Shares, NEW w \in Workers, NEW k \in KeysOf[plan], Process(w, k)
  PROVE  \E new, out : /\ HllInserted(held[w], k, new, out)
                       /\ held' = [held EXCEPT ![w] = new]
                       /\ queue' = [queue EXCEPT ![w] = @ \o out]
<1>1. k \in Keys /\ held[w] \in RegisterRow
  BY WeightNat DEF HllTyped
<1>2. PICK r : r = HllInsert(held[w], k)
  OBVIOUS
<1>3. Outcomes(w, k) = {r}
  BY <1>2, HllPlan DEF Outcomes
<1>4. held' = [held EXCEPT ![w] = r.held] /\ queue' = [queue EXCEPT ![w] = @ \o r.out]
  BY <1>3 DEF Process, Ships
<1>5. HllInserted(held[w], k, r.held, r.out)
  BY <1>1, <1>2, HllInsertFacts
<1> QED
  BY <1>4, <1>5

LEMMA LagsProcess ==
  ASSUME Lags, Shares, NEW w \in Workers, NEW k \in KeysOf[plan], Process(w, k)
  PROVE  Lags'
<1>1. plan' = plan /\ parent' = parent /\ given' = [given EXCEPT ![w][k] = @ + 1]
  BY DEF Process
<1> SUFFICES ASSUME plan = "Hll"
             PROVE  Lags'
  BY <1>1 DEF Lags
<1>2. HllTyped
  BY DEF Lags
<1>3. PICK new, out : /\ HllInserted(held[w], k, new, out)
                      /\ held' = [held EXCEPT ![w] = new]
                      /\ queue' = [queue EXCEPT ![w] = @ \o out]
  BY <1>2, HllProcess
<1>4. PICK q, regs : q = queue[w] /\ regs = held[w]
  OBVIOUS
<1>5. PICK r \in Registers, v \in Nat : r = Register[k] /\ v = Rank[k] /\ k \in Keys
  BY RegisterFacts, WeightNat
<1>6. /\ new \in RegisterRow /\ out \in Seq(RegisterDeltas)
      /\ new[r] = IF regs[r] >= v THEN regs[r] ELSE v
      /\ \A x \in Registers : x # r => new[x] = regs[x]
      /\ \A n \in DOMAIN out : out[n].cell = r /\ out[n].value = v
      /\ new[r] = regs[r] \/ new[r] <= HllTau \/ Covers(out, r, new[r])
  BY <1>3, <1>4, <1>5 DEF HllInserted
<1>7. /\ held \in [Workers -> RegisterRow] /\ parent \in RegisterRow
      /\ queue \in [Workers -> Seq(RegisterDeltas)]
      /\ q \in Seq(RegisterDeltas) /\ regs \in RegisterRow
      /\ Below(q, regs)
  BY <1>2, <1>4 DEF HllTyped, Lags
<1>8. /\ held'[w] = new /\ queue'[w] = q \o out
      /\ \A u \in Workers : u # w => held'[u] = held[u] /\ queue'[u] = queue[u]
  BY <1>3, <1>4, <1>7
<1>9. \A x \in Registers : regs[x] \in Nat /\ new[x] \in Nat /\ parent[x] \in Nat
                           /\ regs[x] <= new[x]
  <2>1. \A x \in Registers : regs[x] \in Nat /\ new[x] \in Nat /\ parent[x] \in Nat
    BY <1>6, <1>7 DEF RegisterRow
  <2> QED
    BY <1>6, <2>1
<1>10. HllTyped'
  <2>1. q \o out \in Seq(RegisterDeltas)
    BY <1>6, <1>7, Appended
  <2>2. held' \in [Workers -> RegisterRow] /\ queue' \in [Workers -> Seq(RegisterDeltas)]
    BY <1>3, <1>4, <1>6, <1>7, <2>1
  <2> QED
    BY <1>1, <1>7, <2>2 DEF HllTyped
<1>11. Below(q \o out, new)
  <2>1. Below(q, new)
    BY <1>6, <1>7, <1>9, BelowGrows
  <2>2. v <= new[r]
    BY <1>6, <1>9
  <2>3. Below(out, new)
    BY <1>6, <2>2 DEF Below
  <2> QED
    BY <1>6, <1>7, <2>1, <2>3, BelowAppended
<1>12. \A u \in Workers : Below(queue'[u], held'[u])
  BY <1>8, <1>11 DEF Lags
<1>13. ASSUME NEW x \in Registers
       PROVE  \E u \in Workers : parent'[x] <= held'[u][x]
  <2>1. PICK u \in Workers : parent[x] <= held[u][x]
    BY DEF Lags
  <2>2. CASE u = w
    <3>1. parent[x] <= new[x]
      BY <1>4, <1>9, <2>1, <2>2
    <3> QED
      BY <1>1, <1>8, <3>1
  <2>3. CASE u # w
    BY <1>1, <1>8, <2>1, <2>3
  <2> QED
    BY <2>2, <2>3
<1>14. ASSUME NEW u \in Workers, NEW x \in Registers
       PROVE  Ranked(u, x)'
  <2>1. Ranked(u, x)
    BY DEF Lags
  <2>2. /\ \A y \in KeysOf[plan] : u # w \/ y # k => given'[u][y] = given[u][y]
        /\ given[w][k] \in Nat /\ given'[w][k] = given[w][k] + 1
    BY <1>1 DEF Shares
  <2>3. \A y \in KeysOf[plan] : Rank[y] \in Nat
    BY RegisterFacts, WeightNat
  <2>4. CASE u # w
    BY <1>1, <1>8, <2>1, <2>2, <2>4 DEF Ranked
  <2>5. CASE u = w /\ x # r
    <3>1. held'[u][x] = held[u][x]
      BY <1>4, <1>6, <1>8, <2>5
    <3>2. \A y \in KeysOf[plan] : Register[y] = x => given'[u][y] = given[u][y]
      BY <1>5, <2>2, <2>5
    <3> QED
      BY <1>1, <2>1, <3>1, <3>2 DEF Ranked
  <2>6. CASE u = w /\ x = r
    <3>1. given'[u][k] > 0 /\ Register[k] = x /\ Rank[k] = v
      BY <1>5, <2>2, <2>6
    <3>2. held'[u][x] = new[r] /\ held[u][x] = regs[r]
      BY <1>4, <1>8, <2>6
    <3>3. regs[r] \in Nat /\ new[r] \in Nat
      BY <1>9
    <3>4. \A y \in KeysOf[plan] : given[u][y] > 0 => given'[u][y] > 0
      BY <2>2, <3>1
    <3>5. \A y \in KeysOf[plan] : Register[y] = x /\ given'[u][y] > 0 => Rank[y] <= new[r]
      <4> SUFFICES ASSUME NEW y \in KeysOf[plan], Register[y] = x, given'[u][y] > 0
                   PROVE  Rank[y] <= new[r]
        OBVIOUS
      <4>1. CASE y = k
        BY <1>6, <3>1, <3>3, <4>1
      <4>2. CASE y # k
        <5>1. Rank[y] <= regs[r]
          BY <2>1, <2>2, <3>2, <4>2 DEF Ranked
        <5>2. regs[r] <= new[r]
          BY <1>9
        <5> QED
          BY <2>3, <3>3, <5>1, <5>2
      <4> QED
        BY <4>1, <4>2
    <3>6. new[r] = 0 \/ \E y \in KeysOf[plan] : Register[y] = x /\ given'[u][y] > 0 /\ Rank[y] = new[r]
      <4>1. CASE new[r] = v
        BY <3>1, <4>1
      <4>2. CASE new[r] = regs[r]
        BY <2>1, <3>2, <3>4, <4>2 DEF Ranked
      <4> QED
        BY <1>6, <4>1, <4>2
    <3> QED
      BY <1>1, <3>2, <3>5, <3>6 DEF Ranked
  <2> QED
    BY <2>4, <2>5, <2>6
<1>15. ASSUME NEW u \in Workers, NEW x \in Registers
       PROVE  LagsLittle(u, x)'
  <2>1. LagsLittle(u, x)
    BY DEF Lags
  <2>2. CASE u # w
    BY <1>1, <1>8, <2>1, <2>2 DEF LagsLittle
  <2>3. CASE u = w /\ new[x] = regs[x]
    <3>1. regs[x] <= HllTau \/ regs[x] <= parent[x] \/ Covers(q, x, regs[x])
      BY <1>4, <2>1, <2>3 DEF LagsLittle
    <3>2. Covers(q, x, regs[x]) => Covers(q \o out, x, regs[x])
      BY <1>6, <1>7, CoversAppended
    <3> QED
      BY <1>1, <1>8, <2>3, <3>1, <3>2 DEF LagsLittle
  <2>4. CASE u = w /\ new[x] # regs[x]
    <3>1. x = r
      BY <1>6, <2>4
    <3>2. new[x] <= HllTau \/ Covers(q \o out, x, new[x])
      BY <1>6, <1>7, <2>4, <3>1, CoversAppended
    <3> QED
      BY <1>8, <2>4, <3>2 DEF LagsLittle
  <2> QED
    BY <2>2, <2>3, <2>4
<1> QED
  BY <1>10, <1>12, <1>13, <1>14, <1>15 DEF Lags

LEMMA LagsFlush ==
  ASSUME Lags, NEW w \in Workers, Flush(w)
  PROVE  Lags'
<1>1. plan' = plan /\ parent' = parent /\ given' = given /\ Ships(w, FlushOf(w))
  BY DEF Flush
<1> SUFFICES ASSUME plan = "Hll"
             PROVE  Lags'
  BY <1>1 DEF Lags
<1>2. /\ held \in [Workers -> RegisterRow] /\ parent \in RegisterRow
      /\ queue \in [Workers -> Seq(RegisterDeltas)]
  BY DEF Lags, HllTyped
<1>3. PICK out : out = HllFlush(held[w]).out
  OBVIOUS
<1>4. FlushOf(w) = HllFlush(held[w])
  BY HllPlan DEF FlushOf
<1>5. HllFlush(held[w]).held = held[w] /\ out \in Seq(RegisterDeltas) /\ Below(out, held[w])
  BY <1>2, <1>3, HllFlushFacts
<1>6. held' = held /\ queue' = [queue EXCEPT ![w] = @ \o out]
  BY <1>1, <1>2, <1>3, <1>4, <1>5 DEF Ships
<1>7. PICK q \in Seq(RegisterDeltas) : q = queue[w]
  BY <1>2
<1>8. queue'[w] = q \o out /\ \A u \in Workers : u # w => queue'[u] = queue[u]
  BY <1>2, <1>6, <1>7
<1>9. HllTyped'
  <2>1. q \o out \in Seq(RegisterDeltas)
    BY <1>5, Appended
  <2>2. queue' \in [Workers -> Seq(RegisterDeltas)]
    BY <1>2, <1>6, <1>7, <2>1
  <2> QED
    BY <1>1, <1>2, <1>6, <2>2 DEF HllTyped
<1>10. \A u \in Workers : Below(queue'[u], held[u])
  <2>1. Below(q, held[w])
    BY <1>7 DEF Lags
  <2>2. Below(q \o out, held[w])
    BY <1>5, <2>1, BelowAppended
  <2> QED
    BY <1>8, <2>2 DEF Lags
<1>11. ASSUME NEW u \in Workers, NEW x \in Registers
       PROVE  LagsLittle(u, x)'
  <2>1. LagsLittle(u, x)
    BY DEF Lags
  <2>2. Covers(queue[u], x, held[u][x]) => Covers(queue'[u], x, held[u][x])
    <3>1. CASE u = w
      BY <1>5, <1>7, <1>8, <3>1, CoversAppended
    <3>2. CASE u # w
      BY <1>8, <3>2
    <3> QED
      BY <3>1, <3>2
  <2> QED
    BY <1>1, <1>6, <2>1, <2>2 DEF LagsLittle
<1>12. \A u \in Workers, x \in Registers : Ranked(u, x)'
  BY <1>1, <1>6 DEF Lags, Ranked
<1>13. \A x \in Registers : \E u \in Workers : parent'[x] <= held'[u][x]
  BY <1>1, <1>6 DEF Lags
<1> QED
  BY <1>6, <1>9, <1>10, <1>11, <1>12, <1>13 DEF Lags

LEMMA LagsApply ==
  ASSUME Lags, NEW w \in Workers, Apply(w)
  PROVE  Lags'
<1>1. /\ plan' = plan /\ held' = held /\ given' = given
      /\ queue' = [queue EXCEPT ![w] = Tail(@)] /\ queue[w] # <<>>
      /\ parent' \in ParentOutcomes(Head(queue[w]))
  BY DEF Apply, Polled
<1> SUFFICES ASSUME plan = "Hll"
             PROVE  Lags'
  BY <1>1 DEF Lags
<1>2. /\ held \in [Workers -> RegisterRow] /\ parent \in RegisterRow
      /\ queue \in [Workers -> Seq(RegisterDeltas)]
  BY DEF Lags, HllTyped
<1>3. PICK q \in Seq(RegisterDeltas) : q = queue[w]
  BY <1>2
<1>4. PICK rest, d : rest = Tail(q) /\ d = Head(q)
  OBVIOUS
<1>5. /\ rest \in Seq(RegisterDeltas) /\ d \in RegisterDeltas
      /\ 1 \in DOMAIN q /\ d = q[1]
      /\ \A n \in DOMAIN rest : n + 1 \in DOMAIN q /\ rest[n] = q[n + 1]
      /\ \A n \in DOMAIN q : n = 1 \/ (n - 1 \in DOMAIN rest /\ rest[n - 1] = q[n])
  BY <1>1, <1>3, <1>4, Shortened
<1>6. d.cell \in Registers /\ d.value \in Nat
  BY <1>5 DEF RegisterDeltas
<1>7. parent' = Raised(parent, d.cell, d.value)
  BY <1>1, <1>3, <1>4, HllPlan DEF ParentOutcomes
<1>8. /\ parent' \in RegisterRow
      /\ parent'[d.cell] = IF parent[d.cell] >= d.value THEN parent[d.cell] ELSE d.value
      /\ \A x \in Registers : x # d.cell => parent'[x] = parent[x]
  <2>1. PICK p : p = parent
    OBVIOUS
  <2>2. PICK c \in Registers, v \in Nat : c = d.cell /\ v = d.value
    BY <1>6
  <2>3. PICK t : t = Raised(p, c, v)
    OBVIOUS
  <2>4. /\ t \in RegisterRow
        /\ t[c] = IF p[c] >= v THEN p[c] ELSE v
        /\ \A x \in Registers : x # c => t[x] = p[x]
    <3>1. p \in RegisterRow
      BY <1>2, <2>1
    <3> QED
      BY <2>3, <3>1, RaisedFacts
  <2>5. parent' = t
    BY <1>7, <2>1, <2>2, <2>3
  <2> QED
    BY <2>1, <2>2, <2>4, <2>5
<1>9. queue'[w] = rest /\ \A u \in Workers : u # w => queue'[u] = queue[u]
  BY <1>1, <1>2, <1>3, <1>4
<1>10. HllTyped'
  <2>1. queue' \in [Workers -> Seq(RegisterDeltas)]
    BY <1>1, <1>2, <1>3, <1>4, <1>5
  <2> QED
    BY <1>1, <1>2, <1>8, <2>1 DEF HllTyped
<1>11. \A u \in Workers : Below(queue'[u], held[u])
  <2>1. Below(q, held[w])
    BY <1>3 DEF Lags
  <2>2. Below(rest, held[w])
    BY <1>5, <2>1 DEF Below
  <2> QED
    BY <1>9, <2>2 DEF Lags
<1>12. \A x \in Registers : /\ parent[x] \in Nat /\ parent'[x] \in Nat /\ parent[x] <= parent'[x]
                            /\ \A u \in Workers : held[u][x] \in Nat
  <2>1. \A x \in Registers : parent[x] \in Nat /\ parent'[x] \in Nat
                             /\ \A u \in Workers : held[u][x] \in Nat
    BY <1>2, <1>8 DEF RegisterRow
  <2> QED
    BY <1>6, <1>8, <2>1
<1>13. ASSUME NEW x \in Registers
       PROVE  \E u \in Workers : parent'[x] <= held[u][x]
  <2>1. PICK u \in Workers : parent[x] <= held[u][x]
    BY DEF Lags
  <2>2. CASE parent'[x] = parent[x]
    BY <2>1, <2>2
  <2>3. CASE parent'[x] # parent[x]
    <3>1. x = d.cell /\ parent'[x] = d.value
      BY <1>8, <2>3
    <3>2. d.value <= held[w][x]
      BY <1>3, <1>5, <3>1 DEF Lags, Below
    <3> QED
      BY <3>1, <3>2
  <2> QED
    BY <2>2, <2>3
<1>14. ASSUME NEW u \in Workers, NEW x \in Registers
       PROVE  LagsLittle(u, x)'
  <2>1. PICK n \in Nat : n = held[u][x]
    BY <1>12
  <2>2. n <= HllTau \/ n <= parent[x] \/ Covers(queue[u], x, n)
    <3>1. LagsLittle(u, x)
      BY DEF Lags
    <3> QED
      BY <2>1, <3>1 DEF LagsLittle
  <2>3. n <= parent[x] => n <= parent'[x]
    BY <1>12
  <2>4. ASSUME Covers(queue[u], x, n)
        PROVE  n <= parent'[x] \/ Covers(queue'[u], x, n)
    <3>1. CASE u # w
      BY <1>9, <2>4, <3>1
    <3>2. CASE u = w
      <4>1. PICK m \in DOMAIN q : q[m].cell = x /\ n <= q[m].value
        BY <1>3, <2>4, <3>2 DEF Covers
      <4>2. CASE m = 1
        <5>1. x = d.cell /\ n <= d.value
          BY <1>5, <4>1, <4>2
        <5>2. d.value <= parent'[x]
          BY <1>6, <1>8, <1>12, <5>1
        <5> QED
          BY <1>6, <1>12, <5>1, <5>2
      <4>3. CASE m # 1
        <5>1. m - 1 \in DOMAIN rest /\ rest[m - 1] = q[m]
          BY <1>5, <4>3
        <5>2. Covers(rest, x, n)
          BY <4>1, <5>1 DEF Covers
        <5> QED
          BY <1>9, <3>2, <5>2
      <4> QED
        BY <4>2, <4>3
    <3> QED
      BY <3>1, <3>2
  <2>5. n <= HllTau \/ n <= parent'[x] \/ Covers(queue'[u], x, n)
    BY <2>2, <2>3, <2>4
  <2> QED
    BY <1>1, <2>1, <2>5 DEF LagsLittle
<1>15. \A u \in Workers, x \in Registers : Ranked(u, x)'
  BY <1>1 DEF Lags, Ranked
<1> QED
  BY <1>1, <1>10, <1>11, <1>13, <1>14, <1>15 DEF Lags

LEMMA LagsInit == Init => Lags
<1> SUFFICES ASSUME Init, plan = "Hll"
             PROVE  Lags
  BY DEF Lags
<1>1. Fresh(plan) = NoRegisters
  BY HllPlan DEF Fresh
<1>2. /\ held = [w \in Workers |-> NoRegisters] /\ parent = NoRegisters
      /\ queue = [w \in Workers |-> <<>>]
      /\ given = [w \in Workers |-> [k \in KeysOf[plan] |-> 0]]
  BY <1>1 DEF Init
<1>3. NoRegisters \in RegisterRow /\ \A x \in Registers : NoRegisters[x] = 0
  BY DEF NoRegisters, RegisterRow
<1>4. DOMAIN <<>> = {} /\ <<>> \in Seq(RegisterDeltas)
  OBVIOUS
<1>5. HllTyped
  BY <1>2, <1>3, <1>4 DEF HllTyped
<1>6. \A w \in Workers : Below(queue[w], held[w])
  BY <1>2, <1>4 DEF Below
<1>7. PICK u \in Workers : TRUE
  BY PlansAssumption DEF PlansAssumption
<1>8. \A x \in Registers : parent[x] <= held[u][x]
  BY <1>2, <1>3
<1>9. \A w \in Workers, x \in Registers : held[w][x] = 0
  BY <1>2, <1>3
<1>10. \A w \in Workers : \A k \in KeysOf[plan] : ~ (given[w][k] > 0)
  BY <1>2
<1>11. HllTau \in Nat
  BY RegisterFacts
<1>12. \A w \in Workers, x \in Registers : Ranked(w, x) /\ LagsLittle(w, x)
  BY <1>9, <1>10, <1>11 DEF Ranked, LagsLittle
<1> QED
  BY <1>5, <1>6, <1>8, <1>12 DEF Lags

RanksAt(w, r) ==
  {Rank[k] : k \in {x \in KeysOf[plan] : Register[x] = r /\ given[w][x] > 0}} \cup {0}
TopAt(r) == Max(UNION {RanksAt(w, r) : w \in Workers})

LEMMA RanksFacts ==
  ASSUME Lags, Shares, plan = "Hll", NEW w \in Workers, NEW r \in Registers
  PROVE  /\ held[w][r] \in Nat /\ held[w][r] \in RanksAt(w, r)
         /\ \A x \in RanksAt(w, r) : x \in Nat /\ x <= held[w][r]
<1>1. Ranked(w, r)
  BY DEF Lags
<1>2. held[w][r] \in Nat
  BY DEF Lags, HllTyped, RegisterRow
<1>3. \A x \in KeysOf[plan] : Rank[x] \in Nat
  BY RegisterFacts, WeightNat
<1>4. held[w][r] \in RanksAt(w, r)
  BY <1>1 DEF Ranked, RanksAt
<1>5. \A x \in RanksAt(w, r) : x \in Nat /\ x <= held[w][r]
  BY <1>1, <1>2, <1>3 DEF Ranked, RanksAt
<1> QED
  BY <1>2, <1>4, <1>5

\* Some worker has the highest rank that anyone was given.
LEMMA TopIs ==
  ASSUME Lags, Shares, plan = "Hll", NEW r \in Registers
  PROVE  \E w \in Workers : TopAt(r) = held[w][r] /\ \A v \in Workers : held[v][r] <= held[w][r]
<1>1. \A w \in Workers : held[w][r] \in Nat
  BY RanksFacts
<1>2. PICK down : down = [w \in Workers |-> -held[w][r]]
  OBVIOUS
<1>3. down \in [Workers -> Int]
  BY <1>1, <1>2
<1>4. PICK w \in Workers : \A v \in Workers : down[w] <= down[v]
  BY <1>3, LeastMember, PlansAssumption DEF PlansAssumption
<1>5. \A v \in Workers : held[v][r] <= held[w][r]
  BY <1>1, <1>2, <1>4
<1>6. PICK T : T = UNION {RanksAt(v, r) : v \in Workers}
  OBVIOUS
<1>7. PICK m \in Nat : m = held[w][r]
  BY <1>1
<1>8. m \in T
  BY <1>6, <1>7, RanksFacts
<1>9. \A x \in T : x \in Nat /\ x <= m
  <2> SUFFICES ASSUME NEW x \in T
               PROVE  x \in Nat /\ x <= m
    OBVIOUS
  <2>1. PICK v \in Workers : x \in RanksAt(v, r)
    BY <1>6
  <2>2. x \in Nat /\ x <= held[v][r]
    BY <2>1, RanksFacts
  <2> QED
    BY <1>1, <1>5, <1>7, <2>2
<1>10. Max(T) = m
  BY <1>8, <1>9, GreatestIs
<1> QED
  BY <1>5, <1>6, <1>7, <1>10 DEF TopAt

LEMMA RegistersLagIs ==
  ASSUME Lags, Shares, plan = "Hll"
  PROVE  RegistersLag
<1>1. ASSUME NEW r \in Registers
      PROVE  /\ \A w \in Workers : held[w][r] = Max(RanksAt(w, r))
             /\ parent[r] <= TopAt(r)
             /\ (\A w \in Workers : queue[w] = <<>>) =>
                   PowerOfTwo[TopAt(r)] - PowerOfTwo[parent[r]] < PowerOfTwo[HllTau]
  <2>1. \A w \in Workers : held[w][r] = Max(RanksAt(w, r))
    <3> SUFFICES ASSUME NEW w \in Workers
                 PROVE  held[w][r] = Max(RanksAt(w, r))
      OBVIOUS
    <3>1. /\ held[w][r] \in Nat /\ held[w][r] \in RanksAt(w, r)
          /\ \A x \in RanksAt(w, r) : x \in Nat /\ x <= held[w][r]
      BY RanksFacts
    <3> QED
      BY <3>1, GreatestIs
  <2>2. PICK w \in Workers : TopAt(r) = held[w][r] /\ \A v \in Workers : held[v][r] <= held[w][r]
    BY TopIs
  <2>3. PICK top \in Nat, low \in Nat : top = held[w][r] /\ low = parent[r]
    BY DEF Lags, HllTyped, RegisterRow
  <2>4. low <= top
    <3>1. PICK v \in Workers : parent[r] <= held[v][r]
      BY DEF Lags
    <3>2. held[v][r] \in Nat /\ held[v][r] <= top
      BY <2>2, <2>3, RanksFacts
    <3> QED
      BY <2>3, <3>1, <3>2
  <2>5. ASSUME \A v \in Workers : queue[v] = <<>>
        PROVE  PowerOfTwo[top] - PowerOfTwo[low] < PowerOfTwo[HllTau]
    <3>1. PICK a \in Nat, b \in Nat, c \in Nat :
            /\ a = PowerOfTwo[top] /\ b = PowerOfTwo[low] /\ c = PowerOfTwo[HllTau]
            /\ b # 0 /\ c # 0
      <4>1. /\ PowerOfTwo[top] \in Nat \ {0} /\ PowerOfTwo[low] \in Nat \ {0}
            /\ PowerOfTwo[HllTau] \in Nat \ {0}
        BY PowerFacts, RegisterFacts
      <4> QED
        BY <4>1
    <3>2. ~ Covers(queue[w], r, top)
      <4>1. DOMAIN <<>> = {}
        OBVIOUS
      <4> QED
        BY <2>5, <4>1 DEF Covers
    <3>3. top <= HllTau \/ top <= low
      <4>1. LagsLittle(w, r)
        BY DEF Lags
      <4> QED
        BY <2>3, <3>2, <4>1 DEF LagsLittle
    <3>4. a <= c \/ a <= b
      BY <3>1, <3>3, PowerGrows, RegisterFacts
    <3>5. a - b < c
      BY <3>1, <3>4
    <3> QED
      BY <3>1, <3>5
  <2> QED
    BY <2>1, <2>2, <2>3, <2>4, <2>5
<1> QED
  BY <1>1, Zenon DEF RegistersLag, RanksAt, TopAt

(***************************************************************************)
(* What a visit ships of an array: out has the member r[i] of it as its    *)
(* i-th delta, S is the part of the array whose deltas are in D, and what  *)
(* is not shipped is empty.                                                *)
(***************************************************************************)
Delivers(V, r, out, C, val, S, D) ==
  /\ out \in Seq(V) /\ \A d \in V : d.value \in Int
  /\ IsFiniteSet(C) /\ val \in [C -> Int] /\ S \in SUBSET C
  /\ DOMAIN out = DOMAIN r
  /\ \A i \in DOMAIN r : /\ r[i] \in C
                         /\ out[i].value = val[r[i]]
                         /\ out[i] \in D <=> r[i] \in S
  /\ Visits(r)
  /\ \A c \in S : val[c] # 0 => \E i \in DOMAIN r : r[i] = c

LEMMA DeliversAll ==
  ASSUME NEW V, NEW r, NEW out, NEW C, NEW val, NEW S, NEW D,
         Delivers(V, r, out, C, val, S, D)
  PROVE  /\ OnWay(out, D) = SumOf(PartOf(val, S))
         /\ IsFiniteSet(S) /\ PartOf(val, S) \in [S -> Int]
<1> /\ out \in Seq(V) /\ \A d \in V : d.value \in Int
    /\ IsFiniteSet(C) /\ val \in [C -> Int] /\ S \in SUBSET C
    /\ DOMAIN out = DOMAIN r
    /\ \A i \in DOMAIN r : /\ r[i] \in C
                           /\ out[i].value = val[r[i]]
                           /\ out[i] \in D <=> r[i] \in S
    /\ \A i, j \in DOMAIN r : r[i] = r[j] => i = j
    /\ \A c \in S : val[c] # 0 => \E i \in DOMAIN r : r[i] = c
  BY DEF Delivers, Visits
<1>1. PICK T : T = At(out, D)
  OBVIOUS
<1>2. PICK f : f = [i \in T |-> out[i].value]
  OBVIOUS
<1>3. IsFiniteSet(T) /\ f \in [T -> Int] /\ OnWay(out, D) = SumOf(f)
  BY <1>1, <1>2, AtFacts DEF OnWay
<1>4. \A i : i \in T <=> i \in DOMAIN r /\ r[i] \in S
  BY <1>1 DEF At
<1>5. PICK R, h : R = {r[i] : i \in T} /\ h = PartOf(val, S)
  OBVIOUS
<1>6. IsFiniteSet(S)
  BY FS_Subset
<1>7. h \in [S -> Int] /\ \A c \in S : h[c] = val[c]
  BY <1>5 DEF PartOf
<1>8. R \in SUBSET S
  BY <1>4, <1>5
<1>9. PICK g, rest, ren : /\ g = [c \in R |-> h[c]] /\ rest = [c \in S \ R |-> h[c]]
                          /\ ren = [i \in T |-> r[i]]
  OBVIOUS
<1>10. g \in [R -> Int] /\ \A c \in R : g[c] = h[c]
  BY <1>7, <1>8, <1>9
<1>11. rest \in [S \ R -> Int] /\ \A c \in S \ R : rest[c] = h[c]
  BY <1>7, <1>9
<1>12. SumOf(h) = SumOf(g) + SumOf(rest)
  <2>1. Parted(S, h, R, g, S \ R, rest)
    BY <1>6, <1>7, <1>8, <1>10, <1>11 DEF Parted
  <2> QED
    BY <2>1, IntSumSplit
<1>13. SumOf(rest) = 0
  <2>1. \A c \in S \ R : rest[c] = 0
    <3> SUFFICES ASSUME NEW c \in S \ R, val[c] # 0
                 PROVE  FALSE
      BY <1>7, <1>11
    <3>1. PICK i \in DOMAIN r : r[i] = c
      OBVIOUS
    <3>2. i \in T
      BY <1>4, <3>1
    <3> QED
      BY <1>5, <3>1, <3>2
  <2>2. IsFiniteSet(S \ R)
    BY <1>6, FS_Subset
  <2> QED
    BY <1>11, <2>1, <2>2, IntSumOfNothing
<1>14. SumOf(f) = SumOf(g)
  <2>1. ren \in [T -> R] /\ \A c \in R : \E i \in T : ren[i] = c
    BY <1>5, <1>9
  <2>2. \A i, j \in T : ren[i] = ren[j] => i = j
    BY <1>4, <1>9
  <2>3. \A i \in T : f[i] = g[ren[i]]
    <3>1. \A i \in T : f[i] = val[r[i]] /\ ren[i] = r[i] /\ r[i] \in R /\ r[i] \in S
      BY <1>2, <1>4, <1>5, <1>9
    <3> QED
      BY <1>7, <1>10, <3>1
  <2>4. Renames(ren, T, f, R, g)
    BY <1>3, <1>10, <2>1, <2>2, <2>3 DEF Renames
  <2> QED
    BY <2>4, IntSumRenamed
<1>15. SumOf(h) \in Int /\ SumOf(g) \in Int
  <2>1. IsFiniteSet(R)
    BY <1>6, <1>8, FS_Subset
  <2> QED
    BY <1>6, <1>7, <1>10, <2>1, IntSumFacts
<1>16. SumOf(f) = SumOf(h)
  BY <1>12, <1>13, <1>14, <1>15
<1> QED
  BY <1>3, <1>5, <1>6, <1>7, <1>16

(***************************************************************************)
(* CocoSketch: the weight of its cells.                                    *)
(***************************************************************************)
LEMMA ToSetFinite ==
  ASSUME NEW p, Row(p)
  PROVE  IsFiniteSet(ToSet(p))
<1>1. PICK m \in Nat : m = Len(p) /\ DOMAIN p = 1..m
  BY RowFacts
<1>2. p = [i \in 1..m |-> p[i]]
  BY <1>1 DEF Row
<1>3. IsFiniteSet(Range(p))
  BY <1>1, <1>2, FS_Interval, ImageFinite
<1> QED
  BY <1>3 DEF ToSet, Range

LEMMA CocoFacts ==
  /\ IsFiniteSet(CocoCells)
  /\ Row(CocoOrder) /\ Visits(CocoOrder) /\ ToSet(CocoOrder) = CocoCells
  /\ NoHolder \notin Keys
  /\ \A k \in Keys : CocoRows[k] \in Seq(CocoCells) /\ CocoRows[k] # <<>>
<1>1. DOMAIN CocoRows = Keys
  BY PlansAssumption DEF PlansAssumption
<1>2. /\ Row(CocoOrder) /\ Visits(CocoOrder) /\ ToSet(CocoOrder) = CocoCells
      /\ NoHolder \notin Keys
      /\ \A k \in Keys : CocoRows[k] \in Seq(CocoCells) /\ CocoRows[k] # <<>>
  BY <1>1, CocoAssumption DEF CocoAssumption, Row, CocoCells
<1>3. IsFiniteSet(CocoCells)
  BY <1>2, ToSetFinite
<1> QED
  BY <1>2, <1>3

LEMMA CocoValTyped ==
  ASSUME NEW t \in CocoTable
  PROVE  CocoVal(t) \in [CocoCells -> Int] /\ SumOf(CocoVal(t)) \in Int
<1>1. CocoVal(t) \in [CocoCells -> Int]
  BY DEF CocoVal, CocoTable, Holders
<1> QED
  BY <1>1, CocoFacts, IntSumFacts

LEMMA CocoMassIs == \A t : CocoMass(t) = SumOf(CocoVal(t))
BY SumOverIs DEF CocoMass, Sum, CocoVal

\* The cell that takes the weight has a key, and the others stay as they are.
CocoTaken(t, v, r) ==
  /\ r.cell \in CocoCells
  /\ r.table \in CocoTable
  /\ r.table[r.cell].key \in Keys
  /\ r.table[r.cell].val = t[r.cell].val + v
  /\ \A c \in CocoCells : c # r.cell => r.table[c] = t[c]

LEMMA CocoTakesFacts ==
  ASSUME NEW t \in CocoTable, NEW k \in Keys, NEW v \in Int, NEW r \in CocoTakes(t, k, v)
  PROVE  CocoTaken(t, v, r)
<1>1. /\ t \in [CocoCells -> Holders]
      /\ \A c \in CocoCells : t[c].key = NoHolder => t[c].val = 0
  BY DEF CocoTable
<1>2. CocoRows[k] \in Seq(CocoCells) /\ CocoRows[k] # <<>> /\ NoHolder \notin Keys
  BY CocoFacts
<1>3. \E c \in CocoCells, h \in Holders :
         /\ h.key \in Keys /\ h.val = t[c].val + v
         /\ r = [cell |-> c, table |-> [t EXCEPT ![c] = h]]
  <2>1. CASE Found(t, k) # {}
    <3>1. PICK m \in Nat : m = Len(CocoRows[k]) /\ DOMAIN CocoRows[k] = 1..m
      BY <1>2
    <3>2. Found(t, k) \in SUBSET (1..m) /\ Found(t, k) \in SUBSET Nat
      BY <3>1 DEF Found
    <3>3. PICK i : i = Min(Found(t, k))
      OBVIOUS
    <3>4. i \in Found(t, k)
      BY <2>1, <3>2, <3>3, MinOf
    <3>5. PICK c : c = CocoRows[k][i]
      OBVIOUS
    <3>6. c \in CocoCells /\ t[c].key = k
      BY <1>2, <3>1, <3>2, <3>4, <3>5 DEF Found
    <3>7. r = [cell |-> c, table |-> [t EXCEPT ![c].val = @ + v]]
      BY <2>1, <3>3, <3>5 DEF CocoTakes
    <3>8. PICK h : h = [t[c] EXCEPT !.val = @ + v]
      OBVIOUS
    <3>9. t[c] \in Holders
      BY <1>1, <3>6
    <3>10. h \in Holders /\ h.key = k /\ h.val = t[c].val + v
      BY <3>6, <3>8, <3>9 DEF Holders
    <3>11. [t EXCEPT ![c].val = @ + v] = [t EXCEPT ![c] = h]
      BY <3>8
    <3> QED
      BY <3>6, <3>7, <3>10, <3>11
  <2>2. CASE Found(t, k) = {}
    <3>0. PICK c \in Lightest(t, k) : \E who \in Elected(t, c, k) :
            r = [cell |-> c, table |-> [t EXCEPT ![c] = [key |-> who, val |-> @.val + v]]]
      BY <2>2 DEF CocoTakes
    <3>1. PICK who \in Elected(t, c, k) :
            r = [cell |-> c, table |-> [t EXCEPT ![c] = [key |-> who, val |-> @.val + v]]]
      BY <3>0
    <3>2. c \in CocoCells
      BY <1>2 DEF Lightest, ToSet
    <3>3. t[c] \in Holders
      BY <1>1, <3>2
    <3>4. who \in Keys
      BY <3>1, <3>3 DEF Elected, Holders
    <3>5. PICK h : h = [key |-> who, val |-> t[c].val + v]
      OBVIOUS
    <3>6. h \in Holders /\ h.key \in Keys /\ h.val = t[c].val + v
      BY <3>3, <3>4, <3>5 DEF Holders
    <3>7. [t EXCEPT ![c] = [key |-> who, val |-> @.val + v]] = [t EXCEPT ![c] = h]
      BY <3>5
    <3> QED
      BY <3>1, <3>2, <3>6, <3>7
  <2> QED
    BY <2>1, <2>2
<1>4. PICK c \in CocoCells, h \in Holders :
         /\ h.key \in Keys /\ h.val = t[c].val + v
         /\ r = [cell |-> c, table |-> [t EXCEPT ![c] = h]]
  BY <1>3
<1>5. PICK u : u = [t EXCEPT ![c] = h]
  OBVIOUS
<1>6. u \in [CocoCells -> Holders] /\ u[c] = h /\ \A x \in CocoCells : x # c => u[x] = t[x]
  BY <1>1, <1>5
<1>7. u \in CocoTable
  BY <1>1, <1>2, <1>4, <1>6 DEF CocoTable
<1>8. r.cell = c /\ r.table = u
  BY <1>4, <1>5
<1> QED
  BY <1>4, <1>6, <1>7, <1>8 DEF CocoTaken

LEMMA CocoTakenSum ==
  ASSUME NEW t \in CocoTable, NEW v \in Int, NEW r, CocoTaken(t, v, r)
  PROVE  SumOf(CocoVal(r.table)) = SumOf(CocoVal(t)) + v
<1>1. PICK c, u : c = r.cell /\ u = r.table
  OBVIOUS
<1>2. /\ c \in CocoCells /\ u \in CocoTable /\ u[c].val = t[c].val + v
      /\ \A x \in CocoCells : x # c => u[x] = t[x]
  BY <1>1 DEF CocoTaken
<1>3. PICK f, g : f = CocoVal(t) /\ g = CocoVal(u)
  OBVIOUS
<1>4. f \in [CocoCells -> Int] /\ g \in [CocoCells -> Int] /\ SumOf(f) \in Int
  BY <1>2, <1>3, CocoValTyped
<1>5. g[c] = f[c] + v /\ \A x \in CocoCells : x # c => g[x] = f[x]
  BY <1>2, <1>3 DEF CocoVal
<1>6. ChangesAt(c, CocoCells, f, g)
  BY <1>2, <1>4, <1>5, CocoFacts DEF ChangesAt
<1>7. SumOf(g) = SumOf(f) + (g[c] - f[c])
  BY <1>6, IntSumChanged
<1>8. f[c] \in Int
  BY <1>2, <1>4
<1> QED
  BY <1>1, <1>3, <1>4, <1>5, <1>7, <1>8

\* What a worker's step leaves in its table, and what it ships of it.
CocoShips(t, n, new, out) ==
  /\ new \in CocoTable
  /\ out \in Seq(CocoDeltas)
  /\ SumOf(CocoVal(new)) + OnWay(out, CocoWay) = SumOf(CocoVal(t)) + n

LEMMA CocoInsertShips ==
  ASSUME NEW t \in CocoTable, NEW k \in Keys, NEW lim, NEW x \in CocoInsert(t, k, lim)
  PROVE  CocoShips(t, 1, x.held, x.out)
<1>1. PICK r \in CocoTakes(t, k, 1) :
        x = LET due == r.table[r.cell].val >= lim
            IN [held |-> IF due THEN [r.table EXCEPT ![r.cell].val = 0] ELSE r.table,
                out  |-> IF due THEN <<CocoDelta(r.table[r.cell])>> ELSE <<>>]
  BY DEF CocoInsert
<1>2. CocoTaken(t, 1, r)
  BY CocoTakesFacts
<1>3. SumOf(CocoVal(r.table)) = SumOf(CocoVal(t)) + 1
  BY <1>2, CocoTakenSum
<1>4. PICK c, u : c = r.cell /\ u = r.table
  OBVIOUS
<1>5. /\ c \in CocoCells /\ u \in CocoTable /\ u \in [CocoCells -> Holders]
      /\ u[c].key \in Keys /\ u[c] \in Holders
  BY <1>2, <1>4 DEF CocoTaken, CocoTable
<1>6. PICK s \in Int : s = SumOf(CocoVal(u))
  BY <1>5, CocoValTyped
<1>7. \A d \in CocoDeltas : d.value \in Int
  BY DEF CocoDeltas
<1>8. CASE u[c].val >= lim
  <2>1. PICK h : h = [u[c] EXCEPT !.val = 0]
    OBVIOUS
  <2>2. h \in Holders /\ h.key = u[c].key /\ h.val = 0
    BY <1>5, <2>1 DEF Holders
  <2>3. PICK new : new = [u EXCEPT ![c] = h]
    OBVIOUS
  <2>4. [u EXCEPT ![c].val = 0] = new
    BY <2>1, <2>3
  <2>5. /\ new \in [CocoCells -> Holders] /\ new[c] = h
        /\ \A y \in CocoCells : y # c => new[y] = u[y]
    BY <1>5, <2>2, <2>3
  <2>6. new \in CocoTable
    BY <1>5, <2>2, <2>5 DEF CocoTable
  <2>7. PICK d : d = CocoDelta(u[c])
    OBVIOUS
  <2>8. d \in CocoDeltas /\ d.value = u[c].val
    BY <1>5, <2>7 DEF CocoDelta, CocoDeltas, Holders
  <2>9. x.held = new /\ x.out = <<d>>
    BY <1>1, <1>4, <1>8, <2>4, <2>7
  <2>10. <<d>> \in Seq(CocoDeltas)
    BY <2>8
  <2>11. OnWay(<<d>>, CocoWay) = u[c].val
    BY <1>7, <2>8, OnWayOfOne DEF CocoWay
  <2>12. CocoTaken(u, -u[c].val, [cell |-> c, table |-> new])
    <3>1. u[c].val \in Int
      BY <1>5 DEF Holders
    <3>2. new[c].val = u[c].val + (-u[c].val)
      BY <2>2, <2>5, <3>1
    <3> QED
      BY <1>5, <2>2, <2>5, <2>6, <3>2 DEF CocoTaken
  <2>13. PICK m \in Int : m = u[c].val
    BY <1>5 DEF Holders
  <2>14. SumOf(CocoVal(new)) = s + (-m)
    BY <1>5, <1>6, <2>12, <2>13, CocoTakenSum
  <2> QED
    BY <1>3, <1>4, <1>6, <2>6, <2>9, <2>10, <2>11, <2>13, <2>14 DEF CocoShips
<1>9. CASE ~ (u[c].val >= lim)
  <2>1. x.held = u /\ x.out = <<>>
    BY <1>1, <1>4, <1>9
  <2>2. <<>> \in Seq(CocoDeltas) /\ DOMAIN <<>> = {}
    OBVIOUS
  <2>3. OnWay(<<>>, CocoWay) = 0
    BY <1>7, <2>2, OnWayOfNone
  <2> QED
    BY <1>3, <1>4, <1>5, <1>6, <2>1, <2>2, <2>3 DEF CocoShips
<1> QED
  BY <1>8, <1>9

LEMMA CocoFlushShips ==
  ASSUME NEW t \in CocoTable
  PROVE  CocoShips(t, 0, CocoFlush(t).held, CocoFlush(t).out)
<1>1. PICK picked, full : /\ picked = {c \in CocoCells : t[c].val # 0}
                          /\ full = InOrder(CocoOrder, picked)
  OBVIOUS
<1>2. /\ Row(full) /\ Visits(full)
      /\ \A n \in DOMAIN full : full[n] \in picked
      /\ \A c \in picked : \E n \in DOMAIN full : full[n] = c
  <2>1. Picks(CocoOrder, picked, full)
    BY <1>1, CocoFacts, InOrderFacts
  <2>2. picked \cap ToSet(CocoOrder) = picked
    BY <1>1, CocoFacts
  <2> QED
    BY <2>1, <2>2 DEF Picks
<1>3. PICK new, out : /\ new = [c \in CocoCells |-> [t[c] EXCEPT !.val = 0]]
                      /\ out = [i \in DOMAIN full |-> CocoDelta(t[full[i]])]
  OBVIOUS
<1>4. CocoFlush(t).held = new /\ CocoFlush(t).out = out
  BY <1>1, <1>3 DEF CocoFlush
<1>5. \A c \in CocoCells : t[c] \in Holders /\ (t[c].key = NoHolder => t[c].val = 0)
  BY DEF CocoTable
<1>6. \A c \in CocoCells : new[c] \in Holders /\ new[c].val = 0
  BY <1>3, <1>5 DEF Holders
<1>7. new \in CocoTable
  <2>1. new \in [CocoCells -> Holders]
    BY <1>3, <1>6
  <2> QED
    BY <1>6, <2>1 DEF CocoTable
<1>8. \A i \in DOMAIN full : /\ full[i] \in CocoCells
                             /\ CocoDelta(t[full[i]]) \in CocoDeltas
                             /\ CocoDelta(t[full[i]]).value = t[full[i]].val
  <2> SUFFICES ASSUME NEW i \in DOMAIN full
               PROVE  /\ full[i] \in CocoCells
                      /\ CocoDelta(t[full[i]]) \in CocoDeltas
                      /\ CocoDelta(t[full[i]]).value = t[full[i]].val
    OBVIOUS
  <2>1. full[i] \in CocoCells /\ t[full[i]].val # 0
    BY <1>1, <1>2
  <2>2. t[full[i]].key \in Keys /\ t[full[i]].val \in Int
    BY <1>5, <2>1 DEF Holders
  <2> QED
    BY <2>1, <2>2 DEF CocoDelta, CocoDeltas
<1>9. out \in Seq(CocoDeltas)
  <2>1. PICK m \in Nat : m = Len(full) /\ DOMAIN full = 1..m
    BY <1>2, RowFacts
  <2>2. out = [i \in 1..m |-> CocoDelta(t[full[i]])]
    BY <1>3, <2>1
  <2> QED
    BY <1>8, <2>1, <2>2
<1>10. PICK val : val = CocoVal(t)
  OBVIOUS
<1>11. val \in [CocoCells -> Int] /\ SumOf(val) \in Int /\ \A c \in CocoCells : val[c] = t[c].val
  BY <1>10, CocoValTyped DEF CocoVal
<1>12. Delivers(CocoDeltas, full, out, CocoCells, val, CocoCells, CocoWay)
  <2>1. \A d \in CocoDeltas : d.value \in Int
    BY DEF CocoDeltas
  <2>2. \A i \in DOMAIN full : /\ full[i] \in CocoCells
                               /\ out[i].value = val[full[i]]
                               /\ out[i] \in CocoWay <=> full[i] \in CocoCells
    BY <1>3, <1>8, <1>11 DEF CocoWay
  <2>3. \A c \in CocoCells : val[c] # 0 => \E i \in DOMAIN full : full[i] = c
    BY <1>1, <1>2, <1>11
  <2>4. DOMAIN out = DOMAIN full /\ IsFiniteSet(CocoCells) /\ CocoCells \in SUBSET CocoCells
    BY <1>3, CocoFacts
  <2> QED
    BY <1>2, <1>9, <1>11, <2>1, <2>2, <2>3, <2>4 DEF Delivers
<1>13. OnWay(out, CocoWay) = SumOf(val)
  <2>1. OnWay(out, CocoWay) = SumOf(PartOf(val, CocoCells))
    BY <1>12, DeliversAll
  <2>2. PartOf(val, CocoCells) = val
    BY <1>11 DEF PartOf
  <2> QED
    BY <2>1, <2>2
<1>14. SumOf(CocoVal(new)) = 0
  <2>1. PICK f : f = CocoVal(new)
    OBVIOUS
  <2>2. f \in [CocoCells -> Int] /\ \A c \in CocoCells : f[c] = 0
    BY <1>6, <2>1 DEF CocoVal
  <2> QED
    BY <2>1, <2>2, CocoFacts, IntSumOfNothing
<1>15. SumOf(CocoVal(new)) + OnWay(out, CocoWay) = SumOf(CocoVal(t)) + 0
  BY <1>10, <1>11, <1>13, <1>14
<1> QED
  BY <1>4, <1>7, <1>9, <1>15 DEF CocoShips

LEMMA CocoCarry ==
  ASSUME CocoTyped
  PROVE  /\ Carry(CocoDeltas, queue)
         /\ Amounts(CocoBack(held))
         /\ SumOf(CocoVal(parent)) \in Int
<1>1. Carry(CocoDeltas, queue)
  BY DEF CocoTyped, Carry, CocoDeltas
<1>2. \A w \in Workers : SumOf(CocoVal(held[w])) \in Int
  BY CocoValTyped DEF CocoTyped
<1> QED
  BY <1>1, <1>2, CocoValTyped DEF CocoTyped, Amounts, CocoBack

\* A worker's step, which is given n.
WorkerShips(w, n, new, out) ==
  /\ OffWorker(w, Weights, Weights')
  /\ Weights'[w] = Weights[w] + n /\ n \in Nat
  /\ held' = [held EXCEPT ![w] = new]
  /\ queue' = [queue EXCEPT ![w] = @ \o out]
  /\ parent' = parent /\ plan' = plan

LEMMA CocoShipsKept ==
  ASSUME CocoKept, plan = "Coco", NEW w \in Workers, NEW n, NEW new, NEW out,
         CocoShips(held[w], n, new, out), WorkerShips(w, n, new, out)
  PROVE  CocoKept'
<1>1. /\ OffWorker(w, Weights, Weights')
      /\ Weights'[w] = Weights[w] + n /\ n \in Nat
      /\ held' = [held EXCEPT ![w] = new]
      /\ queue' = [queue EXCEPT ![w] = @ \o out]
      /\ parent' = parent /\ plan' = plan
  BY DEF WorkerShips
<1>2. /\ new \in CocoTable /\ out \in Seq(CocoDeltas)
      /\ SumOf(CocoVal(new)) + OnWay(out, CocoWay) = SumOf(CocoVal(held[w])) + n
  BY DEF CocoShips
<1>3. /\ CocoTyped
      /\ Balanced(Weights, SumOf(CocoVal(parent)), CocoBack(held), queue, CocoWay)
  BY DEF CocoKept
<1>4. /\ Carry(CocoDeltas, queue) /\ Amounts(CocoBack(held))
      /\ SumOf(CocoVal(parent)) \in Int
  BY <1>3, CocoCarry
<1>5. CocoTyped'
  <2>1. PICK q \in Seq(CocoDeltas) : q = queue[w]
    BY <1>3 DEF CocoTyped
  <2>2. q \o out \in Seq(CocoDeltas)
    BY <1>2, <2>1, ConcatRow
  <2>3. queue' = [queue EXCEPT ![w] = q \o out]
    BY <1>1, <2>1
  <2> QED
    BY <1>1, <1>2, <1>3, <2>2, <2>3 DEF CocoTyped
<1>6. /\ held'[w] = new /\ \A v \in Workers : v # w => held'[v] = held[v]
  BY <1>1, <1>3 DEF CocoTyped
<1>7. Amounts(CocoBack(held'))
  <2>1. \A v \in Workers : SumOf(CocoVal(held'[v])) \in Int
    BY <1>5, CocoValTyped DEF CocoTyped
  <2> QED
    BY <2>1 DEF Amounts, CocoBack
<1>8. OffWorker(w, CocoBack(held), CocoBack(held'))
  BY <1>4, <1>6, <1>7 DEF OffWorker, Amounts, CocoBack
<1>9. Weights[w] \in Int /\ Weights'[w] - Weights[w] = n
  BY <1>1 DEF OffWorker
<1>10. CocoBack(held)[w] = SumOf(CocoVal(held[w])) /\ CocoBack(held')[w] = SumOf(CocoVal(new))
  BY <1>6 DEF CocoBack
<1>11. /\ Queued(CocoDeltas, w, queue, out, queue')
       /\ Parts(w, CocoBack(held), CocoBack(held'), Weights, Weights', OnWay(out, CocoWay))
  BY <1>1, <1>2, <1>9, <1>10 DEF Queued, Parts
<1>12. Balanced(Weights', SumOf(CocoVal(parent)), CocoBack(held'), queue', CocoWay)
  BY <1>1, <1>3, <1>4, <1>8, <1>11, ShippingBalances
<1> QED
  BY <1>1, <1>5, <1>12 DEF CocoKept

LEMMA CocoKeptProcess ==
  ASSUME CocoKept, Shares, plan = "Coco", NEW w \in Workers, NEW k \in KeysOf[plan], Process(w, k)
  PROVE  CocoKept'
<1>1. PICK x \in Outcomes(w, k) : Ships(w, x)
  BY DEF Process
<1>2. plan' = plan /\ parent' = parent /\ given' = [given EXCEPT ![w][k] = @ + 1]
  BY DEF Process
<1>3. ~ CellPlan(plan) /\ plan # "Hll" /\ plan # "Elastic"
  BY DEF CellPlan, HeapPlans
<1>4. x \in CocoInsert(held[w], k, tau)
  BY <1>1, <1>3 DEF Outcomes
<1>5. k \in Keys /\ held[w] \in CocoTable
  BY WeightNat DEF CocoKept, CocoTyped
<1>6. CocoShips(held[w], 1, x.held, x.out)
  BY <1>4, <1>5, CocoInsertShips
<1>7. OffWorker(w, Weights, Weights') /\ Weights'[w] = Weights[w] + 1
  BY <1>2, WeightGrows
<1>8. WorkerShips(w, 1, x.held, x.out)
  BY <1>1, <1>2, <1>7 DEF WorkerShips, Ships
<1> QED
  BY <1>6, <1>8, CocoShipsKept

\* A flush gives nothing.
LEMMA FlushShips ==
  ASSUME Shares, NEW w \in Workers, Flush(w)
  PROVE  WorkerShips(w, 0, FlushOf(w).held, FlushOf(w).out)
<1>1. /\ plan' = plan /\ parent' = parent /\ given' = given
      /\ Ships(w, FlushOf(w))
  BY DEF Flush
<1>2. Weights' = Weights /\ Weights \in [Workers -> Nat]
  BY <1>1, WeightsStay, WeightsTyped
<1>3. OffWorker(w, Weights, Weights') /\ Weights'[w] = Weights[w] + 0
  BY <1>2 DEF OffWorker
<1> QED
  BY <1>1, <1>3 DEF WorkerShips, Ships

LEMMA CocoKeptFlush ==
  ASSUME CocoKept, Shares, plan = "Coco", NEW w \in Workers, Flush(w)
  PROVE  CocoKept'
<1>1. WorkerShips(w, 0, FlushOf(w).held, FlushOf(w).out)
  BY FlushShips
<1>2. FlushOf(w) = CocoFlush(held[w])
  <2>1. ~ CellPlan(plan) /\ plan # "Hll" /\ plan # "Elastic"
    BY DEF CellPlan, HeapPlans
  <2> QED
    BY <2>1 DEF FlushOf
<1>3. held[w] \in CocoTable
  BY DEF CocoKept, CocoTyped
<1>4. CocoShips(held[w], 0, FlushOf(w).held, FlushOf(w).out)
  BY <1>2, <1>3, CocoFlushShips
<1> QED
  BY <1>1, <1>4, CocoShipsKept

LEMMA CocoKeptApply ==
  ASSUME CocoKept, Shares, plan = "Coco", NEW w \in Workers, Apply(w)
  PROVE  CocoKept'
<1>1. /\ plan' = plan /\ held' = held /\ given' = given
      /\ queue' = [queue EXCEPT ![w] = Tail(@)] /\ queue[w] # <<>>
      /\ parent' \in ParentOutcomes(Head(queue[w]))
  BY DEF Apply, Polled
<1>2. /\ CocoTyped
      /\ Balanced(Weights, SumOf(CocoVal(parent)), CocoBack(held), queue, CocoWay)
  BY DEF CocoKept
<1>3. PICK d : d = Head(queue[w])
  OBVIOUS
<1>4. PICK q \in Seq(CocoDeltas) : q = queue[w]
  BY <1>2 DEF CocoTyped
<1>5. d \in CocoDeltas /\ Tail(q) \in Seq(CocoDeltas)
  BY <1>1, <1>3, <1>4
<1>6. ParentOutcomes(d) = CocoApplied(parent, d)
  <2>1. ~ CellPlan(plan) /\ plan # "Hll" /\ plan # "Elastic"
    BY DEF CellPlan, HeapPlans
  <2> QED
    BY <2>1 DEF ParentOutcomes
<1>7. PICK r \in CocoTakes(parent, d.key, d.value) : parent' = r.table
  BY <1>1, <1>3, <1>6 DEF CocoApplied
<1>8. d.key \in Keys /\ d.value \in Int /\ parent \in CocoTable
  BY <1>2, <1>5 DEF CocoDeltas, CocoTyped
<1>9. CocoTaken(parent, d.value, r)
  BY <1>7, <1>8, CocoTakesFacts
<1>10. /\ parent' \in CocoTable
       /\ SumOf(CocoVal(parent')) = SumOf(CocoVal(parent)) + d.value
  BY <1>7, <1>8, <1>9, CocoTakenSum DEF CocoTaken
<1>11. CocoTyped'
  <2>1. queue' = [queue EXCEPT ![w] = Tail(q)]
    BY <1>1, <1>4
  <2> QED
    BY <1>1, <1>2, <1>5, <1>10, <2>1 DEF CocoTyped
<1>12. /\ Carry(CocoDeltas, queue) /\ Amounts(CocoBack(held))
       /\ SumOf(CocoVal(parent)) \in Int
  BY <1>2, CocoCarry
<1>13. SumOf(CocoVal(parent')) \in Int
  BY <1>10, CocoValTyped
<1>14. /\ Taken(w, queue, d, queue')
       /\ Gives(SumOf(CocoVal(parent)), SumOf(CocoVal(parent')), d, CocoWay)
  <2>1. d \in CocoWay
    BY <1>5 DEF CocoWay
  <2>2. SumOf(CocoVal(parent')) - SumOf(CocoVal(parent)) = d.value
    BY <1>8, <1>10, <1>12
  <2> QED
    BY <1>1, <1>3, <2>1, <2>2 DEF Taken, Gives
<1>15. Amounts(Weights)
  BY WeightsTyped
<1>16. Balanced(Weights, SumOf(CocoVal(parent')), CocoBack(held), queue', CocoWay)
  BY <1>2, <1>12, <1>13, <1>14, <1>15, TakingBalances
<1>17. Weights' = Weights
  BY <1>1, WeightsStay
<1> QED
  BY <1>1, <1>11, <1>16, <1>17 DEF CocoKept

\* Where nobody was given anything and nothing is held or on the way.
LEMMA NothingBalances ==
  ASSUME Init, NEW S, Carry(S, queue), NEW back, Amounts(back),
         \A w \in Workers : back[w] = 0, NEW D
  PROVE  Balanced(Weights, 0, back, queue, D)
<1>1. Weights \in [Workers -> Int] /\ \A w \in Workers : Weights[w] = 0
  BY NothingGiven DEF Weights
<1>2. SumOf(Weights) = 0
  BY <1>1, WorkersFinite, IntSumOfNothing
<1>3. \A w \in Workers : OnWay(queue[w], D) = 0
  <2>1. <<>> \in Seq(S) /\ DOMAIN <<>> = {}
    OBVIOUS
  <2>2. OnWay(<<>>, D) = 0
    BY <2>1, OnWayOfNone DEF Carry
  <2> QED
    BY <2>2 DEF Init
<1>4. PICK f : f = Apart(back, queue, D)
  OBVIOUS
<1>5. Totals(f, back, queue, D)
  BY <1>4, ApartFacts
<1>6. f \in [Workers -> Int] /\ \A w \in Workers : f[w] = 0
  BY <1>3, <1>5 DEF Totals, Amounts
<1>7. SumOf(f) = 0
  BY <1>6, WorkersFinite, IntSumOfNothing
<1> QED
  BY <1>2, <1>4, <1>7 DEF Balanced

LEMMA CocoKeptInit == Init => CocoKept
<1> SUFFICES ASSUME Init, plan = "Coco"
             PROVE  CocoKept
  BY DEF CocoKept
<1>1. /\ held = [w \in Workers |-> NoCoco] /\ parent = NoCoco
      /\ queue = [w \in Workers |-> <<>>]
  <2>1. ~ CellPlan(plan) /\ plan # "Hll" /\ plan # "Elastic"
    BY DEF CellPlan, HeapPlans
  <2>2. Fresh(plan) = NoCoco
    BY <2>1 DEF Fresh
  <2> QED
    BY <2>2 DEF Init
<1>2. NoCoco \in CocoTable /\ \A c \in CocoCells : NoCoco[c].val = 0
  BY DEF NoCoco, CocoTable, Holders
<1>3. CocoTyped
  <2>1. <<>> \in Seq(CocoDeltas)
    OBVIOUS
  <2> QED
    BY <1>1, <1>2, <2>1 DEF CocoTyped
<1>4. SumOf(CocoVal(NoCoco)) = 0
  <2>1. PICK f : f = CocoVal(NoCoco)
    OBVIOUS
  <2>2. f \in [CocoCells -> Int] /\ \A c \in CocoCells : f[c] = 0
    BY <1>2, <2>1 DEF CocoVal
  <2> QED
    BY <2>1, <2>2, CocoFacts, IntSumOfNothing
<1>5. Carry(CocoDeltas, queue) /\ Amounts(CocoBack(held))
  BY <1>3, CocoCarry
<1>6. \A w \in Workers : CocoBack(held)[w] = 0
  BY <1>1, <1>4 DEF CocoBack
<1>7. Balanced(Weights, 0, CocoBack(held), queue, CocoWay)
  BY <1>5, <1>6, NothingBalances
<1> QED
  BY <1>1, <1>3, <1>4, <1>7 DEF CocoKept

LEMMA GivenSum == Sum(Workers, WeightTotal) = SumOf(Weights)
<1>1. Sum(Workers, WeightTotal) = SumOver(Weights)
  BY DEF Sum, Weights
<1> QED
  BY <1>1, SumOverIs

LEMMA CocoMassKept ==
  ASSUME CocoKept, plan = "Coco"
  PROVE  MassKept(CocoMass, LAMBDA d : TRUE)
<1>1. /\ CocoTyped
      /\ Balanced(Weights, SumOf(CocoVal(parent)), CocoBack(held), queue, CocoWay)
  BY DEF CocoKept
<1>2. \A w \in Workers : InFlight(w, LAMBDA d : TRUE) = OnWay(queue[w], CocoWay)
  <2> SUFFICES ASSUME NEW w \in Workers
               PROVE  InFlight(w, LAMBDA d : TRUE) = OnWay(queue[w], CocoWay)
    OBVIOUS
  <2>1. queue[w] \in Seq(CocoDeltas)
    BY <1>1 DEF CocoTyped
  <2>2. \A i \in DOMAIN queue[w] : queue[w][i] \in CocoWay
    BY <2>1 DEF CocoWay
  <2>3. {i \in DOMAIN queue[w] : TRUE} = At(queue[w], CocoWay)
    BY <2>2 DEF At
  <2>4. InFlight(w, LAMBDA d : TRUE) = SumOver([i \in At(queue[w], CocoWay) |-> queue[w][i].value])
    BY <2>3 DEF InFlight, Sum
  <2> QED
    BY <2>4, SumOverIs DEF OnWay
<1>3. [w \in Workers |-> CocoMass(held[w]) + InFlight(w, LAMBDA d : TRUE)]
      = Apart(CocoBack(held), queue, CocoWay)
  BY <1>2, CocoMassIs DEF Apart, CocoBack
<1>4. Sum(Workers, LAMBDA w : CocoMass(held[w]) + InFlight(w, LAMBDA d : TRUE))
      = SumOf(Apart(CocoBack(held), queue, CocoWay))
  <2>1. Sum(Workers, LAMBDA w : CocoMass(held[w]) + InFlight(w, LAMBDA d : TRUE))
        = SumOver(Apart(CocoBack(held), queue, CocoWay))
    BY <1>3 DEF Sum
  <2> QED
    BY <2>1, SumOverIs
<1>5. Sum(Workers, WeightTotal)
      = CocoMass(parent) + Sum(Workers, LAMBDA w : CocoMass(held[w]) + InFlight(w, LAMBDA d : TRUE))
  BY <1>1, <1>4, GivenSum, CocoMassIs DEF Balanced
<1> QED
  BY <1>5 DEF MassKept

(***************************************************************************)
(* Elastic: the votes of the buckets and, row by row, the light counters.  *)
(***************************************************************************)
LEMMA ElasticFacts ==
  /\ IsFiniteSet(Buckets) /\ IsFiniteSet(LightCells)
  /\ Row(BucketOrder) /\ Visits(BucketOrder) /\ ToSet(BucketOrder) = Buckets
  /\ Row(LightOrder) /\ Visits(LightOrder) /\ ToSet(LightOrder) = LightCells
  /\ NoFlow \notin Keys
  /\ \A k \in Keys : BucketOf[k] \in Buckets /\ LightOf[k] \subseteq LightCells
<1>1. DOMAIN BucketOf = Keys
  BY PlansAssumption DEF PlansAssumption
<1>2. /\ Row(BucketOrder) /\ Visits(BucketOrder) /\ ToSet(BucketOrder) = Buckets
      /\ Row(LightOrder) /\ Visits(LightOrder) /\ ToSet(LightOrder) = LightCells
  BY ElasticAssumption DEF ElasticAssumption, Row, Buckets, LightCells
<1>3. IsFiniteSet(Buckets) /\ IsFiniteSet(LightCells)
  BY <1>2, ToSetFinite
<1>4. /\ NoFlow \notin Keys
      /\ \A k \in Keys : BucketOf[k] \in Buckets /\ LightOf[k] \subseteq LightCells
  BY <1>1, ElasticAssumption DEF ElasticAssumption
<1> QED
  BY <1>2, <1>3, <1>4

LEMMA RowCellsFacts ==
  ASSUME NEW row
  PROVE  RowCells(row) \in SUBSET LightCells /\ IsFiniteSet(RowCells(row))
<1>1. RowCells(row) \in SUBSET LightCells
  BY DEF RowCells
<1> QED
  BY <1>1, ElasticFacts, FS_Subset

LEMMA RowPart ==
  ASSUME NEW l \in LightPart, NEW row
  PROVE  /\ PartOf(l, RowCells(row)) \in [RowCells(row) -> Int]
         /\ SumOf(PartOf(l, RowCells(row))) \in Int
<1>1. PartOf(l, RowCells(row)) \in [RowCells(row) -> Int]
  BY RowCellsFacts DEF PartOf, LightPart
<1> QED
  BY <1>1, RowCellsFacts, IntSumFacts

LEMMA VotesTyped ==
  ASSUME NEW h \in HeavyPart
  PROVE  Votes(h) \in [Buckets -> Int] /\ SumOf(Votes(h)) \in Int
<1>1. Votes(h) \in [Buckets -> Int]
  BY DEF Votes, HeavyPart, Bucks
<1> QED
  BY <1>1, ElasticFacts, IntSumFacts

\* A bucket that is replaced.
Fit(u) == u \in Bucks /\ (u.id = NoFlow => u.pos = 0)

LEMMA BucketPut ==
  ASSUME NEW h \in HeavyPart, NEW b \in Buckets, NEW u, Fit(u)
  PROVE  /\ [h EXCEPT ![b] = u] \in HeavyPart
         /\ SumOf(Votes([h EXCEPT ![b] = u])) = SumOf(Votes(h)) + (u.pos - h[b].pos)
         /\ Fit(h[b]) /\ h[b].pos \in Int /\ u.pos \in Int
<1>1. PICK g : g = [h EXCEPT ![b] = u]
  OBVIOUS
<1>2. h \in [Buckets -> Bucks] /\ \A x \in Buckets : h[x].id = NoFlow => h[x].pos = 0
  BY DEF HeavyPart
<1>3. g \in [Buckets -> Bucks] /\ g[b] = u /\ \A x \in Buckets : x # b => g[x] = h[x]
  BY <1>1, <1>2 DEF Fit
<1>4. g \in HeavyPart
  BY <1>2, <1>3 DEF HeavyPart, Fit
<1>5. PICK v, w : v = Votes(h) /\ w = Votes(g)
  OBVIOUS
<1>6. v \in [Buckets -> Int] /\ w \in [Buckets -> Int]
  BY <1>4, <1>5, VotesTyped
<1>7. v[b] = h[b].pos /\ w[b] = u.pos /\ \A x \in Buckets : x # b => w[x] = v[x]
  BY <1>3, <1>5 DEF Votes
<1>8. ChangesAt(b, Buckets, v, w)
  BY <1>6, <1>7, ElasticFacts DEF ChangesAt
<1>9. SumOf(w) = SumOf(v) + (w[b] - v[b])
  BY <1>8, IntSumChanged
<1>10. Fit(h[b]) /\ h[b].pos \in Int /\ u.pos \in Int
  BY <1>2 DEF Fit, Bucks
<1> QED
  BY <1>1, <1>4, <1>5, <1>7, <1>9, <1>10

\* A flow adds once to every row of the light part.
LEMMA LightPut ==
  ASSUME NEW l \in LightPart, NEW k \in Keys, NEW n \in Int
  PROVE  /\ LightAdded(l, k, n) \in LightPart
         /\ \A row \in LightRows :
              SumOf(PartOf(LightAdded(l, k, n), RowCells(row)))
              = SumOf(PartOf(l, RowCells(row))) + n
<1>1. PICK m : m = LightAdded(l, k, n)
  OBVIOUS
<1>2. m = [c \in LightCells |-> l[c] + (IF c \in LightOf[k] THEN n ELSE 0)]
  BY <1>1 DEF LightAdded
<1>3. \A c \in LightCells : l[c] \in Int
  BY DEF LightPart
<1>4. m \in LightPart
  BY <1>2, <1>3 DEF LightPart
<1>5. \A c \in LightCells : m[c] = IF c \in LightOf[k] THEN l[c] + n ELSE l[c]
  BY <1>2, <1>3
<1>6. ASSUME NEW row \in LightRows
      PROVE  SumOf(PartOf(m, RowCells(row))) = SumOf(PartOf(l, RowCells(row))) + n
  <2>1. PICK c \in LightOf[k] : {d \in LightOf[k] : d[1] = row} = {c}
    <3>1. DOMAIN BucketOf = Keys
      BY PlansAssumption DEF PlansAssumption
    <3> QED
      BY <3>1, ElasticAssumption DEF ElasticAssumption
  <2>2. PICK S : S = RowCells(row)
    OBVIOUS
  <2>3. S \in SUBSET LightCells /\ IsFiniteSet(S)
    BY <2>2, RowCellsFacts
  <2>4. c[1] = row /\ \A d \in LightOf[k] : d[1] = row => d = c
    BY <2>1
  <2>5. c \in LightCells
    BY <2>1, ElasticFacts
  <2>6. c \in S /\ \A d \in S : d \in LightOf[k] => d = c
    BY <2>2, <2>4, <2>5 DEF RowCells
  <2>7. PICK f, g : f = PartOf(l, S) /\ g = PartOf(m, S)
    OBVIOUS
  <2>8. f \in [S -> Int] /\ g \in [S -> Int] /\ SumOf(f) \in Int
    BY <1>4, <2>2, <2>7, RowPart
  <2>9. \A d \in S : f[d] = l[d] /\ g[d] = m[d]
    BY <2>7 DEF PartOf
  <2>10. g[c] = f[c] + n /\ \A d \in S : d # c => g[d] = f[d]
    BY <1>5, <2>1, <2>3, <2>6, <2>9
  <2>11. ChangesAt(c, S, f, g)
    BY <2>3, <2>6, <2>8, <2>10 DEF ChangesAt
  <2>12. SumOf(g) = SumOf(f) + (g[c] - f[c])
    BY <2>11, IntSumChanged
  <2>13. f[c] \in Int
    BY <2>6, <2>8
  <2> QED
    BY <2>2, <2>7, <2>8, <2>10, <2>12, <2>13
<1> QED
  BY <1>1, <1>4, <1>6

LEMMA DeltaValues == \A d \in ElasticDeltas : d.value \in Int
<1> SUFFICES ASSUME NEW d \in ElasticDeltas
             PROVE  d.value \in Int
  OBVIOUS
<1>1. CASE d \in [kind : {"heavy"}, key : Keys, value : Int, flag : BOOLEAN]
  BY <1>1
<1>2. CASE d \in [kind : {"evicted"}, key : Keys, value : Int]
  BY <1>2
<1>3. CASE d \in [kind : {"light"}, cell : LightCells, value : Int]
  BY <1>3
<1> QED
  BY <1>1, <1>2, <1>3 DEF ElasticDeltas

LEMMA HeavyDelta ==
  ASSUME NEW k \in Keys, NEW n \in Int, NEW flag \in BOOLEAN
  PROVE  /\ Heavy(k, n, flag) \in ElasticDeltas /\ Heavy(k, n, flag).value = n
         /\ \A row : Heavy(k, n, flag) \in RowWay(row)
<1>1. PICK d : d = Heavy(k, n, flag)
  OBVIOUS
<1>2. d \in [kind : {"heavy"}, key : Keys, value : Int, flag : BOOLEAN]
  BY <1>1 DEF Heavy
<1>3. d \in ElasticDeltas
  BY <1>2 DEF ElasticDeltas
<1>4. d.kind = "heavy" /\ d.value = n
  BY <1>1 DEF Heavy
<1> QED
  BY <1>1, <1>3, <1>4 DEF RowWay

LEMMA EvictedDelta ==
  ASSUME NEW k \in Keys, NEW n \in Int
  PROVE  /\ Evicted(k, n) \in ElasticDeltas /\ Evicted(k, n).value = n
         /\ \A row : Evicted(k, n) \in RowWay(row)
<1>1. PICK d : d = Evicted(k, n)
  OBVIOUS
<1>2. d \in [kind : {"evicted"}, key : Keys, value : Int]
  BY <1>1 DEF Evicted
<1>3. d \in ElasticDeltas
  BY <1>2 DEF ElasticDeltas
<1>4. d.kind = "evicted" /\ d.value = n
  BY <1>1 DEF Evicted
<1> QED
  BY <1>1, <1>3, <1>4 DEF RowWay

LEMMA LightDelta ==
  ASSUME NEW c \in LightCells, NEW n \in Int, NEW d, d = [kind |-> "light", cell |-> c, value |-> n]
  PROVE  /\ d \in ElasticDeltas /\ d.value = n /\ d.cell = c /\ d.kind = "light"
         /\ \A row : d \in RowWay(row) <=> c[1] = row
<1>1. d \in [kind : {"light"}, cell : LightCells, value : Int]
  OBVIOUS
<1>2. d \in ElasticDeltas
  BY <1>1 DEF ElasticDeltas
<1>3. d.kind = "light" /\ d.value = n /\ d.cell = c
  OBVIOUS
<1> QED
  BY <1>2, <1>3 DEF RowWay

\* The light counters that are picked, as messages.
SentOf(picked, cells) == [c \in LightCells |-> IF c \in picked THEN cells[c] ELSE 0]

LEMMA LightShips ==
  ASSUME NEW cells \in LightPart, NEW picked \in SUBSET LightCells, NEW ps,
         Posts(LightOrder, picked, cells, ps)
  PROVE  /\ Light(ps) \in Seq(ElasticDeltas)
         /\ SentOf(picked, cells) \in LightPart
         /\ \A row : OnWay(Light(ps), RowWay(row))
                     = SumOf(PartOf(SentOf(picked, cells), RowCells(row)))
<1>1. PICK m \in Nat : m = Len(ps) /\ DOMAIN ps = 1..m
  BY RowFacts DEF Posts
<1>2. PICK out : out = Light(ps)
  OBVIOUS
<1>3. out = [i \in 1..m |-> [kind |-> "light", cell |-> ps[i].cell, value |-> ps[i].value]]
  BY <1>1, <1>2 DEF Light
<1>4. \A i \in 1..m : ps[i].cell \in LightCells /\ ps[i].cell \in picked
                       /\ ps[i].value = cells[ps[i].cell] /\ cells[ps[i].cell] \in Int
  BY <1>1 DEF Posts, LightPart
<1>5. \A i \in 1..m : /\ out[i] \in ElasticDeltas /\ out[i].value = cells[ps[i].cell]
                      /\ \A row : out[i] \in RowWay(row) <=> ps[i].cell[1] = row
  <2> SUFFICES ASSUME NEW i \in 1..m
               PROVE  /\ out[i] \in ElasticDeltas /\ out[i].value = cells[ps[i].cell]
                      /\ \A row : out[i] \in RowWay(row) <=> ps[i].cell[1] = row
    OBVIOUS
  <2>0. PICK c \in LightCells, n \in Int : c = ps[i].cell /\ n = cells[c]
    BY <1>4
  <2>1. PICK d : d = [kind |-> "light", cell |-> c, value |-> n]
    OBVIOUS
  <2>2. out[i] = d
    BY <1>3, <1>4, <2>0, <2>1
  <2>3. /\ d \in ElasticDeltas /\ d.value = n
        /\ \A row : d \in RowWay(row) <=> c[1] = row
    BY <2>1, LightDelta
  <2> QED
    BY <2>0, <2>2, <2>3
<1>6. out \in Seq(ElasticDeltas)
  <2>1. \A i \in 1..m :
          [kind |-> "light", cell |-> ps[i].cell, value |-> ps[i].value] \in ElasticDeltas
    BY <1>3, <1>5
  <2>2. PICK S : S = ElasticDeltas
    OBVIOUS
  <2>3. out \in Seq(S)
    BY <1>3, <2>1, <2>2
  <2> QED
    BY <2>2, <2>3
<1>7. PICK val : val = SentOf(picked, cells)
  OBVIOUS
<1>8. val \in LightPart /\ val \in [LightCells -> Int]
      /\ \A c \in LightCells : val[c] = IF c \in picked THEN cells[c] ELSE 0
  BY <1>7 DEF SentOf, LightPart
<1>9. ASSUME NEW row
      PROVE  OnWay(out, RowWay(row)) = SumOf(PartOf(val, RowCells(row)))
  <2>1. PICK r : r = [i \in 1..m |-> ps[i].cell]
    OBVIOUS
  <2>2. \A i \in 1..m : /\ r[i] \in LightCells
                        /\ out[i].value = val[r[i]]
                        /\ out[i] \in RowWay(row) <=> r[i] \in RowCells(row)
    <3>1. \A i \in 1..m : r[i] = ps[i].cell
      BY <2>1
    <3> QED
      BY <1>4, <1>5, <1>8, <3>1 DEF RowCells
  <2>3. Visits(r)
    BY <1>1, <2>1 DEF Visits, Posts
  <2>4. \A c \in RowCells(row) : val[c] # 0 => \E i \in 1..m : r[i] = c
    <3> SUFFICES ASSUME NEW c \in RowCells(row), val[c] # 0
                 PROVE  \E i \in 1..m : r[i] = c
      OBVIOUS
    <3>1. c \in picked
      BY <1>8, RowCellsFacts
    <3>2. PICK i \in 1..m : ps[i].cell = c
      BY <1>1, <3>1 DEF Posts
    <3> QED
      BY <2>1, <3>2
  <2>5. DOMAIN out = 1..m /\ DOMAIN r = 1..m
    BY <1>3, <2>1
  <2>6. Delivers(ElasticDeltas, r, out, LightCells, val, RowCells(row), RowWay(row))
    BY <1>6, <1>8, <2>2, <2>3, <2>4, <2>5, DeltaValues, ElasticFacts, RowCellsFacts DEF Delivers
  <2> QED
    BY <2>6, DeliversAll
<1> QED
  BY <1>2, <1>6, <1>7, <1>8, <1>9

\* What a worker's step leaves in its sketch, and what it ships, row by row.
ElasticShips(s, n, new, out) ==
  /\ new \in ElasticState
  /\ out \in Seq(ElasticDeltas)
  /\ \A row \in LightRows : RowMass(new, row) + OnWay(out, RowWay(row)) = RowMass(s, row) + n

Carries(before, m) ==
  before \in Seq(ElasticDeltas) /\ m \in Int /\ \A row : OnWay(before, RowWay(row)) = m

\* The arithmetic of a bucket shipped: what leaves it is on the way.
LEMMA MassMoved ==
  ASSUME NEW v \in Int, NEW t \in Int, NEW x \in Int, NEW y \in Int, NEW z \in Int,
         NEW p \in Int, NEW i \in Int, p + i = y + 1, x + z = p
  PROVE  ((v + (x - y)) + t) + (i + z) = (v + t) + 1
  OBVIOUS

\* A bucket that is put back, shipped and cleared at the threshold, after
\* deltas that carry m.
LEMMA PromotedShips ==
  ASSUME NEW s \in ElasticState, NEW k \in Keys, NEW u \in Bucks, u.id \in Keys,
         NEW before, NEW m, Carries(before, m), NEW lim, u.pos + m = s.heavy[BucketOf[k]].pos + 1
  PROVE  ElasticShips(s, 1, Promoted(s, k, u, before, lim).held,
                      Promoted(s, k, u, before, lim).out)
<1> /\ before \in Seq(ElasticDeltas) /\ m \in Int
    /\ \A row : OnWay(before, RowWay(row)) = m
  BY DEF Carries
<1>1. PICK b \in Buckets : b = BucketOf[k]
  BY ElasticFacts
<1>2. PICK h, l : h = s.heavy /\ l = s.light
  OBVIOUS
<1>3. h \in HeavyPart /\ l \in LightPart /\ s = [heavy |-> h, light |-> l]
  BY <1>2 DEF ElasticState
<1>4. PICK left : left = IF u.pos >= lim THEN [u EXCEPT !.pos = 0] ELSE u
  OBVIOUS
<1>5. PICK tail : tail = IF u.pos >= lim THEN <<Heavy(u.id, u.pos, u.flag)>> ELSE <<>>
  OBVIOUS
<1>6. PICK new, out : /\ new = Promoted(s, k, u, before, lim).held
                      /\ out = Promoted(s, k, u, before, lim).out
  OBVIOUS
<1>7. new = [s EXCEPT !.heavy[b] = left] /\ out = before \o tail
  BY <1>1, <1>4, <1>5, <1>6 DEF Promoted
<1>8. PICK g : g = [h EXCEPT ![b] = left]
  OBVIOUS
<1>9. new = [heavy |-> g, light |-> l]
  BY <1>3, <1>7, <1>8
<1>10. u.pos \in Int /\ u.flag \in BOOLEAN /\ u.id # NoFlow
  BY ElasticFacts DEF Bucks
<1>11. /\ Fit(left)
       /\ tail \in Seq(ElasticDeltas)
       /\ \A row : left.pos + OnWay(tail, RowWay(row)) = u.pos
  <2>1. CASE u.pos >= lim
    <3>1. left \in Bucks /\ left.pos = 0 /\ left.id = u.id
      BY <1>4, <2>1 DEF Bucks
    <3>2. PICK d : d = Heavy(u.id, u.pos, u.flag)
      OBVIOUS
    <3>3. d \in ElasticDeltas /\ d.value = u.pos /\ \A row : d \in RowWay(row)
      BY <1>10, <3>2, HeavyDelta
    <3>4. tail = <<d>> /\ <<d>> \in Seq(ElasticDeltas)
      BY <1>5, <2>1, <3>2, <3>3
    <3>5. \A row : OnWay(<<d>>, RowWay(row)) = u.pos
      BY <3>3, DeltaValues, OnWayOfOne
    <3> QED
      BY <1>10, <3>1, <3>4, <3>5 DEF Fit
  <2>2. CASE ~ (u.pos >= lim)
    <3>1. left = u /\ tail = <<>>
      BY <1>4, <1>5, <2>2
    <3>2. <<>> \in Seq(ElasticDeltas) /\ DOMAIN <<>> = {}
      OBVIOUS
    <3>3. \A row : OnWay(<<>>, RowWay(row)) = 0
      BY <3>2, DeltaValues, OnWayOfNone
    <3> QED
      BY <1>10, <3>1, <3>2, <3>3 DEF Fit
  <2> QED
    BY <2>1, <2>2
<1>12. /\ g \in HeavyPart
       /\ SumOf(Votes(g)) = SumOf(Votes(h)) + (left.pos - h[b].pos)
       /\ h[b].pos \in Int /\ left.pos \in Int
  BY <1>3, <1>8, <1>11, BucketPut
<1>13. new \in ElasticState
  BY <1>3, <1>9, <1>12 DEF ElasticState
<1>14. out \in Seq(ElasticDeltas)
  BY <1>7, <1>11, ConcatRow
<1>15. ASSUME NEW row \in LightRows
       PROVE  RowMass(new, row) + OnWay(out, RowWay(row)) = RowMass(s, row) + 1
  <2>1. OnWay(out, RowWay(row)) = OnWay(before, RowWay(row)) + OnWay(tail, RowWay(row))
    BY <1>7, <1>11, DeltaValues, OnWayAppended
  <2>2. PICK v \in Int, t \in Int, x \in Int, y \in Int, z \in Int :
          /\ v = SumOf(Votes(h)) /\ t = SumOf(PartOf(l, RowCells(row)))
          /\ x = left.pos /\ y = h[b].pos /\ z = OnWay(tail, RowWay(row))
    BY <1>3, <1>11, <1>12, VotesTyped, RowPart, DeltaValues, AtFacts
  <2>3. RowMass(s, row) = v + t /\ RowMass(new, row) = (v + (x - y)) + t
    BY <1>3, <1>9, <1>12, <2>2 DEF RowMass
  <2>4. u.pos + m = y + 1 /\ x + z = u.pos /\ OnWay(out, RowWay(row)) = m + z
    BY <1>1, <1>2, <1>11, <2>1, <2>2
  <2> QED
    <3>1. PICK a, c, e : /\ a = RowMass(new, row) /\ c = RowMass(s, row)
                         /\ e = OnWay(out, RowWay(row))
      OBVIOUS
    <3>2. PICK p \in Int, i \in Int : p = u.pos /\ i = m
      BY <1>10
    <3>3. a = (v + (x - y)) + t /\ c = v + t /\ e = i + z /\ p + i = y + 1 /\ x + z = p
      BY <2>3, <2>4, <3>1, <3>2
    <3>4. ((v + (x - y)) + t) + (i + z) = (v + t) + 1
      <4>1. p + i = y + 1 /\ x + z = p
        BY <3>3
      <4> QED
        BY <4>1, MassMoved
    <3>5. a + e = c + 1
      BY <3>3, <3>4, Zenon
    <3> QED
      BY <3>1, <3>5
<1> QED
  BY <1>6, <1>13, <1>14, <1>15 DEF ElasticShips

LEMMA SpilledShips ==
  ASSUME NEW s \in ElasticState, NEW k \in Keys, NEW u, Fit(u),
         u.pos = s.heavy[BucketOf[k]].pos, NEW lim
  PROVE  ElasticShips(s, 1, Spilled(s, k, u, lim).held, Spilled(s, k, u, lim).out)
<1>1. PICK b \in Buckets : b = BucketOf[k]
  BY ElasticFacts
<1>2. PICK h, l : h = s.heavy /\ l = s.light
  OBVIOUS
<1>3. h \in HeavyPart /\ l \in LightPart /\ s = [heavy |-> h, light |-> l]
  BY <1>2 DEF ElasticState
<1>4. PICK bump, taus : /\ bump = [c \in LightCells |-> IF c \in LightOf[k] THEN 1 ELSE 0]
                        /\ taus = [c \in LightCells |-> lim]
  OBVIOUS
<1>5. PICK due, moved, keep, ps :
        /\ due = Due(l, bump, taus) /\ moved = Bumped(l, bump)
        /\ keep = Held(l, bump, taus) /\ ps = Shipped(LightOrder, l, bump, taus)
  OBVIOUS
<1>6. PICK new, out : new = Spilled(s, k, u, lim).held /\ out = Spilled(s, k, u, lim).out
  OBVIOUS
<1>7. PICK g : g = [h EXCEPT ![b] = u]
  OBVIOUS
<1>8. new = [heavy |-> g, light |-> keep] /\ out = Light(ps)
  BY <1>1, <1>2, <1>4, <1>5, <1>6, <1>7 DEF Spilled
<1>9. l \in [LightCells -> Int] /\ bump \in [LightCells -> Int]
  BY <1>3, <1>4 DEF LightPart
<1>10. /\ due \in SUBSET LightCells
       /\ moved \in [LightCells -> Int] /\ keep \in [LightCells -> Int]
       /\ \A c \in LightCells : /\ moved[c] = l[c] + bump[c]
                                /\ keep[c] = IF c \in due THEN 0 ELSE l[c] + bump[c]
  BY <1>5, <1>9, DueFacts
<1>11. moved = LightAdded(l, k, 1)
  <2>1. moved = [c \in LightCells |-> l[c] + bump[c]]
    BY <1>10
  <2>2. \A c \in LightCells : bump[c] = IF c \in LightOf[k] THEN 1 ELSE 0
    BY <1>4
  <2> QED
    BY <2>1, <2>2 DEF LightAdded
<1>12. \A row \in LightRows :
         SumOf(PartOf(moved, RowCells(row))) = SumOf(PartOf(l, RowCells(row))) + 1
  BY <1>3, <1>11, LightPut
<1>13. moved \in LightPart /\ keep \in LightPart
  BY <1>10 DEF LightPart
<1>14. ps = Parcels(LightOrder, due, moved)
  BY <1>5 DEF Shipped
<1>15. Posts(LightOrder, due, moved, ps)
  BY <1>10, <1>14, ParcelsPost, ElasticFacts
<1>16. PICK sent : sent = SentOf(due, moved)
  OBVIOUS
<1>17. /\ out \in Seq(ElasticDeltas) /\ sent \in LightPart
       /\ \A row : OnWay(out, RowWay(row)) = SumOf(PartOf(sent, RowCells(row)))
  BY <1>8, <1>10, <1>13, <1>15, <1>16, LightShips
<1>18. /\ g \in HeavyPart
       /\ SumOf(Votes(g)) = SumOf(Votes(h)) + (u.pos - h[b].pos)
       /\ h[b].pos \in Int /\ u.pos \in Int
  BY <1>3, <1>7, BucketPut
<1>19. SumOf(Votes(g)) = SumOf(Votes(h))
  <2>1. u.pos = h[b].pos
    BY <1>1, <1>2
  <2>2. SumOf(Votes(h)) \in Int
    BY <1>3, VotesTyped
  <2> QED
    BY <1>18, <2>1, <2>2
<1>20. new \in ElasticState
  BY <1>8, <1>13, <1>18 DEF ElasticState
<1>21. ASSUME NEW row \in LightRows
       PROVE  RowMass(new, row) + OnWay(out, RowWay(row)) = RowMass(s, row) + 1
  <2>1. PICK S : S = RowCells(row)
    OBVIOUS
  <2>2. S \in SUBSET LightCells /\ IsFiniteSet(S)
    BY <2>1, RowCellsFacts
  <2>3. PICK f, e, m : f = PartOf(keep, S) /\ e = PartOf(sent, S) /\ m = PartOf(moved, S)
    OBVIOUS
  <2>4. f \in [S -> Int] /\ e \in [S -> Int] /\ m \in [S -> Int]
    BY <1>13, <1>17, <2>1, <2>3, RowPart
  <2>5. \A c \in S : m[c] = f[c] + e[c]
    <3>1. \A c \in S : f[c] = keep[c] /\ e[c] = sent[c] /\ m[c] = moved[c]
      BY <2>3 DEF PartOf
    <3>2. \A c \in LightCells : sent[c] = IF c \in due THEN moved[c] ELSE 0
      BY <1>16 DEF SentOf
    <3>3. \A c \in LightCells : moved[c] \in Int
      BY <1>10
    <3> QED
      BY <1>10, <2>2, <3>1, <3>2, <3>3
  <2>6. AddUp(S, f, e, m)
    BY <2>2, <2>4, <2>5 DEF AddUp
  <2>7. SumOf(m) = SumOf(f) + SumOf(e) /\ SumOf(f) \in Int /\ SumOf(e) \in Int
    BY <2>6, SumOfShares
  <2>8. PICK v \in Int, t \in Int, x \in Int, y \in Int :
          /\ v = SumOf(Votes(h)) /\ t = SumOf(PartOf(l, S))
          /\ x = SumOf(f) /\ y = SumOf(e)
    BY <1>3, <2>1, <2>7, VotesTyped, RowPart
  <2>9. RowMass(s, row) = v + t /\ RowMass(new, row) = v + x
    BY <1>3, <1>8, <1>19, <2>1, <2>3, <2>8 DEF RowMass
  <2>10. OnWay(out, RowWay(row)) = y /\ x + y = t + 1
    BY <1>12, <1>17, <2>1, <2>3, <2>7, <2>8
  <2> QED
    BY <2>9, <2>10
<1> QED
  BY <1>6, <1>17, <1>20, <1>21 DEF ElasticShips

LEMMA ElasticInsertShips ==
  ASSUME NEW s \in ElasticState, NEW k \in Keys, NEW lim
  PROVE  ElasticShips(s, 1, ElasticInsert(s, k, lim).held, ElasticInsert(s, k, lim).out)
<1>1. PICK b : b = s.heavy[BucketOf[k]]
  OBVIOUS
<1>2. Fit(b) /\ b \in Bucks
  <2>1. BucketOf[k] \in Buckets
    BY ElasticFacts
  <2> QED
    BY <1>1, <2>1 DEF ElasticState, HeavyPart, Fit
<1>3. b.pos \in Int /\ b.neg \in Int /\ b.flag \in BOOLEAN /\ k # NoFlow
  BY <1>2, ElasticFacts DEF Bucks
<1>4. Carries(<<>>, 0)
  <2>1. <<>> \in Seq(ElasticDeltas) /\ DOMAIN <<>> = {}
    OBVIOUS
  <2>2. \A row : OnWay(<<>>, RowWay(row)) = 0
    BY <2>1, DeltaValues, OnWayOfNone
  <2> QED
    BY <2>1, <2>2 DEF Carries
<1>5. CASE b.id = NoFlow
  <2>1. PICK u : u = Bucket(k, 1, 0, FALSE)
    OBVIOUS
  <2>2. u \in Bucks /\ u.id = k /\ u.pos = 1
    BY <2>1 DEF Bucket, Bucks
  <2>3. ElasticInsert(s, k, lim) = Promoted(s, k, u, <<>>, lim)
    BY <1>1, <1>3, <1>5, <2>1 DEF ElasticInsert
  <2>4. b.pos = 0
    BY <1>2, <1>5 DEF Fit
  <2>5. u.pos + 0 = s.heavy[BucketOf[k]].pos + 1
    BY <1>1, <2>2, <2>4
  <2> QED
    <3>1. ElasticShips(s, 1, Promoted(s, k, u, <<>>, lim).held, Promoted(s, k, u, <<>>, lim).out)
      BY <1>4, <2>2, <2>5, PromotedShips
    <3> QED
      BY <2>3, <3>1
<1>6. CASE b.id = k
  <2>1. PICK u : u = [b EXCEPT !.pos = @ + 1]
    OBVIOUS
  <2>2. u \in Bucks /\ u.id = k /\ u.pos = b.pos + 1
    BY <1>2, <1>6, <2>1 DEF Bucks
  <2>3. ElasticInsert(s, k, lim) = Promoted(s, k, u, <<>>, lim)
    BY <1>1, <1>3, <1>6, <2>1 DEF ElasticInsert
  <2>4. u.pos + 0 = s.heavy[BucketOf[k]].pos + 1
    BY <1>1, <1>3, <2>2
  <2> QED
    <3>1. ElasticShips(s, 1, Promoted(s, k, u, <<>>, lim).held, Promoted(s, k, u, <<>>, lim).out)
      BY <1>4, <2>2, <2>4, PromotedShips
    <3> QED
      BY <2>3, <3>1
<1>7. CASE b.id \notin {NoFlow, k} /\ Withstands(Opposed(b, 1))
  <2>1. PICK u : u = Opposed(b, 1)
    OBVIOUS
  <2>2. u \in Bucks /\ u.id = b.id /\ u.pos = b.pos
    BY <1>2, <2>1 DEF Opposed, Bucks
  <2>3. Fit(u)
    BY <1>7, <2>2 DEF Fit
  <2>4. ElasticInsert(s, k, lim) = Spilled(s, k, u, lim)
    BY <1>1, <1>7, <2>1 DEF ElasticInsert
  <2>5. u.pos = s.heavy[BucketOf[k]].pos
    BY <1>1, <2>2
  <2> QED
    BY <2>3, <2>4, <2>5, SpilledShips
<1>8. CASE b.id \notin {NoFlow, k} /\ ~ Withstands(Opposed(b, 1))
  <2>1. PICK u : u = Bucket(k, 1, 1, TRUE)
    OBVIOUS
  <2>2. u \in Bucks /\ u.id = k /\ u.pos = 1
    BY <2>1 DEF Bucket, Bucks
  <2>3. ElasticInsert(s, k, lim) = Promoted(s, k, u, Farewell(b), lim)
    BY <1>1, <1>8, <2>1 DEF ElasticInsert
  <2>4. b.id \in Keys
    BY <1>2, <1>8 DEF Bucks
  <2>5. PICK d : d = Evicted(b.id, b.pos)
    OBVIOUS
  <2>6. d \in ElasticDeltas /\ d.value = b.pos /\ \A row : d \in RowWay(row)
    BY <1>3, <2>4, <2>5, EvictedDelta
  <2>7. Farewell(b) = <<d>> /\ <<d>> \in Seq(ElasticDeltas)
    BY <2>5, <2>6 DEF Farewell
  <2>8. \A row : OnWay(<<d>>, RowWay(row)) = b.pos
    BY <2>6, DeltaValues, OnWayOfOne
  <2>9. u.pos + b.pos = s.heavy[BucketOf[k]].pos + 1
    BY <1>1, <1>3, <2>2
  <2> QED
    <3>1. Carries(Farewell(b), b.pos)
      BY <1>3, <2>7, <2>8 DEF Carries
    <3>2. ElasticShips(s, 1, Promoted(s, k, u, Farewell(b), lim).held,
                       Promoted(s, k, u, Farewell(b), lim).out)
      BY <2>2, <2>9, <3>1, PromotedShips
    <3> QED
      BY <2>3, <3>2
<1> QED
  BY <1>5, <1>6, <1>7, <1>8

LEMMA ElasticFlushShips ==
  ASSUME NEW s \in ElasticState
  PROVE  ElasticShips(s, 0, ElasticFlush(s).held, ElasticFlush(s).out)
<1>1. PICK h, l : h = s.heavy /\ l = s.light
  OBVIOUS
<1>2. h \in HeavyPart /\ l \in LightPart
  BY <1>1 DEF ElasticState
<1>3. PICK picked, full, ps : /\ picked = {b \in Buckets : h[b].pos # 0}
                              /\ full = InOrder(BucketOrder, picked)
                              /\ ps = Residue(LightOrder, l)
  OBVIOUS
<1>4. /\ Row(full) /\ Visits(full)
      /\ \A n \in DOMAIN full : full[n] \in picked
      /\ \A b \in picked : \E n \in DOMAIN full : full[n] = b
  <2>1. Picks(BucketOrder, picked, full)
    BY <1>3, ElasticFacts, InOrderFacts
  <2>2. picked \cap ToSet(BucketOrder) = picked
    BY <1>3, ElasticFacts
  <2> QED
    BY <2>1, <2>2 DEF Picks
<1>5. PICK g, z, votes :
        /\ g = [b \in Buckets |-> [h[b] EXCEPT !.pos = 0]]
        /\ z = Emptied(l)
        /\ votes = [i \in DOMAIN full |-> Heavy(h[full[i]].id, h[full[i]].pos, h[full[i]].flag)]
  OBVIOUS
<1>6. PICK new, out : new = ElasticFlush(s).held /\ out = ElasticFlush(s).out
  OBVIOUS
<1>7. new = [heavy |-> g, light |-> z] /\ out = votes \o Light(ps)
  BY <1>1, <1>3, <1>5, <1>6 DEF ElasticFlush
<1>8. \A b \in Buckets : Fit(h[b])
  BY <1>2 DEF HeavyPart, Fit
<1>9. g \in HeavyPart /\ \A b \in Buckets : g[b].pos = 0
  <2>1. \A b \in Buckets : g[b] \in Bucks /\ g[b].pos = 0
    BY <1>5, <1>8 DEF Fit, Bucks
  <2>2. g \in [Buckets -> Bucks]
    BY <1>5, <2>1
  <2> QED
    BY <2>1, <2>2 DEF HeavyPart
<1>10. SumOf(Votes(g)) = 0
  <2>1. PICK f : f = Votes(g)
    OBVIOUS
  <2>2. f \in [Buckets -> Int] /\ \A b \in Buckets : f[b] = 0
    BY <1>9, <2>1 DEF Votes
  <2> QED
    BY <2>1, <2>2, ElasticFacts, IntSumOfNothing
<1>11. z \in LightPart /\ \A c \in LightCells : z[c] = 0
  BY <1>2, <1>5 DEF Emptied, LightPart
<1>12. \A row : SumOf(PartOf(z, RowCells(row))) = 0
  <2> SUFFICES ASSUME NEW row
               PROVE  SumOf(PartOf(z, RowCells(row))) = 0
    OBVIOUS
  <2>1. PICK f : f = PartOf(z, RowCells(row))
    OBVIOUS
  <2>2. f \in [RowCells(row) -> Int] /\ \A c \in RowCells(row) : f[c] = 0
    BY <1>11, <2>1, RowCellsFacts DEF PartOf
  <2> QED
    BY <2>1, <2>2, RowCellsFacts, IntSumOfNothing
<1>13. PICK due : due = NonZero(l)
  OBVIOUS
<1>14. due \in SUBSET LightCells /\ Posts(LightOrder, due, l, ps)
  <2>1. due \in SUBSET LightCells
    BY <1>2, <1>13 DEF NonZero, LightPart
  <2>2. ps = Parcels(LightOrder, due, l)
    BY <1>3, <1>13 DEF Residue
  <2> QED
    BY <2>1, <2>2, ParcelsPost, ElasticFacts
<1>15. SentOf(due, l) = l
  BY <1>2, <1>13 DEF SentOf, NonZero, LightPart
<1>16. /\ Light(ps) \in Seq(ElasticDeltas)
       /\ \A row : OnWay(Light(ps), RowWay(row)) = SumOf(PartOf(l, RowCells(row)))
  BY <1>2, <1>14, <1>15, LightShips
<1>17. \A i \in DOMAIN full :
         LET d == Heavy(h[full[i]].id, h[full[i]].pos, h[full[i]].flag)
         IN full[i] \in Buckets /\ d \in ElasticDeltas /\ d.value = h[full[i]].pos
            /\ \A row : d \in RowWay(row)
  <2> SUFFICES ASSUME NEW i \in DOMAIN full
               PROVE  LET d == Heavy(h[full[i]].id, h[full[i]].pos, h[full[i]].flag)
                      IN full[i] \in Buckets /\ d \in ElasticDeltas /\ d.value = h[full[i]].pos
                         /\ \A row : d \in RowWay(row)
    OBVIOUS
  <2>1. full[i] \in Buckets /\ h[full[i]].pos # 0
    BY <1>3, <1>4
  <2>2. h[full[i]].id \in Keys /\ h[full[i]].pos \in Int /\ h[full[i]].flag \in BOOLEAN
    BY <1>8, <2>1 DEF Fit, Bucks
  <2> QED
    BY <2>1, <2>2, HeavyDelta
<1>18. PICK m \in Nat : m = Len(full) /\ DOMAIN full = 1..m
  BY <1>4, RowFacts
<1>19. \A i \in 1..m : /\ full[i] \in Buckets /\ votes[i] \in ElasticDeltas
                       /\ votes[i].value = h[full[i]].pos
                       /\ \A row : votes[i] \in RowWay(row)
  BY <1>5, <1>17, <1>18
<1>20. votes \in Seq(ElasticDeltas) /\ DOMAIN votes = 1..m
  <2>1. votes = [i \in 1..m |-> votes[i]]
    BY <1>5, <1>18
  <2>2. PICK S : S = ElasticDeltas
    OBVIOUS
  <2>3. votes \in Seq(S)
    BY <1>19, <2>1, <2>2
  <2> QED
    BY <2>1, <2>2, <2>3
<1>21. PICK val : val = Votes(h)
  OBVIOUS
<1>22. val \in [Buckets -> Int] /\ \A b \in Buckets : val[b] = h[b].pos
  BY <1>2, <1>21, VotesTyped DEF Votes
<1>23. ASSUME NEW row
       PROVE  OnWay(votes, RowWay(row)) = SumOf(Votes(h))
  <2>1. \A i \in 1..m : /\ full[i] \in Buckets
                        /\ votes[i].value = val[full[i]]
                        /\ votes[i] \in RowWay(row) <=> full[i] \in Buckets
    BY <1>19, <1>22
  <2>2. \A b \in Buckets : val[b] # 0 => \E i \in 1..m : full[i] = b
    BY <1>3, <1>4, <1>18, <1>22
  <2>3. Delivers(ElasticDeltas, full, votes, Buckets, val, Buckets, RowWay(row))
    BY <1>4, <1>18, <1>20, <1>22, <2>1, <2>2, DeltaValues, ElasticFacts DEF Delivers
  <2>4. OnWay(votes, RowWay(row)) = SumOf(PartOf(val, Buckets))
    BY <2>3, DeliversAll
  <2>5. PartOf(val, Buckets) = val
    BY <1>22 DEF PartOf
  <2> QED
    BY <1>21, <2>4, <2>5
<1>24. new \in ElasticState
  BY <1>7, <1>9, <1>11 DEF ElasticState
<1>25. out \in Seq(ElasticDeltas)
  BY <1>7, <1>16, <1>20, ConcatRow
<1>26. ASSUME NEW row \in LightRows
       PROVE  RowMass(new, row) + OnWay(out, RowWay(row)) = RowMass(s, row) + 0
  <2>1. OnWay(out, RowWay(row)) = OnWay(votes, RowWay(row)) + OnWay(Light(ps), RowWay(row))
    BY <1>7, <1>16, <1>20, DeltaValues, OnWayAppended
  <2>2. PICK v \in Int, t \in Int : v = SumOf(Votes(h)) /\ t = SumOf(PartOf(l, RowCells(row)))
    BY <1>2, VotesTyped, RowPart
  <2>3. RowMass(s, row) = v + t /\ RowMass(new, row) = 0 + 0
    BY <1>1, <1>7, <1>10, <1>12, <2>2 DEF RowMass
  <2>4. OnWay(out, RowWay(row)) = v + t
    BY <1>16, <1>23, <2>1, <2>2
  <2> QED
    BY <2>3, <2>4
<1> QED
  BY <1>6, <1>24, <1>25, <1>26 DEF ElasticShips

(***************************************************************************)
(* The parent.                                                             *)
(***************************************************************************)
ElasticGains(p, n, q) ==
  /\ q \in ElasticState
  /\ \A row \in LightRows : RowMass(q, row) = RowMass(p, row) + n

LEMMA RowMassTyped ==
  ASSUME NEW s \in ElasticState, NEW row
  PROVE  /\ RowMass(s, row) \in Int
         /\ SumOf(Votes(s.heavy)) \in Int /\ SumOf(PartOf(s.light, RowCells(row))) \in Int
<1>1. s.heavy \in HeavyPart /\ s.light \in LightPart
  BY DEF ElasticState
<1> QED
  BY <1>1, VotesTyped, RowPart DEF RowMass

\* A bucket is put in place, and a flow is added to the light part.
LEMMA ElasticPut ==
  ASSUME NEW p \in ElasticState, NEW k \in Keys, NEW u, Fit(u),
         NEW f \in Keys, NEW n \in Int
  PROVE  ElasticGains(p, (u.pos - p.heavy[BucketOf[k]].pos) + n,
                      [heavy |-> [p.heavy EXCEPT ![BucketOf[k]] = u],
                       light |-> LightAdded(p.light, f, n)])
<1>1. BucketOf[k] \in Buckets /\ p.heavy \in HeavyPart /\ p.light \in LightPart
  BY ElasticFacts DEF ElasticState
<1>2. PICK g, m : g = [p.heavy EXCEPT ![BucketOf[k]] = u] /\ m = LightAdded(p.light, f, n)
  OBVIOUS
<1>3. PICK a, b : a = p.heavy[BucketOf[k]].pos /\ b = u.pos
  OBVIOUS
<1>4. /\ g \in HeavyPart /\ SumOf(Votes(g)) = SumOf(Votes(p.heavy)) + (b - a)
      /\ a \in Int /\ b \in Int
  BY <1>1, <1>2, <1>3, BucketPut
<1>5. /\ m \in LightPart
      /\ \A row \in LightRows :
           SumOf(PartOf(m, RowCells(row))) = SumOf(PartOf(p.light, RowCells(row))) + n
  BY <1>1, <1>2, LightPut
<1>6. PICK q : q = [heavy |-> g, light |-> m]
  OBVIOUS
<1>7. q \in ElasticState /\ q.heavy = g /\ q.light = m
  BY <1>4, <1>5, <1>6 DEF ElasticState
<1>8. ASSUME NEW row \in LightRows
      PROVE  RowMass(q, row) = RowMass(p, row) + ((b - a) + n)
  <2>1. PICK v \in Int, t \in Int :
          v = SumOf(Votes(p.heavy)) /\ t = SumOf(PartOf(p.light, RowCells(row)))
    BY RowMassTyped
  <2>2. RowMass(p, row) = v + t /\ RowMass(q, row) = (v + (b - a)) + (t + n)
    BY <1>4, <1>5, <1>7, <2>1 DEF RowMass
  <2> QED
    BY <1>4, <2>2
<1> QED
  BY <1>2, <1>3, <1>6, <1>7, <1>8 DEF ElasticGains

\* Without the light part.
LEMMA HeavyPut ==
  ASSUME NEW p \in ElasticState, NEW k \in Keys, NEW u, Fit(u)
  PROVE  ElasticGains(p, u.pos - p.heavy[BucketOf[k]].pos,
                      [p EXCEPT !.heavy = [p.heavy EXCEPT ![BucketOf[k]] = u]])
<1>1. BucketOf[k] \in Buckets /\ p.heavy \in HeavyPart /\ p.light \in LightPart
  BY ElasticFacts DEF ElasticState
<1>2. PICK g : g = [p.heavy EXCEPT ![BucketOf[k]] = u]
  OBVIOUS
<1>3. PICK a, b : a = p.heavy[BucketOf[k]].pos /\ b = u.pos
  OBVIOUS
<1>4. /\ g \in HeavyPart /\ SumOf(Votes(g)) = SumOf(Votes(p.heavy)) + (b - a)
      /\ a \in Int /\ b \in Int
  BY <1>1, <1>2, <1>3, BucketPut
<1>6. PICK q : q = [p EXCEPT !.heavy = g]
  OBVIOUS
<1>7. q \in ElasticState /\ q.heavy = g /\ q.light = p.light
  BY <1>1, <1>4, <1>6 DEF ElasticState
<1>8. ASSUME NEW row \in LightRows
      PROVE  RowMass(q, row) = RowMass(p, row) + (b - a)
  <2>1. PICK v \in Int, t \in Int :
          v = SumOf(Votes(p.heavy)) /\ t = SumOf(PartOf(p.light, RowCells(row)))
    BY RowMassTyped
  <2>2. RowMass(p, row) = v + t /\ RowMass(q, row) = (v + (b - a)) + t
    BY <1>4, <1>7, <2>1 DEF RowMass
  <2> QED
    BY <1>4, <2>2
<1> QED
  BY <1>2, <1>3, <1>6, <1>7, <1>8 DEF ElasticGains

LEMMA InsertManyGains ==
  ASSUME NEW p \in ElasticState, NEW k \in Keys, NEW n \in Int
  PROVE  ElasticGains(p, n, InsertMany(p, k, n))
<1>1. PICK b : b = p.heavy[BucketOf[k]]
  OBVIOUS
<1>2. Fit(b) /\ b \in Bucks
  <2>1. BucketOf[k] \in Buckets
    BY ElasticFacts
  <2> QED
    BY <1>1, <2>1 DEF ElasticState, HeavyPart, Fit
<1>3. b.pos \in Int /\ b.neg \in Int /\ b.flag \in BOOLEAN /\ k # NoFlow
  BY <1>2, ElasticFacts DEF Bucks
<1>4. CASE b.pos = 0
  <2>1. PICK u : u = Bucket(k, n, 0, b.flag)
    OBVIOUS
  <2>2. u \in Bucks /\ u.id = k /\ u.pos = n
    BY <1>3, <2>1 DEF Bucket, Bucks
  <2>3. Fit(u)
    BY <1>3, <2>2 DEF Fit
  <2>4. PICK q : q = [p EXCEPT !.heavy = [p.heavy EXCEPT ![BucketOf[k]] = u]]
    OBVIOUS
  <2>5. InsertMany(p, k, n) = q
    BY <1>1, <1>4, <2>1, <2>4 DEF InsertMany
  <2>6. ElasticGains(p, u.pos - p.heavy[BucketOf[k]].pos, q)
    BY <2>3, <2>4, HeavyPut
  <2>7. u.pos - p.heavy[BucketOf[k]].pos = n
    BY <1>1, <1>4, <2>2
  <2> QED
    BY <2>5, <2>6, <2>7
<1>5. CASE b.pos # 0 /\ b.id = k
  <2>1. PICK u : u = [b EXCEPT !.pos = @ + n]
    OBVIOUS
  <2>2. u \in Bucks /\ u.id = k /\ u.pos = b.pos + n
    BY <1>2, <1>5, <2>1 DEF Bucks
  <2>3. Fit(u)
    BY <1>3, <2>2 DEF Fit
  <2>4. PICK q : q = [p EXCEPT !.heavy = [p.heavy EXCEPT ![BucketOf[k]] = u]]
    OBVIOUS
  <2>5. InsertMany(p, k, n) = q
    BY <1>1, <1>5, <2>1, <2>4 DEF InsertMany
  <2>6. ElasticGains(p, u.pos - p.heavy[BucketOf[k]].pos, q)
    BY <2>3, <2>4, HeavyPut
  <2>7. u.pos - p.heavy[BucketOf[k]].pos = n
    BY <1>1, <1>3, <2>2
  <2> QED
    BY <2>5, <2>6, <2>7
<1>6. CASE b.pos # 0 /\ b.id # k /\ Withstands(Opposed(b, n))
  <2>1. PICK u : u = Opposed(b, n)
    OBVIOUS
  <2>2. u \in Bucks /\ u.id = b.id /\ u.pos = b.pos
    BY <1>2, <2>1 DEF Opposed, Bucks
  <2>3. Fit(u)
    BY <1>2, <2>2 DEF Fit
  <2>4. PICK q : q = [heavy |-> [p.heavy EXCEPT ![BucketOf[k]] = u],
                      light |-> LightAdded(p.light, k, n)]
    OBVIOUS
  <2>5. InsertMany(p, k, n) = q
    BY <1>1, <1>6, <2>1, <2>4 DEF InsertMany
  <2>6. ElasticGains(p, (u.pos - p.heavy[BucketOf[k]].pos) + n, q)
    BY <2>3, <2>4, ElasticPut
  <2>7. (u.pos - p.heavy[BucketOf[k]].pos) + n = n
    BY <1>1, <1>3, <2>2
  <2> QED
    BY <2>5, <2>6, <2>7
<1>7. CASE b.pos # 0 /\ b.id # k /\ ~ Withstands(Opposed(b, n))
  <2>1. PICK u : u = Bucket(k, n, n, TRUE)
    OBVIOUS
  <2>2. u \in Bucks /\ u.id = k /\ u.pos = n
    BY <2>1 DEF Bucket, Bucks
  <2>3. Fit(u)
    BY <1>3, <2>2 DEF Fit
  <2>4. PICK q : q = [heavy |-> [p.heavy EXCEPT ![BucketOf[k]] = u],
                      light |-> LightAdded(p.light, b.id, b.pos)]
    OBVIOUS
  <2>5. InsertMany(p, k, n) = q
    BY <1>1, <1>7, <2>1, <2>4 DEF InsertMany
  <2>6. b.id \in Keys
    BY <1>2, <1>7 DEF Fit, Bucks
  <2>7. ElasticGains(p, (u.pos - p.heavy[BucketOf[k]].pos) + b.pos, q)
    BY <1>3, <2>3, <2>4, <2>6, ElasticPut
  <2>8. (u.pos - p.heavy[BucketOf[k]].pos) + b.pos = n
    BY <1>1, <1>3, <2>2
  <2> QED
    BY <2>5, <2>7, <2>8
<1> QED
  BY <1>4, <1>5, <1>6, <1>7

\* A flag weighs nothing.
LEMMA FlaggedGains ==
  ASSUME NEW p, NEW n, NEW q, ElasticGains(p, n, q), NEW k \in Keys
  PROVE  ElasticGains(p, n, Flagged(q, k))
<1>1. q \in ElasticState /\ \A row \in LightRows : RowMass(q, row) = RowMass(p, row) + n
  BY DEF ElasticGains
<1>2. CASE ~ Resident(q, k)
  BY <1>2 DEF Flagged
<1>3. CASE Resident(q, k)
  <2>1. PICK b : b = q.heavy[BucketOf[k]]
    OBVIOUS
  <2>2. Fit(b) /\ b \in Bucks
    <3>1. BucketOf[k] \in Buckets
      BY ElasticFacts
    <3> QED
      BY <1>1, <2>1, <3>1 DEF ElasticState, HeavyPart, Fit
  <2>3. PICK u : u = [b EXCEPT !.flag = TRUE]
    OBVIOUS
  <2>4. u \in Bucks /\ u.id = b.id /\ u.pos = b.pos /\ b.pos \in Int
    BY <2>2, <2>3 DEF Bucks
  <2>5. Fit(u)
    BY <2>2, <2>4 DEF Fit
  <2>6. PICK x : x = [q EXCEPT !.heavy = [q.heavy EXCEPT ![BucketOf[k]] = u]]
    OBVIOUS
  <2>7. Flagged(q, k) = x
    BY <1>3, <2>1, <2>3, <2>6 DEF Flagged
  <2>8. ElasticGains(q, u.pos - q.heavy[BucketOf[k]].pos, x)
    BY <1>1, <2>5, <2>6, HeavyPut
  <2>9. u.pos - q.heavy[BucketOf[k]].pos = 0
    BY <2>1, <2>4
  <2>10. x \in ElasticState /\ \A row \in LightRows : RowMass(x, row) = RowMass(q, row) + 0
    BY <2>8, <2>9 DEF ElasticGains
  <2>11. \A row \in LightRows : RowMass(x, row) = RowMass(q, row)
    BY <1>1, <2>10, RowMassTyped
  <2> QED
    BY <1>1, <2>7, <2>10, <2>11 DEF ElasticGains
<1> QED
  BY <1>2, <1>3

LEMMA AbsorbEvictedGains ==
  ASSUME NEW p \in ElasticState, NEW k \in Keys, NEW n \in Int
  PROVE  ElasticGains(p, n, AbsorbEvicted(p, k, n))
<1>1. p.heavy \in HeavyPart /\ p.light \in LightPart
  BY DEF ElasticState
<1>2. PICK q : q = [p EXCEPT !.light = LightAdded(@, k, n)]
  OBVIOUS
<1>3. /\ LightAdded(p.light, k, n) \in LightPart
      /\ \A row \in LightRows :
           SumOf(PartOf(LightAdded(p.light, k, n), RowCells(row)))
           = SumOf(PartOf(p.light, RowCells(row))) + n
  BY <1>1, LightPut
<1>4. q \in ElasticState /\ q.heavy = p.heavy /\ q.light = LightAdded(p.light, k, n)
  BY <1>1, <1>2, <1>3 DEF ElasticState
<1>5. ASSUME NEW row \in LightRows
      PROVE  RowMass(q, row) = RowMass(p, row) + n
  <2>1. PICK v \in Int, t \in Int :
          v = SumOf(Votes(p.heavy)) /\ t = SumOf(PartOf(p.light, RowCells(row)))
    BY RowMassTyped
  <2>2. RowMass(p, row) = v + t /\ RowMass(q, row) = v + (t + n)
    BY <1>3, <1>4, <2>1 DEF RowMass
  <2> QED
    BY <2>2
<1>6. ElasticGains(p, n, q)
  BY <1>4, <1>5 DEF ElasticGains
<1>7. ElasticGains(p, n, Flagged(q, k))
  BY <1>6, FlaggedGains
<1>8. AbsorbEvicted(p, k, n) = Flagged(q, k)
  BY <1>2 DEF AbsorbEvicted
<1> QED
  BY <1>7, <1>8

LEMMA MergeHeavyGains ==
  ASSUME NEW p \in ElasticState, NEW k \in Keys, NEW n \in Int, NEW flag \in BOOLEAN
  PROVE  ElasticGains(p, n, MergeHeavy(p, k, n, flag))
<1>1. PICK q : q = InsertMany(p, k, n)
  OBVIOUS
<1>2. ElasticGains(p, n, q)
  BY <1>1, InsertManyGains
<1>3. ElasticGains(p, n, Flagged(q, k))
  BY <1>2, FlaggedGains
<1>4. MergeHeavy(p, k, n, flag) = Flagged(q, k) \/ MergeHeavy(p, k, n, flag) = q
  BY <1>1 DEF MergeHeavy
<1> QED
  BY <1>2, <1>3, <1>4

\* What a delta brings the parent in a row.
ElasticTakes(p, d, q) ==
  /\ q \in ElasticState
  /\ \A row \in LightRows :
       RowMass(q, row) = RowMass(p, row) + (IF d \in RowWay(row) THEN d.value ELSE 0)

LEMMA LightTaken ==
  ASSUME NEW p \in ElasticState,
         NEW d \in [kind : {"light"}, cell : LightCells, value : Int]
  PROVE  ElasticTakes(p, d, [p EXCEPT !.light = AddTo(@, d)])
<1>1. p.heavy \in HeavyPart /\ p.light \in LightPart
  BY DEF ElasticState
<1>2. PICK c \in LightCells, n \in Int : c = d.cell /\ n = d.value
  OBVIOUS
<1>3. PICK l, m : l = p.light /\ m = [l EXCEPT ![c] = @ + n]
  OBVIOUS
<1>4. PICK q : q = [p EXCEPT !.light = AddTo(@, d)]
  OBVIOUS
<1>5. AddTo(l, d) = m
  BY <1>2, <1>3 DEF AddTo
<1>6. l \in [LightCells -> Int] /\ m \in [LightCells -> Int]
      /\ m[c] = l[c] + n /\ \A x \in LightCells : x # c => m[x] = l[x]
  BY <1>1, <1>3 DEF LightPart
<1>7. m \in LightPart /\ l \in LightPart
  BY <1>6 DEF LightPart
<1>8. q \in ElasticState /\ q.heavy = p.heavy /\ q.light = m
  BY <1>1, <1>3, <1>4, <1>5, <1>7 DEF ElasticState
<1>9. \A row : d \in RowWay(row) <=> c[1] = row
  <2>1. d = [kind |-> "light", cell |-> c, value |-> n]
    BY <1>2
  <2> QED
    BY <2>1, LightDelta
<1>10. ASSUME NEW row \in LightRows
       PROVE  RowMass(q, row) = RowMass(p, row) + (IF d \in RowWay(row) THEN d.value ELSE 0)
  <2>1. PICK S, f, g : S = RowCells(row) /\ f = PartOf(l, S) /\ g = PartOf(m, S)
    OBVIOUS
  <2>2. S \in SUBSET LightCells /\ IsFiniteSet(S) /\ f \in [S -> Int] /\ g \in [S -> Int]
        /\ SumOf(f) \in Int
    BY <1>7, <2>1, RowCellsFacts, RowPart
  <2>3. \A x \in S : f[x] = l[x] /\ g[x] = m[x]
    BY <2>1 DEF PartOf
  <2>4. SumOf(g) = SumOf(f) + (IF c[1] = row THEN n ELSE 0)
    <3>1. CASE c[1] = row
      <4>1. c \in S
        BY <2>1, <3>1 DEF RowCells
      <4>2. ChangesAt(c, S, f, g)
        BY <1>6, <2>2, <2>3, <4>1 DEF ChangesAt
      <4>3. SumOf(g) = SumOf(f) + (g[c] - f[c])
        BY <4>2, IntSumChanged
      <4>4. f[c] \in Int /\ g[c] = f[c] + n
        BY <1>6, <2>2, <2>3, <4>1
      <4> QED
        BY <2>2, <3>1, <4>3, <4>4
    <3>2. CASE c[1] # row
      <4>1. \A x \in S : x # c
        BY <2>1, <3>2 DEF RowCells
      <4>2. \A x \in S : g[x] = f[x]
        BY <1>6, <2>2, <2>3, <4>1
      <4>3. g = f
        BY <2>2, <4>2
      <4> QED
        BY <2>2, <3>2, <4>3
    <3> QED
      BY <3>1, <3>2
  <2>5. PICK v \in Int, t \in Int : v = SumOf(Votes(p.heavy)) /\ t = SumOf(f)
    BY <2>2, RowMassTyped
  <2>6. RowMass(p, row) = v + t /\ RowMass(q, row) = v + SumOf(g)
    BY <1>3, <1>8, <2>1, <2>5 DEF RowMass
  <2>7. CASE c[1] = row
    BY <1>2, <1>9, <2>4, <2>5, <2>6, <2>7
  <2>8. CASE c[1] # row
    BY <1>2, <1>9, <2>4, <2>5, <2>6, <2>8
  <2> QED
    BY <2>7, <2>8
<1> QED
  BY <1>4, <1>8, <1>10 DEF ElasticTakes

LEMMA ElasticAppliedTakes ==
  ASSUME NEW p \in ElasticState, NEW d \in ElasticDeltas
  PROVE  ElasticTakes(p, d, ElasticApplied(p, d))
<1>1. CASE d \in [kind : {"heavy"}, key : Keys, value : Int, flag : BOOLEAN]
  <2>1. d.kind = "heavy" /\ d.key \in Keys /\ d.value \in Int /\ d.flag \in BOOLEAN
    BY <1>1
  <2>2. ElasticApplied(p, d) = MergeHeavy(p, d.key, d.value, d.flag)
    BY <2>1 DEF ElasticApplied
  <2>3. \A row : d \in RowWay(row)
    BY <2>1 DEF RowWay
  <2>4. ElasticGains(p, d.value, MergeHeavy(p, d.key, d.value, d.flag))
    BY <2>1, MergeHeavyGains
  <2> QED
    BY <2>2, <2>3, <2>4 DEF ElasticGains, ElasticTakes
<1>2. CASE d \in [kind : {"evicted"}, key : Keys, value : Int]
  <2>1. d.kind = "evicted" /\ d.key \in Keys /\ d.value \in Int
    BY <1>2
  <2>2. ElasticApplied(p, d) = AbsorbEvicted(p, d.key, d.value)
    BY <2>1 DEF ElasticApplied
  <2>3. \A row : d \in RowWay(row)
    BY <2>1 DEF RowWay
  <2>4. ElasticGains(p, d.value, AbsorbEvicted(p, d.key, d.value))
    BY <2>1, AbsorbEvictedGains
  <2> QED
    BY <2>2, <2>3, <2>4 DEF ElasticGains, ElasticTakes
<1>3. CASE d \in [kind : {"light"}, cell : LightCells, value : Int]
  <2>1. d.kind = "light"
    BY <1>3
  <2>2. ElasticApplied(p, d) = [p EXCEPT !.light = AddTo(@, d)]
    BY <2>1 DEF ElasticApplied
  <2>3. ElasticTakes(p, d, [p EXCEPT !.light = AddTo(@, d)])
    BY <1>3, LightTaken
  <2> QED
    BY <2>2, <2>3
<1> QED
  BY <1>1, <1>2, <1>3 DEF ElasticDeltas

LEMMA ElasticCarry ==
  ASSUME ElasticTyped
  PROVE  /\ Carry(ElasticDeltas, queue)
         /\ \A row : Amounts(RowBack(held, row)) /\ RowMass(parent, row) \in Int
<1>1. Carry(ElasticDeltas, queue)
  BY DeltaValues DEF ElasticTyped, Carry
<1>2. \A row : \A w \in Workers : RowMass(held[w], row) \in Int
  BY RowMassTyped DEF ElasticTyped
<1>3. \A row : RowMass(parent, row) \in Int
  BY RowMassTyped DEF ElasticTyped
<1> QED
  BY <1>1, <1>2, <1>3 DEF Amounts, RowBack

LEMMA ElasticShipsKept ==
  ASSUME ElasticKept, plan = "Elastic", NEW w \in Workers, NEW n, NEW new, NEW out,
         ElasticShips(held[w], n, new, out), WorkerShips(w, n, new, out)
  PROVE  ElasticKept'
<1>1. /\ OffWorker(w, Weights, Weights')
      /\ Weights'[w] = Weights[w] + n /\ n \in Nat
      /\ held' = [held EXCEPT ![w] = new]
      /\ queue' = [queue EXCEPT ![w] = @ \o out]
      /\ parent' = parent /\ plan' = plan
  BY DEF WorkerShips
<1>2. /\ new \in ElasticState /\ out \in Seq(ElasticDeltas)
      /\ \A row \in LightRows :
           RowMass(new, row) + OnWay(out, RowWay(row)) = RowMass(held[w], row) + n
  BY DEF ElasticShips
<1>3. /\ ElasticTyped
      /\ \A row \in LightRows :
           Balanced(Weights, RowMass(parent, row), RowBack(held, row), queue, RowWay(row))
  BY DEF ElasticKept
<1>4. /\ Carry(ElasticDeltas, queue)
      /\ \A row : Amounts(RowBack(held, row)) /\ RowMass(parent, row) \in Int
  BY <1>3, ElasticCarry
<1>5. ElasticTyped'
  <2>1. PICK q \in Seq(ElasticDeltas) : q = queue[w]
    BY <1>3 DEF ElasticTyped
  <2>2. q \o out \in Seq(ElasticDeltas)
    BY <1>2, <2>1, ConcatRow
  <2>3. queue' = [queue EXCEPT ![w] = q \o out]
    BY <1>1, <2>1
  <2>4. queue' \in [Workers -> Seq(ElasticDeltas)]
    BY <1>3, <2>2, <2>3 DEF ElasticTyped
  <2>5. held' \in [Workers -> ElasticState]
    BY <1>1, <1>2, <1>3 DEF ElasticTyped
  <2> QED
    BY <1>1, <1>3, <2>4, <2>5 DEF ElasticTyped
<1>6. /\ held'[w] = new /\ \A v \in Workers : v # w => held'[v] = held[v]
  BY <1>1, <1>3 DEF ElasticTyped
<1>7. \A row : Amounts(RowBack(held', row))
  <2>1. \A row : \A v \in Workers : RowMass(held'[v], row) \in Int
    BY <1>5, RowMassTyped DEF ElasticTyped
  <2> QED
    BY <2>1 DEF Amounts, RowBack
<1>8. Weights[w] \in Int /\ Weights'[w] - Weights[w] = n
  BY <1>1 DEF OffWorker
<1>9. ASSUME NEW row \in LightRows
      PROVE  Balanced(Weights', RowMass(parent, row), RowBack(held', row), queue', RowWay(row))
  <2>1. OffWorker(w, RowBack(held, row), RowBack(held', row))
    BY <1>4, <1>6, <1>7 DEF OffWorker, Amounts, RowBack
  <2>2. /\ RowBack(held, row)[w] = RowMass(held[w], row)
        /\ RowBack(held', row)[w] = RowMass(new, row)
    BY <1>6 DEF RowBack
  <2>3. Queued(ElasticDeltas, w, queue, out, queue')
    BY <1>1, <1>2 DEF Queued
  <2>4. RowMass(new, row) + OnWay(out, RowWay(row)) = RowMass(held[w], row) + n
    BY <1>2
  <2>5. Parts(w, RowBack(held, row), RowBack(held', row), Weights, Weights',
              OnWay(out, RowWay(row)))
    BY <1>8, <2>2, <2>4 DEF Parts
  <2>6. Balanced(Weights, RowMass(parent, row), RowBack(held, row), queue, RowWay(row))
    BY <1>3
  <2> QED
    BY <1>1, <1>4, <2>1, <2>3, <2>5, <2>6, ShippingBalances
<1> QED
  BY <1>1, <1>5, <1>9 DEF ElasticKept

LEMMA ElasticKeptProcess ==
  ASSUME ElasticKept, Shares, plan = "Elastic",
         NEW w \in Workers, NEW k \in KeysOf[plan], Process(w, k)
  PROVE  ElasticKept'
<1>1. PICK x \in Outcomes(w, k) : Ships(w, x)
  BY DEF Process
<1>2. plan' = plan /\ parent' = parent /\ given' = [given EXCEPT ![w][k] = @ + 1]
  BY DEF Process
<1>3. ~ CellPlan(plan) /\ plan # "Hll" /\ plan # "Coco"
  BY DEF CellPlan, HeapPlans
<1>4. x = ElasticInsert(held[w], k, tau)
  BY <1>1, <1>3 DEF Outcomes
<1>5. k \in Keys /\ held[w] \in ElasticState
  BY WeightNat DEF ElasticKept, ElasticTyped
<1>6. ElasticShips(held[w], 1, x.held, x.out)
  BY <1>4, <1>5, ElasticInsertShips
<1>7. OffWorker(w, Weights, Weights') /\ Weights'[w] = Weights[w] + 1
  BY <1>2, WeightGrows
<1>8. WorkerShips(w, 1, x.held, x.out)
  BY <1>1, <1>2, <1>7 DEF WorkerShips, Ships
<1> QED
  BY <1>6, <1>8, ElasticShipsKept

LEMMA ElasticKeptFlush ==
  ASSUME ElasticKept, Shares, plan = "Elastic", NEW w \in Workers, Flush(w)
  PROVE  ElasticKept'
<1>1. WorkerShips(w, 0, FlushOf(w).held, FlushOf(w).out)
  BY FlushShips
<1>2. FlushOf(w) = ElasticFlush(held[w])
  <2>1. ~ CellPlan(plan) /\ plan # "Hll" /\ plan # "Coco"
    BY DEF CellPlan, HeapPlans
  <2> QED
    BY <2>1 DEF FlushOf
<1>3. held[w] \in ElasticState
  BY DEF ElasticKept, ElasticTyped
<1>4. ElasticShips(held[w], 0, FlushOf(w).held, FlushOf(w).out)
  BY <1>2, <1>3, ElasticFlushShips
<1> QED
  BY <1>1, <1>4, ElasticShipsKept

LEMMA ElasticKeptApply ==
  ASSUME ElasticKept, Shares, plan = "Elastic", NEW w \in Workers, Apply(w)
  PROVE  ElasticKept'
<1>1. /\ plan' = plan /\ held' = held /\ given' = given
      /\ queue' = [queue EXCEPT ![w] = Tail(@)] /\ queue[w] # <<>>
      /\ parent' \in ParentOutcomes(Head(queue[w]))
  BY DEF Apply, Polled
<1>2. /\ ElasticTyped
      /\ \A row \in LightRows :
           Balanced(Weights, RowMass(parent, row), RowBack(held, row), queue, RowWay(row))
  BY DEF ElasticKept
<1>3. PICK d : d = Head(queue[w])
  OBVIOUS
<1>4. PICK q \in Seq(ElasticDeltas) : q = queue[w]
  BY <1>2 DEF ElasticTyped
<1>5. d \in ElasticDeltas /\ Tail(q) \in Seq(ElasticDeltas)
  <2>1. q # <<>> /\ d = Head(q)
    BY <1>1, <1>3, <1>4
  <2>2. PICK S : S = ElasticDeltas
    OBVIOUS
  <2>3. q \in Seq(S)
    BY <2>2
  <2>4. Head(q) \in S /\ Tail(q) \in Seq(S)
    BY <2>1, <2>3
  <2> QED
    BY <2>1, <2>2, <2>4
<1>6. parent' = ElasticApplied(parent, d)
  <2>1. ~ CellPlan(plan) /\ plan # "Hll" /\ plan # "Coco"
    BY DEF CellPlan, HeapPlans
  <2> QED
    BY <1>1, <1>3, <2>1 DEF ParentOutcomes
<1>7. parent \in ElasticState
  BY <1>2 DEF ElasticTyped
<1>8. /\ parent' \in ElasticState
      /\ \A row \in LightRows :
           RowMass(parent', row) = RowMass(parent, row) + (IF d \in RowWay(row) THEN d.value ELSE 0)
  BY <1>5, <1>6, <1>7, ElasticAppliedTakes DEF ElasticTakes
<1>9. ElasticTyped'
  <2>1. queue' = [queue EXCEPT ![w] = Tail(q)]
    BY <1>1, <1>4
  <2>2. queue' \in [Workers -> Seq(ElasticDeltas)]
    BY <1>2, <1>5, <2>1 DEF ElasticTyped
  <2> QED
    BY <1>1, <1>2, <1>8, <2>2 DEF ElasticTyped
<1>10. /\ Carry(ElasticDeltas, queue)
       /\ \A row : Amounts(RowBack(held, row)) /\ RowMass(parent, row) \in Int
  BY <1>2, ElasticCarry
<1>11. Amounts(Weights) /\ Weights' = Weights
  BY <1>1, WeightsTyped, WeightsStay
<1>12. Taken(w, queue, d, queue')
  BY <1>1, <1>3 DEF Taken
<1>13. ASSUME NEW row \in LightRows
       PROVE  Balanced(Weights, RowMass(parent', row), RowBack(held, row), queue', RowWay(row))
  <2>1. PICK a \in Int, b \in Int, v \in Int :
          a = RowMass(parent, row) /\ b = RowMass(parent', row) /\ v = d.value
    BY <1>5, <1>8, <1>10, RowMassTyped, DeltaValues
  <2>2. b = a + (IF d \in RowWay(row) THEN v ELSE 0)
    BY <1>8, <2>1
  <2>3. b - a = IF d \in RowWay(row) THEN v ELSE 0
    BY <2>1, <2>2
  <2>4. Gives(a, b, d, RowWay(row))
    BY <2>1, <2>3 DEF Gives
  <2>5. Balanced(Weights, a, RowBack(held, row), queue, RowWay(row))
    BY <1>2, <2>1
  <2>6. Balanced(Weights, b, RowBack(held, row), queue', RowWay(row))
    BY <1>10, <1>11, <1>12, <2>1, <2>4, <2>5, TakingBalances
  <2> QED
    BY <2>1, <2>6
<1> QED
  BY <1>1, <1>9, <1>11, <1>13 DEF ElasticKept

LEMMA ElasticKeptInit == Init => ElasticKept
<1> SUFFICES ASSUME Init, plan = "Elastic"
             PROVE  ElasticKept
  BY DEF ElasticKept
<1>1. /\ held = [w \in Workers |-> NoElastic] /\ parent = NoElastic
      /\ queue = [w \in Workers |-> <<>>]
  <2>1. ~ CellPlan(plan) /\ plan # "Hll" /\ plan # "Coco"
    BY DEF CellPlan, HeapPlans
  <2>2. Fresh(plan) = NoElastic
    BY <2>1 DEF Fresh
  <2> QED
    BY <2>2 DEF Init
<1>2. PICK h, l : /\ h = [b \in Buckets |-> Bucket(NoFlow, 0, 0, FALSE)]
                  /\ l = [c \in LightCells |-> 0]
  OBVIOUS
<1>3. NoElastic = [heavy |-> h, light |-> l]
  BY <1>2 DEF NoElastic
<1>4. h \in HeavyPart /\ \A b \in Buckets : h[b].pos = 0
  BY <1>2 DEF HeavyPart, Bucket, Bucks
<1>5. l \in LightPart /\ \A c \in LightCells : l[c] = 0
  BY <1>2 DEF LightPart
<1>6. NoElastic \in ElasticState
  BY <1>3, <1>4, <1>5 DEF ElasticState
<1>7. ElasticTyped
  <2>1. <<>> \in Seq(ElasticDeltas)
    OBVIOUS
  <2> QED
    BY <1>1, <1>6, <2>1 DEF ElasticTyped
<1>8. \A row : RowMass(NoElastic, row) = 0
  <2> SUFFICES ASSUME NEW row
               PROVE  RowMass(NoElastic, row) = 0
    OBVIOUS
  <2>1. PICK f, g : f = Votes(h) /\ g = PartOf(l, RowCells(row))
    OBVIOUS
  <2>2. f \in [Buckets -> Int] /\ \A b \in Buckets : f[b] = 0
    BY <1>4, <2>1 DEF Votes
  <2>3. g \in [RowCells(row) -> Int] /\ \A c \in RowCells(row) : g[c] = 0
    BY <1>5, <2>1, RowCellsFacts DEF PartOf
  <2>4. SumOf(f) = 0 /\ SumOf(g) = 0
    BY <2>2, <2>3, ElasticFacts, RowCellsFacts, IntSumOfNothing
  <2> QED
    BY <1>3, <2>1, <2>4 DEF RowMass
<1>9. /\ Carry(ElasticDeltas, queue)
      /\ \A row : Amounts(RowBack(held, row))
  BY <1>7, ElasticCarry
<1>10. \A row : \A w \in Workers : RowBack(held, row)[w] = 0
  BY <1>1, <1>8 DEF RowBack
<1>11. \A row : Balanced(Weights, 0, RowBack(held, row), queue, RowWay(row))
  BY <1>9, <1>10, NothingBalances
<1> QED
  BY <1>1, <1>7, <1>8, <1>11 DEF ElasticKept

LEMMA ElasticMassIs ==
  \A s, row : ElasticMass(s, row) = RowMass(s, row)
<1> SUFFICES ASSUME NEW s, NEW row
             PROVE  ElasticMass(s, row) = RowMass(s, row)
  OBVIOUS
<1>1. Sum(Buckets, LAMBDA b : s.heavy[b].pos) = SumOf(Votes(s.heavy))
  BY SumOverIs DEF Sum, Votes
<1>2. Sum(RowCells(row), LAMBDA c : s.light[c]) = SumOf(PartOf(s.light, RowCells(row)))
  BY SumOverIs DEF Sum, PartOf
<1> QED
  BY <1>1, <1>2 DEF ElasticMass, RowMass

LEMMA ElasticMassKept ==
  ASSUME ElasticKept, plan = "Elastic", NEW row \in LightRows
  PROVE  MassKept(LAMBDA s : ElasticMass(s, row), LAMBDA d : d.kind = "light" => d.cell[1] = row)
<1>1. /\ ElasticTyped
      /\ Balanced(Weights, RowMass(parent, row), RowBack(held, row), queue, RowWay(row))
  BY DEF ElasticKept
<1>2. \A w \in Workers :
        InFlight(w, LAMBDA d : d.kind = "light" => d.cell[1] = row) = OnWay(queue[w], RowWay(row))
  <2> SUFFICES ASSUME NEW w \in Workers
               PROVE  InFlight(w, LAMBDA d : d.kind = "light" => d.cell[1] = row)
                      = OnWay(queue[w], RowWay(row))
    OBVIOUS
  <2>1. queue[w] \in Seq(ElasticDeltas)
    BY <1>1 DEF ElasticTyped
  <2>2. \A i \in DOMAIN queue[w] : queue[w][i] \in ElasticDeltas
    BY <2>1
  <2>3. {i \in DOMAIN queue[w] : queue[w][i].kind = "light" => queue[w][i].cell[1] = row}
        = At(queue[w], RowWay(row))
    BY <2>2 DEF At, RowWay
  <2>4. InFlight(w, LAMBDA d : d.kind = "light" => d.cell[1] = row)
        = SumOver([i \in At(queue[w], RowWay(row)) |-> queue[w][i].value])
    BY <2>3 DEF InFlight, Sum
  <2> QED
    BY <2>4, SumOverIs DEF OnWay
<1>3. [w \in Workers |-> ElasticMass(held[w], row)
                         + InFlight(w, LAMBDA d : d.kind = "light" => d.cell[1] = row)]
      = Apart(RowBack(held, row), queue, RowWay(row))
  BY <1>2, ElasticMassIs DEF Apart, RowBack
<1>4. Sum(Workers, LAMBDA w : ElasticMass(held[w], row)
                     + InFlight(w, LAMBDA d : d.kind = "light" => d.cell[1] = row))
      = SumOf(Apart(RowBack(held, row), queue, RowWay(row)))
  <2>1. Sum(Workers, LAMBDA w : ElasticMass(held[w], row)
                       + InFlight(w, LAMBDA d : d.kind = "light" => d.cell[1] = row))
        = SumOver(Apart(RowBack(held, row), queue, RowWay(row)))
    BY <1>3 DEF Sum
  <2> QED
    BY <2>1, SumOverIs
<1>5. Sum(Workers, WeightTotal)
      = ElasticMass(parent, row)
        + Sum(Workers, LAMBDA w : ElasticMass(held[w], row)
                         + InFlight(w, LAMBDA d : d.kind = "light" => d.cell[1] = row))
  BY <1>1, <1>4, GivenSum, ElasticMassIs DEF Balanced
<1> QED
  BY <1>5 DEF MassKept

(***************************************************************************)
(* Nothing is lost.                                                        *)
(***************************************************************************)
LEMMA KeptStays ==
  ASSUME Kept, UNCHANGED streamVars
  PROVE  Kept'
<1>1. /\ plan' = plan /\ held' = held /\ queue' = queue /\ parent' = parent
      /\ tally' = tally /\ given' = given
  BY DEF streamVars
<1>2. Weights' = Weights
  BY <1>1, WeightsStay
<1>3. CellBalance'
  BY <1>1 DEF Kept, CellBalance, GivenTo, Back
<1>4. Reports'
  BY <1>1 DEF Kept, Reports, WeightTotal
<1>5. Lags'
  <2>1. HllTyped' <=> HllTyped
    BY <1>1 DEF HllTyped
  <2>2. \A w \in Workers, r \in Registers :
          (Ranked(w, r)' <=> Ranked(w, r)) /\ (LagsLittle(w, r)' <=> LagsLittle(w, r))
    BY <1>1 DEF Ranked, LagsLittle
  <2> QED
    BY <1>1, <2>1, <2>2 DEF Kept, Lags
<1>6. CocoKept'
  BY <1>1, <1>2 DEF Kept, CocoKept, CocoTyped
<1>7. ElasticKept'
  BY <1>1, <1>2 DEF Kept, ElasticKept, ElasticTyped
<1> QED
  BY <1>3, <1>4, <1>5, <1>6, <1>7 DEF Kept

LEMMA KeptByStream ==
  ASSUME PlanInv, Kept, StreamStep, plan' = plan
  PROVE  Kept'
<1>1. Shares /\ CellTyped
  BY DEF PlanInv
<1>2. CellBalance /\ Reports /\ Lags /\ CocoKept /\ ElasticKept
  BY DEF Kept
<1>3. PICK w \in Workers : (\E k \in KeysOf[plan] : Process(w, k)) \/ Flush(w) \/ Apply(w)
  BY DEF StreamStep
<1>4. CellBalance'
  <2>1. CASE CellPlan(plan)
    BY <1>1, <1>2, <1>3, <2>1, ProcessBalance, FlushBalance, ApplyBalance
  <2>2. CASE ~ CellPlan(plan)
    BY <2>2 DEF CellBalance
  <2> QED
    BY <2>1, <2>2
<1>5. Reports'
  BY <1>1, <1>2, <1>3, ReportsProcess, ReportsFlush, ReportsApply
<1>6. Lags'
  BY <1>1, <1>2, <1>3, LagsProcess, LagsFlush, LagsApply
<1>7. CocoKept'
  <2>1. CASE plan = "Coco"
    BY <1>1, <1>2, <1>3, <2>1, CocoKeptProcess, CocoKeptFlush, CocoKeptApply
  <2>2. CASE plan # "Coco"
    BY <2>2 DEF CocoKept
  <2> QED
    BY <2>1, <2>2
<1>8. ElasticKept'
  <2>1. CASE plan = "Elastic"
    BY <1>1, <1>2, <1>3, <2>1, ElasticKeptProcess, ElasticKeptFlush, ElasticKeptApply
  <2>2. CASE plan # "Elastic"
    BY <2>2 DEF ElasticKept
  <2> QED
    BY <2>1, <2>2
<1> QED
  BY <1>4, <1>5, <1>6, <1>7, <1>8 DEF Kept

LEMMA LostInvStep ==
  ASSUME PlanInv, LostInv, [Next]_vars
  PROVE  LostInv'
<1>1. Shares
  BY DEF PlanInv
<1>2. CASE returned'
  BY <1>2 DEF LostInv
<1>3. CASE UNCHANGED streamVars /\ returned' = returned
  BY <1>3, KeptStays DEF LostInv
<1>4. CASE StreamStep /\ ~ returned /\ returned' = returned /\ plan' = plan
  BY <1>4, KeptByStream DEF LostInv
<1> QED
  BY <1>1, <1>2, <1>3, <1>4, StepsOfStream

LEMMA LostInvInit == Init => LostInv
<1> SUFFICES ASSUME Init
             PROVE  Kept
  BY DEF LostInv
<1>1. CellBalance
  <2>1. CASE CellPlan(plan)
    BY <2>1, InitBalance
  <2>2. CASE ~ CellPlan(plan)
    BY <2>2 DEF CellBalance
  <2> QED
    BY <2>1, <2>2
<1> QED
  BY <1>1, ReportsInit, LagsInit, CocoKeptInit, ElasticKeptInit DEF Kept

\* What each plan is given is in its parent, on the way or held back, once,
\* under every interleaving of inserts, flushes, applications and moves of
\* tau: in every counter of a linear sketch, as weight in Coco and in every
\* row of Elastic; UnivMon's reports never go back, and a register lags by
\* less than its threshold.
THEOREM NothingLostCorrect == Spec => []NothingLost
<1>1. PlanInv /\ LostInv => NothingLost
  <2> SUFFICES ASSUME PlanInv, Kept
               PROVE  /\ CellPlan(plan) => CellsKept
                      /\ plan = "UnivMon" => ReportsGrow
                      /\ plan = "Hll" => RegistersLag
                      /\ plan = "Coco" => MassKept(CocoMass, LAMBDA d : TRUE)
                      /\ plan = "Elastic" =>
                           \A row \in LightRows :
                             MassKept(LAMBDA s : ElasticMass(s, row),
                                      LAMBDA d : d.kind = "light" => d.cell[1] = row)
    BY DEF NothingLost, LostInv
  <2>1. Shares /\ CellTyped /\ CellBalance /\ Reports /\ Lags /\ CocoKept /\ ElasticKept
    BY DEF PlanInv, Kept
  <2>2. CellPlan(plan) => CellsKept
    BY <2>1, CellsKeptIs
  <2>3. plan = "UnivMon" => ReportsGrow
    BY <2>1, ReportsGrowIs
  <2>4. plan = "Hll" => RegistersLag
    BY <2>1, RegistersLagIs
  <2>5. plan = "Coco" => MassKept(CocoMass, LAMBDA d : TRUE)
    BY <2>1, CocoMassKept
  <2>6. ASSUME plan = "Elastic", NEW row \in LightRows
        PROVE  MassKept(LAMBDA s : ElasticMass(s, row),
                        LAMBDA d : d.kind = "light" => d.cell[1] = row)
    BY <2>1, <2>6, ElasticMassKept
  <2> QED
    BY <2>2, <2>3, <2>4, <2>5, <2>6
<1>2. Init => LostInv
  BY LostInvInit
<1>3. PlanInv /\ LostInv /\ [Next]_vars => LostInv'
  BY LostInvStep
<1>4. Spec => []LostInv
  BY <1>2, <1>3, PlanInvariant, PTL DEF Spec
<1> QED
  BY <1>1, <1>4, PlanInvariant, PTL

(***************************************************************************)
(* Elastic, flow by flow: what a bucket and a delta say of a flow.         *)
(***************************************************************************)
LEMMA SeatFacts ==
  ASSUME NEW s, Regular(s), NEW k \in Keys
  PROVE  /\ BucketOf[k] \in Buckets
         /\ Seat(s, k) \in Bucks /\ Fit(Seat(s, k))
         /\ Seat(s, k).pos \in Nat /\ PosOf(s, k) \in Nat
         /\ Seat(s, k).flag \in BOOLEAN /\ Seat(s, k).neg \in Int
         /\ Seat(s, k).id \in Keys \cup {NoFlow} /\ k # NoFlow
         /\ Seat(s, k).id # NoFlow => BucketOf[Seat(s, k).id] = BucketOf[k]
<1>1. BucketOf[k] \in Buckets /\ k # NoFlow
  BY ElasticFacts
<1>2. PICK u : u = Seat(s, k)
  OBVIOUS
<1>3. u \in Bucks /\ (u.id = NoFlow => u.pos = 0) /\ u.pos >= 0
      /\ (u.id # NoFlow => BucketOf[u.id] = BucketOf[k])
  BY <1>1, <1>2 DEF Seat, Regular, ElasticState, HeavyPart
<1>4. /\ u.pos \in Nat /\ u.flag \in BOOLEAN /\ u.neg \in Int
      /\ u.id \in Keys \cup {NoFlow}
  BY <1>3 DEF Bucks
<1>5. PosOf(s, k) \in Nat
  BY <1>2, <1>4 DEF PosOf
<1> QED
  BY <1>1, <1>2, <1>3, <1>4, <1>5 DEF Fit

LEMMA LightFacts ==
  ASSUME NEW s, Regular(s), NEW k \in Keys, NEW c \in LightOf[k]
  PROVE  c \in LightCells /\ s.light[c] \in Nat
<1>1. c \in LightCells
  BY ElasticFacts
<1>2. s.light \in [LightCells -> Int] /\ s.light[c] >= 0
  BY <1>1 DEF Regular, ElasticState, LightPart
<1> QED
  BY <1>1, <1>2

\* Which deltas tell of which flow.
TellsHeavy(d, f, n, flag) ==
  /\ d \in ElasticDeltas /\ d.value = n /\ d.kind = "heavy"
  /\ \A k : /\ d \in About(k) <=> k = f
            /\ d \in Plain(k) <=> k = f /\ ~ flag
            /\ d \in Parting(k) <=> k = f /\ flag
            /\ \A c : d \in KeyWay(k, c) <=> k = f

TellsEvicted(d, f, n) ==
  /\ d \in ElasticDeltas /\ d.value = n /\ d.kind = "evicted"
  /\ \A k : /\ d \in About(k) <=> k = f
            /\ d \notin Plain(k)
            /\ d \in Parting(k) <=> k = f
            /\ \A c : d \in KeyWay(k, c) <=> k = f

TellsLight(d, x, n) ==
  /\ d \in ElasticDeltas /\ d.value = n /\ d.kind = "light"
  /\ \A k : /\ d \notin About(k) /\ d \notin Plain(k) /\ d \notin Parting(k)
            /\ \A c : d \in KeyWay(k, c) <=> x = c

LEMMA HeavyWays ==
  ASSUME NEW f \in Keys, NEW n \in Int, NEW flag \in BOOLEAN
  PROVE  TellsHeavy(Heavy(f, n, flag), f, n, flag)
<1>0. PICK d : d = Heavy(f, n, flag)
  OBVIOUS
<1>1. d \in ElasticDeltas
  BY <1>0, HeavyDelta
<1>2. d.kind = "heavy" /\ d.key = f /\ d.flag = flag /\ d.value = n
  BY <1>0 DEF Heavy
<1> QED
  BY <1>0, <1>1, <1>2 DEF TellsHeavy, About, Plain, Parting, KeyWay

LEMMA EvictedWays ==
  ASSUME NEW f \in Keys, NEW n \in Int
  PROVE  TellsEvicted(Evicted(f, n), f, n)
<1>0. PICK d : d = Evicted(f, n)
  OBVIOUS
<1>1. d \in ElasticDeltas
  BY <1>0, EvictedDelta
<1>2. d.kind = "evicted" /\ d.key = f /\ d.value = n
  BY <1>0 DEF Evicted
<1> QED
  BY <1>0, <1>1, <1>2 DEF TellsEvicted, About, Plain, Parting, KeyWay

LightOne(x, n) == [kind |-> "light", cell |-> x, value |-> n]

LEMMA LightWays ==
  ASSUME NEW x \in LightCells, NEW n \in Int
  PROVE  TellsLight(LightOne(x, n), x, n)
<1>0. PICK d : d = LightOne(x, n)
  OBVIOUS
<1>1. d \in ElasticDeltas /\ d.kind = "light" /\ d.cell = x /\ d.value = n
  BY <1>0, LightDelta DEF LightOne
<1> QED
  BY <1>0, <1>1 DEF TellsLight, About, Plain, Parting, KeyWay

LEMMA DeltaKinds ==
  ASSUME NEW d \in ElasticDeltas
  PROVE  \/ \E f \in Keys, n \in Int, flag \in BOOLEAN : d = Heavy(f, n, flag)
         \/ \E f \in Keys, n \in Int : d = Evicted(f, n)
         \/ \E x \in LightCells, n \in Int : d = LightOne(x, n)
<1>1. CASE d \in [kind : {"heavy"}, key : Keys, value : Int, flag : BOOLEAN]
  <2>1. PICK f \in Keys, n \in Int, flag \in BOOLEAN :
          d = [kind |-> "heavy", key |-> f, value |-> n, flag |-> flag]
    BY <1>1
  <2> QED
    BY <2>1 DEF Heavy
<1>2. CASE d \in [kind : {"evicted"}, key : Keys, value : Int]
  <2>1. PICK f \in Keys, n \in Int : d = [kind |-> "evicted", key |-> f, value |-> n]
    BY <1>2
  <2> QED
    BY <2>1 DEF Evicted
<1>3. CASE d \in [kind : {"light"}, cell : LightCells, value : Int]
  BY <1>3 DEF LightOne
<1> QED
  BY <1>1, <1>2, <1>3 DEF ElasticDeltas

\* A bucket and the light part put in place.
Placed(s, b, u, m) == [heavy |-> [s.heavy EXCEPT ![b] = u], light |-> m]
Seemly(b, u) == Fit(u) /\ u.pos >= 0 /\ (u.id # NoFlow => BucketOf[u.id] = b)
Lit(m) == m \in LightPart /\ \A c \in LightCells : m[c] >= 0

LEMMA PlacedRegular ==
  ASSUME NEW s, Regular(s), NEW b \in Buckets, NEW u, Seemly(b, u), NEW m, Lit(m)
  PROVE  /\ Regular(Placed(s, b, u, m))
         /\ Placed(s, b, u, m).light = m /\ Placed(s, b, u, m).heavy[b] = u
         /\ \A x \in Buckets : x # b => Placed(s, b, u, m).heavy[x] = s.heavy[x]
         /\ \A k \in Keys : Seat(Placed(s, b, u, m), k)
                            = IF BucketOf[k] = b THEN u ELSE Seat(s, k)
<1>1. PICK h, g : h = s.heavy /\ g = [h EXCEPT ![b] = u]
  OBVIOUS
<1>2. h \in HeavyPart /\ h \in [Buckets -> Bucks]
      /\ \A x \in Buckets : h[x].pos >= 0 /\ (h[x].id # NoFlow => BucketOf[h[x].id] = x)
  BY <1>1 DEF Regular, ElasticState, HeavyPart
<1>3. Fit(u)
  BY DEF Seemly
<1>4. g \in HeavyPart
  BY <1>1, <1>2, <1>3, BucketPut
<1>5. g[b] = u /\ \A x \in Buckets : x # b => g[x] = h[x]
  BY <1>1, <1>2
<1>6. PICK t : t = Placed(s, b, u, m)
  OBVIOUS
<1>7. t = [heavy |-> g, light |-> m] /\ t.heavy = g /\ t.light = m
  BY <1>1, <1>6 DEF Placed
<1>8. t \in ElasticState
  BY <1>4, <1>7 DEF ElasticState, Lit
<1>9. \A x \in Buckets : g[x].pos >= 0 /\ (g[x].id # NoFlow => BucketOf[g[x].id] = x)
  BY <1>2, <1>5 DEF Seemly
<1>10. Regular(t)
  BY <1>7, <1>8, <1>9 DEF Regular, Lit
<1>11. \A k \in Keys : Seat(t, k) = IF BucketOf[k] = b THEN u ELSE Seat(s, k)
  <2>1. \A k \in Keys : BucketOf[k] \in Buckets
    BY ElasticFacts
  <2> QED
    BY <1>1, <1>5, <1>7, <2>1 DEF Seat
<1> QED
  BY <1>1, <1>5, <1>6, <1>7, <1>10, <1>11

LEMMA LightAddedLit ==
  ASSUME NEW m, Lit(m), NEW f \in Keys, NEW n \in Nat
  PROVE  /\ Lit(LightAdded(m, f, n))
         /\ \A c \in LightCells : /\ m[c] \in Nat
                                  /\ LightAdded(m, f, n)[c]
                                     = m[c] + (IF c \in LightOf[f] THEN n ELSE 0)
<1>1. PICK l : l = LightAdded(m, f, n)
  OBVIOUS
<1>2. m \in [LightCells -> Int] /\ \A c \in LightCells : m[c] >= 0
  BY DEF Lit, LightPart
<1>3. \A c \in LightCells : m[c] \in Nat
  BY <1>2
<1>4. l = [c \in LightCells |-> m[c] + (IF c \in LightOf[f] THEN n ELSE 0)]
  BY <1>1 DEF LightAdded
<1>5. \A c \in LightCells : /\ l[c] = m[c] + (IF c \in LightOf[f] THEN n ELSE 0)
                            /\ l[c] \in Nat
  BY <1>3, <1>4
<1>6. l \in LightPart /\ \A c \in LightCells : l[c] >= 0
  BY <1>4, <1>5 DEF LightPart
<1> QED
  BY <1>1, <1>3, <1>5, <1>6 DEF Lit

LEMMA LightAddedAt ==
  ASSUME NEW m, Lit(m), NEW f \in Keys, NEW n \in Nat, NEW c \in LightCells
  PROVE  LightAdded(m, f, n)[c] = m[c] + (IF c \in LightOf[f] THEN n ELSE 0)
BY LightAddedLit

\* What becomes of the bucket a heavy part of f meets, and of the light part.
Lands(p, f, n, flag, u, m) ==
  LET b == Seat(p, f)
  IN \/ /\ b.id = NoFlow
        /\ u.id = f /\ u.pos = n /\ (u.flag <=> flag) /\ m = p.light
     \/ /\ b.id = f
        /\ u.id = f /\ u.pos = b.pos + n /\ (u.flag <=> b.flag \/ flag) /\ m = p.light
     \/ /\ b.id # NoFlow /\ b.id # f
        /\ u.id = b.id /\ u.pos = b.pos /\ (u.flag <=> b.flag) /\ m = LightAdded(p.light, f, n)
     \/ /\ b.id # NoFlow /\ b.id # f
        /\ u.id = f /\ u.pos = n /\ u.flag /\ m = LightAdded(p.light, b.id, b.pos)

LEMMA FlaggedPlaced ==
  ASSUME NEW s, Regular(s), NEW f \in Keys, NEW u \in Bucks, Seemly(BucketOf[f], u), NEW m, Lit(m)
  PROVE  \E v \in Bucks :
           /\ Flagged(Placed(s, BucketOf[f], u, m), f) = Placed(s, BucketOf[f], v, m)
           /\ v.id = u.id /\ v.pos = u.pos
           /\ v.flag <=> u.flag \/ (u.id = f /\ u.pos # 0)
<1>1. PICK b \in Buckets : b = BucketOf[f]
  BY ElasticFacts
<1>2. PICK q : q = Placed(s, b, u, m)
  OBVIOUS
<1>3. q.heavy = [s.heavy EXCEPT ![b] = u] /\ q.light = m /\ q.heavy[b] = u
      /\ q = [heavy |-> [s.heavy EXCEPT ![b] = u], light |-> m]
  BY <1>1, <1>2, PlacedRegular DEF Placed
<1>4. Resident(q, f) <=> u.id = f /\ u.pos # 0
  BY <1>1, <1>3 DEF Resident
<1>5. CASE ~ Resident(q, f)
  <2>1. Flagged(q, f) = q /\ ~ (u.id = f /\ u.pos # 0)
    BY <1>4, <1>5 DEF Flagged
  <2>2. Flagged(Placed(s, BucketOf[f], u, m), f) = Placed(s, BucketOf[f], u, m)
    BY <1>1, <1>2, <2>1
  <2>3. u.flag <=> u.flag \/ (u.id = f /\ u.pos # 0)
    BY <2>1
  <2> QED
    BY <2>2, <2>3
<1>6. CASE Resident(q, f)
  <2>1. PICK v : v = [u EXCEPT !.flag = TRUE]
    OBVIOUS
  <2>2. v \in Bucks /\ v.id = u.id /\ v.pos = u.pos /\ v.flag = TRUE
    BY <2>1 DEF Bucks
  <2>3. Flagged(q, f) = [q EXCEPT !.heavy = [q.heavy EXCEPT ![b] = v]]
    BY <1>1, <1>3, <1>6, <2>1 DEF Flagged
  <2>4. [q.heavy EXCEPT ![b] = v] = [s.heavy EXCEPT ![b] = v]
    <3>1. s.heavy \in [Buckets -> Bucks]
      BY DEF Regular, ElasticState, HeavyPart
    <3> QED
      BY <1>3, <3>1
  <2>5. Flagged(q, f) = Placed(s, b, v, m)
    BY <1>3, <2>3, <2>4 DEF Placed
  <2> QED
    BY <1>1, <1>2, <1>4, <1>6, <2>2, <2>5
<1> QED
  BY <1>5, <1>6

LEMMA InsertManyLands ==
  ASSUME NEW p, Merged(p), NEW f \in Keys, NEW n \in Nat, n >= 1
  PROVE  \E u \in Bucks : \E m :
           /\ InsertMany(p, f, n) = Placed(p, BucketOf[f], u, m)
           /\ Lands(p, f, n, FALSE, u, m)
<1>1. PICK B, b : B \in Buckets /\ B = BucketOf[f] /\ b = Seat(p, f) /\ b = p.heavy[B]
  BY ElasticFacts DEF Seat
<1>2. /\ Regular(p)
      /\ IF b.id = NoFlow THEN ~ b.flag ELSE b.pos >= 1
  BY <1>1 DEF Merged
<1>3. /\ b \in Bucks /\ b.pos \in Nat /\ b.flag \in BOOLEAN /\ b.neg \in Int /\ f # NoFlow
      /\ (b.id = NoFlow => b.pos = 0)
  <2>1. /\ Seat(p, f) \in Bucks /\ Fit(Seat(p, f)) /\ Seat(p, f).pos \in Nat
        /\ Seat(p, f).flag \in BOOLEAN /\ Seat(p, f).neg \in Int /\ f # NoFlow
    BY <1>2, SeatFacts
  <2> QED
    BY <1>1, <2>1 DEF Fit
<1>4. p = [heavy |-> p.heavy, light |-> p.light]
  BY <1>2 DEF Regular, ElasticState
<1>5. \A u : [p EXCEPT !.heavy = [p.heavy EXCEPT ![B] = u]] = Placed(p, B, u, p.light)
  BY <1>4 DEF Placed
<1>6. CASE b.id = NoFlow
  <2>1. PICK u : u = Bucket(f, n, 0, b.flag)
    OBVIOUS
  <2>2. u \in Bucks /\ u.id = f /\ u.pos = n /\ (u.flag <=> FALSE)
    BY <1>2, <1>3, <1>6, <2>1 DEF Bucket, Bucks
  <2>3. InsertMany(p, f, n) = Placed(p, B, u, p.light)
    <3>1. b.pos = 0
      BY <1>3, <1>6
    <3>2. InsertMany(p, f, n) = [p EXCEPT !.heavy = [p.heavy EXCEPT ![B] = u]]
      BY <1>1, <2>1, <3>1 DEF InsertMany
    <3> QED
      BY <1>5, <3>2
  <2>4. Lands(p, f, n, FALSE, u, p.light)
    BY <1>1, <1>6, <2>2 DEF Lands
  <2> QED
    BY <1>1, <2>2, <2>3, <2>4
<1>7. CASE b.id = f
  <2>1. PICK u : u = [b EXCEPT !.pos = @ + n]
    OBVIOUS
  <2>2. u \in Bucks /\ u.id = f /\ u.pos = b.pos + n /\ u.flag = b.flag
    BY <1>3, <1>7, <2>1 DEF Bucks
  <2>3. InsertMany(p, f, n) = Placed(p, B, u, p.light)
    <3>1. b.pos # 0
      BY <1>2, <1>3, <1>7
    <3>2. InsertMany(p, f, n) = [p EXCEPT !.heavy = [p.heavy EXCEPT ![B] = u]]
      BY <1>1, <1>7, <2>1, <3>1 DEF InsertMany
    <3> QED
      BY <1>5, <3>2
  <2>4. Lands(p, f, n, FALSE, u, p.light)
    BY <1>1, <1>7, <2>2 DEF Lands
  <2> QED
    BY <1>1, <2>2, <2>3, <2>4
<1>8. CASE b.id # NoFlow /\ b.id # f /\ Withstands(Opposed(b, n))
  <2>1. PICK u : u = Opposed(b, n)
    OBVIOUS
  <2>2. u \in Bucks /\ u.id = b.id /\ u.pos = b.pos /\ u.flag = b.flag
    BY <1>3, <2>1 DEF Opposed, Bucks
  <2>3. PICK m : m = LightAdded(p.light, f, n)
    OBVIOUS
  <2>4. InsertMany(p, f, n) = Placed(p, B, u, m)
    <3>1. b.pos # 0
      BY <1>2, <1>3, <1>8
    <3> QED
      BY <1>1, <1>8, <2>1, <2>3, <3>1 DEF InsertMany, Placed
  <2>5. Lands(p, f, n, FALSE, u, m)
    BY <1>1, <1>8, <2>2, <2>3 DEF Lands
  <2> QED
    BY <1>1, <2>2, <2>4, <2>5
<1>9. CASE b.id # NoFlow /\ b.id # f /\ ~ Withstands(Opposed(b, n))
  <2>1. PICK u : u = Bucket(f, n, n, TRUE)
    OBVIOUS
  <2>2. u \in Bucks /\ u.id = f /\ u.pos = n /\ u.flag = TRUE
    BY <2>1 DEF Bucket, Bucks
  <2>3. PICK m : m = LightAdded(p.light, b.id, b.pos)
    OBVIOUS
  <2>4. InsertMany(p, f, n) = Placed(p, B, u, m)
    <3>1. b.pos # 0
      BY <1>2, <1>3, <1>9
    <3> QED
      BY <1>1, <1>9, <2>1, <2>3, <3>1 DEF InsertMany, Placed
  <2>5. Lands(p, f, n, FALSE, u, m)
    BY <1>1, <1>9, <2>2, <2>3 DEF Lands
  <2> QED
    BY <1>1, <2>2, <2>4, <2>5
<1> QED
  BY <1>6, <1>7, <1>8, <1>9

LEMMA LandsSeemly ==
  ASSUME NEW p, Merged(p), NEW f \in Keys, NEW n \in Nat, n >= 1, NEW flag \in BOOLEAN,
         NEW u \in Bucks, NEW m, Lands(p, f, n, flag, u, m)
  PROVE  /\ Seemly(BucketOf[f], u) /\ u.id # NoFlow /\ u.pos >= 1
         /\ Lit(m) /\ \A c \in LightCells : p.light[c] <= m[c]
<1>1. PICK b : b = Seat(p, f)
  OBVIOUS
<1>2. /\ b.id \in Keys \cup {NoFlow} /\ b.pos \in Nat /\ f # NoFlow
      /\ b.id # NoFlow => b.pos >= 1 /\ BucketOf[b.id] = BucketOf[f]
  <2>1. Regular(p) /\ BucketOf[f] \in Buckets
    BY ElasticFacts DEF Merged
  <2>2. Seat(p, f).id # NoFlow => Seat(p, f).pos >= 1
    BY <2>1 DEF Merged, Seat
  <2> QED
    BY <1>1, <2>1, <2>2, SeatFacts
<1>3. Lit(p.light)
  BY DEF Merged, Regular, ElasticState, Lit
<1>4. Lit(m) /\ \A c \in LightCells : p.light[c] <= m[c]
  <2>1. CASE m = p.light
    <3>1. \A c \in LightCells : p.light[c] \in Int
      BY <1>3 DEF Lit, LightPart
    <3>2. \A c \in LightCells : p.light[c] <= p.light[c]
      BY <3>1
    <3> QED
      BY <1>3, <2>1, <3>2
  <2>2. ASSUME NEW g \in Keys, NEW i \in Nat, m = LightAdded(p.light, g, i)
        PROVE  Lit(m) /\ \A c \in LightCells : p.light[c] <= m[c]
    <3>1. /\ Lit(LightAdded(p.light, g, i))
          /\ \A c \in LightCells :
               /\ p.light[c] \in Nat
               /\ LightAdded(p.light, g, i)[c] = p.light[c] + (IF c \in LightOf[g] THEN i ELSE 0)
      BY <1>3, LightAddedLit
    <3>2. \A c \in LightCells : p.light[c] <= LightAdded(p.light, g, i)[c]
      BY <3>1
    <3> QED
      BY <2>2, <3>1, <3>2
  <2> QED
    BY <1>1, <1>2, <2>1, <2>2 DEF Lands
<1>5. u.id # NoFlow /\ u.pos >= 1 /\ u.pos \in Int /\ BucketOf[u.id] = BucketOf[f]
  BY <1>1, <1>2 DEF Lands, Bucks
<1> QED
  BY <1>4, <1>5 DEF Seemly, Fit

LEMMA MergeHeavyLands ==
  ASSUME NEW p, Merged(p), NEW f \in Keys, NEW n \in Nat, n >= 1, NEW flag \in BOOLEAN
  PROVE  \E u \in Bucks : \E m :
           /\ MergeHeavy(p, f, n, flag) = Placed(p, BucketOf[f], u, m)
           /\ Lands(p, f, n, flag, u, m)
<1>1. PICK u, m : /\ u \in Bucks
                  /\ InsertMany(p, f, n) = Placed(p, BucketOf[f], u, m)
                  /\ Lands(p, f, n, FALSE, u, m)
  BY InsertManyLands
<1>2. CASE flag = FALSE
  BY <1>1, <1>2 DEF MergeHeavy
<1>3. CASE flag = TRUE
  <2>1. Seemly(BucketOf[f], u) /\ Lit(m) /\ u.pos >= 1 /\ u.pos \in Int
    BY <1>1, LandsSeemly DEF Bucks
  <2>2. Regular(p)
    BY DEF Merged
  <2>3. PICK v \in Bucks :
           /\ Flagged(Placed(p, BucketOf[f], u, m), f) = Placed(p, BucketOf[f], v, m)
           /\ v.id = u.id /\ v.pos = u.pos
           /\ v.flag <=> u.flag \/ (u.id = f /\ u.pos # 0)
    BY <1>1, <2>1, <2>2, FlaggedPlaced
  <2>4. MergeHeavy(p, f, n, flag) = Placed(p, BucketOf[f], v, m)
    BY <1>1, <1>3, <2>3 DEF MergeHeavy
  <2>5. v.flag <=> u.flag \/ u.id = f
    BY <2>1, <2>3
  <2>6. Lands(p, f, n, flag, v, m)
    BY <1>1, <1>3, <2>3, <2>5 DEF Lands
  <2> QED
    BY <2>4, <2>6
<1> QED
  BY <1>2, <1>3

\* What a delta does, in the parent, for a flow k: what it carries of k
\* arrives, only a plain part seats k unmarked, and what parts with k marks it.
Takes(p, d, q, k) ==
  /\ \A c \in LightOf[k] :
       PosOf(p, k) + p.light[c] + (IF d \in KeyWay(k, c) THEN d.value ELSE 0)
       <= PosOf(q, k) + q.light[c]
  /\ Unmarked(q, k) => d \notin Parting(k) /\ (Unmarked(p, k) \/ (Vacant(p, k) /\ d \in Plain(k)))
  /\ Vacant(q, k) => Vacant(p, k) /\ d \notin Plain(k)
  /\ Unmarked(q, k) \/ Vacant(q, k) =>
       PosOf(p, k) + (IF d \in Plain(k) THEN d.value ELSE 0) <= PosOf(q, k)

LEMMA HeavyTakes ==
  ASSUME NEW p, Merged(p), NEW f \in Keys, NEW n \in Nat, n >= 1, NEW flag \in BOOLEAN,
         NEW d, d = Heavy(f, n, flag), NEW q, q = MergeHeavy(p, f, n, flag)
  PROVE  Merged(q) /\ \A k \in Keys : Takes(p, d, q, k)
<1>1. PICK u, m : /\ u \in Bucks
                  /\ q = Placed(p, BucketOf[f], u, m)
                  /\ Lands(p, f, n, flag, u, m)
  BY MergeHeavyLands
<1>2. /\ Seemly(BucketOf[f], u) /\ u.id # NoFlow /\ u.pos >= 1
      /\ Lit(m) /\ \A c \in LightCells : p.light[c] <= m[c]
  BY <1>1, LandsSeemly
<1>3. PICK B \in Buckets : B = BucketOf[f]
  BY ElasticFacts
<1>4. Regular(p)
  BY DEF Merged
<1>5. /\ Regular(q) /\ q.light = m /\ q.heavy[B] = u
      /\ \A x \in Buckets : x # B => q.heavy[x] = p.heavy[x]
      /\ \A k \in Keys : Seat(q, k) = IF BucketOf[k] = B THEN u ELSE Seat(p, k)
  BY <1>1, <1>2, <1>3, <1>4, PlacedRegular
<1>6. Merged(q)
  BY <1>2, <1>5 DEF Merged
<1>7. /\ d.value = n
      /\ \A k : /\ d \in Plain(k) <=> k = f /\ ~ flag
                /\ d \in Parting(k) <=> k = f /\ flag
                /\ \A c : d \in KeyWay(k, c) <=> k = f
  <2>1. n \in Int
    OBVIOUS
  <2>2. TellsHeavy(Heavy(f, n, flag), f, n, flag)
    BY <2>1, HeavyWays
  <2> QED
    BY <2>2 DEF TellsHeavy
<1>8. ASSUME NEW k \in Keys, BucketOf[k] # B
      PROVE  Takes(p, d, q, k)
  <2>1. k # f /\ Seat(q, k) = Seat(p, k) /\ PosOf(p, k) \in Nat
    BY <1>3, <1>4, <1>5, <1>8, SeatFacts
  <2>2. PosOf(q, k) = PosOf(p, k) /\ (Unmarked(q, k) <=> Unmarked(p, k))
        /\ (Vacant(q, k) <=> Vacant(p, k))
    BY <2>1 DEF PosOf, Unmarked, Vacant
  <2>3. \A c \in LightOf[k] : p.light[c] <= q.light[c] /\ p.light[c] \in Int /\ q.light[c] \in Int
    BY <1>2, <1>4, <1>5, LightFacts
  <2>4. \A c \in LightOf[k] : PosOf(p, k) + p.light[c] + 0 <= PosOf(q, k) + q.light[c]
    <3> SUFFICES ASSUME NEW c \in LightOf[k]
                 PROVE  PosOf(p, k) + p.light[c] + 0 <= PosOf(q, k) + q.light[c]
      OBVIOUS
    <3>1. PICK i \in Nat, x \in Int, y \in Int :
            i = PosOf(p, k) /\ i = PosOf(q, k) /\ x = p.light[c] /\ y = q.light[c] /\ x <= y
      BY <2>1, <2>2, <2>3
    <3>2. i + x + 0 <= i + y
      BY <3>1
    <3> QED
      BY <3>1, <3>2
  <2>5. d \notin Plain(k) /\ d \notin Parting(k) /\ \A c : d \notin KeyWay(k, c)
    BY <1>7, <2>1
  <2>6. PosOf(p, k) + 0 <= PosOf(q, k)
    BY <2>1, <2>2
  <2> QED
    BY <2>2, <2>4, <2>5, <2>6 DEF Takes
<1>9. ASSUME NEW k \in Keys, BucketOf[k] = B
      PROVE  Takes(p, d, q, k)
  <2>1. PICK b : b = Seat(p, f)
    OBVIOUS
  <2>2. b = Seat(p, k) /\ u = Seat(q, k)
    BY <1>3, <1>5, <1>9, <2>1 DEF Seat
  <2>3. /\ b.id \in Keys \cup {NoFlow} /\ b.pos \in Nat /\ u.pos \in Nat
        /\ k # NoFlow /\ f # NoFlow /\ PosOf(p, k) \in Nat /\ PosOf(q, k) \in Nat
    BY <1>4, <1>5, <2>1, <2>2, SeatFacts
  <2>4. /\ PosOf(p, k) = IF b.id = k THEN b.pos ELSE 0
        /\ PosOf(q, k) = IF u.id = k THEN u.pos ELSE 0
        /\ Unmarked(p, k) <=> b.id = k /\ ~ b.flag
        /\ Unmarked(q, k) <=> u.id = k /\ ~ u.flag
        /\ Vacant(p, k) <=> b.id = NoFlow
        /\ ~ Vacant(q, k)
    BY <1>2, <2>2 DEF PosOf, Unmarked, Vacant
  <2>5. \A c \in LightOf[k] : p.light[c] \in Nat /\ m[c] \in Nat
    BY <1>4, <1>5, LightFacts
  <2>6. ASSUME NEW c \in LightOf[k]
        PROVE  PosOf(p, k) + p.light[c] + (IF k = f THEN n ELSE 0) <= PosOf(q, k) + m[c]
    <3>1. Lit(p.light) /\ c \in LightCells
      BY <1>4, ElasticFacts DEF Regular, ElasticState, Lit
    <3>2. PICK x \in Nat, y \in Nat, i \in Nat, j \in Nat, v \in Nat, w \in Nat :
            /\ x = p.light[c] /\ y = m[c] /\ v = b.pos /\ w = u.pos
            /\ i = PosOf(p, k) /\ j = PosOf(q, k)
      BY <2>3, <2>5
    <3>0. SUFFICES i + x + (IF k = f THEN n ELSE 0) <= j + y
      BY <3>2
    <3>6. i = (IF b.id = k THEN v ELSE 0) /\ j = (IF u.id = k THEN w ELSE 0)
      BY <2>4, <3>2
    <3>3. CASE b.id = NoFlow \/ b.id = f
      <4>1. y = x /\ u.id = f /\ w = (IF b.id = f THEN v + n ELSE n)
        BY <1>1, <2>1, <2>3, <3>2, <3>3 DEF Lands
      <4> QED
        BY <2>3, <3>6, <3>3, <4>1
    <3>4. CASE b.id # NoFlow /\ b.id # f /\ u.id = b.id
      <4>1. u.pos = b.pos /\ m = LightAdded(p.light, f, n)
        BY <1>1, <2>1, <3>4 DEF Lands
      <4>2. y = x + (IF c \in LightOf[f] THEN n ELSE 0)
        <5>1. LightAdded(p.light, f, n)[c] = p.light[c] + (IF c \in LightOf[f] THEN n ELSE 0)
          BY <3>1, LightAddedAt
        <5> QED
          BY <3>2, <4>1, <5>1
      <4> QED
        BY <2>3, <3>2, <3>4, <3>6, <4>1, <4>2
    <3>5. CASE b.id # NoFlow /\ b.id # f /\ u.id = f
      <4>1. u.pos = n /\ m = LightAdded(p.light, b.id, b.pos)
        BY <1>1, <2>1, <3>5 DEF Lands
      <4>2. y = x + (IF c \in LightOf[b.id] THEN b.pos ELSE 0)
        <5>1. b.id \in Keys
          BY <2>3, <3>5
        <5>2. LightAdded(p.light, b.id, b.pos)[c]
              = p.light[c] + (IF c \in LightOf[b.id] THEN b.pos ELSE 0)
          BY <2>3, <3>1, <5>1, LightAddedAt
        <5> QED
          BY <3>2, <4>1, <5>2
      <4> QED
        BY <2>3, <3>2, <3>5, <3>6, <4>1, <4>2
    <3> QED
      BY <1>1, <2>1, <3>3, <3>4, <3>5 DEF Lands
  <2>7. Unmarked(q, k) => ~ (k = f /\ flag) /\ (Unmarked(p, k) \/ (Vacant(p, k) /\ k = f /\ ~ flag))
    BY <1>1, <2>1, <2>3, <2>4 DEF Lands
  <2>8. Unmarked(q, k) => PosOf(p, k) + (IF k = f /\ ~ flag THEN n ELSE 0) <= PosOf(q, k)
    BY <1>1, <2>1, <2>3, <2>4 DEF Lands
  <2> QED
    BY <1>5, <1>7, <2>4, <2>6, <2>7, <2>8 DEF Takes
<1> QED
  BY <1>6, <1>8, <1>9

LEMMA EvictedTakes ==
  ASSUME NEW p, Merged(p), NEW f \in Keys, NEW n \in Nat,
         NEW d, d = Evicted(f, n), NEW q, q = AbsorbEvicted(p, f, n)
  PROVE  Merged(q) /\ \A k \in Keys : Takes(p, d, q, k)
<1>1. PICK B, b, l, m : /\ B \in Buckets
                        /\ B = BucketOf[f] /\ b = Seat(p, f) /\ b = p.heavy[B]
                        /\ l = p.light /\ m = LightAdded(l, f, n)
  BY ElasticFacts DEF Seat
<1>2. Regular(p) /\ (IF b.id = NoFlow THEN ~ b.flag ELSE b.pos >= 1)
  BY <1>1 DEF Merged
<1>3. /\ b \in Bucks /\ b.pos \in Nat /\ b.flag \in BOOLEAN /\ f # NoFlow
      /\ Seemly(B, b)
  <2>1. /\ Seat(p, f) \in Bucks /\ Fit(Seat(p, f)) /\ Seat(p, f).pos \in Nat
        /\ Seat(p, f).flag \in BOOLEAN /\ f # NoFlow
        /\ Seat(p, f).id # NoFlow => BucketOf[Seat(p, f).id] = BucketOf[f]
    BY <1>2, SeatFacts
  <2>2. b.pos \in Nat => b.pos >= 0
    OBVIOUS
  <2> QED
    BY <1>1, <2>1, <2>2 DEF Seemly
<1>4. Lit(l)
  BY <1>1, <1>2 DEF Regular, ElasticState, Lit
<1>5. Lit(m)
  BY <1>1, <1>4, LightAddedLit
<1>6. \A c \in LightCells : /\ l[c] \in Nat /\ m[c] \in Nat
                            /\ m[c] = l[c] + (IF c \in LightOf[f] THEN n ELSE 0)
  <2> SUFFICES ASSUME NEW c \in LightCells
               PROVE  /\ l[c] \in Nat /\ m[c] \in Nat
                      /\ m[c] = l[c] + (IF c \in LightOf[f] THEN n ELSE 0)
    OBVIOUS
  <2>1. l[c] \in Nat
    BY <1>4, LightAddedLit
  <2>2. m[c] = l[c] + (IF c \in LightOf[f] THEN n ELSE 0)
    BY <1>1, <1>4, LightAddedAt
  <2> QED
    BY <2>1, <2>2
<1>7. [p EXCEPT !.light = m] = Placed(p, B, b, m)
  <2>1. p = [heavy |-> p.heavy, light |-> p.light]
    BY <1>2 DEF Regular, ElasticState
  <2>2. [p.heavy EXCEPT ![B] = b] = p.heavy
    BY <1>1, <1>2 DEF Regular, ElasticState, HeavyPart
  <2> QED
    BY <2>1, <2>2 DEF Placed
<1>8. q = Flagged(Placed(p, BucketOf[f], b, m), f)
  <2>1. q = Flagged([p EXCEPT !.light = m], f)
    BY <1>1 DEF AbsorbEvicted
  <2> QED
    BY <1>1, <1>7, <2>1
<1>9. PICK v \in Bucks : /\ q = Placed(p, B, v, m) /\ v.id = b.id /\ v.pos = b.pos
                         /\ (v.flag <=> b.flag \/ (b.id = f /\ b.pos # 0))
  <2>1. \E v \in Bucks :
           /\ Flagged(Placed(p, BucketOf[f], b, m), f) = Placed(p, BucketOf[f], v, m)
           /\ v.id = b.id /\ v.pos = b.pos
           /\ v.flag <=> b.flag \/ (b.id = f /\ b.pos # 0)
    BY <1>1, <1>2, <1>3, <1>5, FlaggedPlaced
  <2> QED
    BY <1>1, <1>8, <2>1
<1>10. Seemly(B, v)
  BY <1>3, <1>9 DEF Seemly, Fit
<1>11. /\ Regular(q) /\ q.light = m /\ q.heavy[B] = v
       /\ \A x \in Buckets : x # B => q.heavy[x] = p.heavy[x]
       /\ \A k \in Keys : Seat(q, k) = IF BucketOf[k] = B THEN v ELSE Seat(p, k)
  BY <1>1, <1>2, <1>5, <1>9, <1>10, PlacedRegular
<1>12. Merged(q)
  <2>1. IF v.id = NoFlow THEN ~ v.flag ELSE v.pos >= 1
    BY <1>2, <1>3, <1>9
  <2> QED
    BY <1>11, <2>1 DEF Merged
<1>13. TellsEvicted(d, f, n)
  <2>1. n \in Int
    OBVIOUS
  <2> QED
    BY <2>1, EvictedWays
<1>14. ASSUME NEW k \in Keys
       PROVE  Takes(p, d, q, k)
  <2>1. /\ d.value = n /\ d \notin Plain(k) /\ (d \in Parting(k) <=> k = f)
        /\ \A c : d \in KeyWay(k, c) <=> k = f
    BY <1>13 DEF TellsEvicted
  <2>2. /\ Seat(q, k).id = Seat(p, k).id /\ Seat(q, k).pos = Seat(p, k).pos
        /\ Unmarked(q, k) => Unmarked(p, k) /\ k # f
    <3>1. CASE BucketOf[k] # B
      BY <1>1, <1>11, <3>1 DEF Unmarked
    <3>2. CASE BucketOf[k] = B
      <4>1. Seat(q, k) = v /\ Seat(p, k) = b
        BY <1>1, <1>11, <3>2 DEF Seat
      <4> QED
        BY <1>2, <1>3, <1>9, <4>1 DEF Unmarked
    <3> QED
      BY <3>1, <3>2
  <2>3. /\ PosOf(q, k) = PosOf(p, k) /\ PosOf(p, k) \in Nat
        /\ Vacant(q, k) => Vacant(p, k)
    BY <1>2, <2>2, SeatFacts DEF PosOf, Vacant
  <2>4. \A c \in LightOf[k] :
          PosOf(p, k) + p.light[c] + (IF k = f THEN n ELSE 0) <= PosOf(q, k) + q.light[c]
    <3> SUFFICES ASSUME NEW c \in LightOf[k]
                 PROVE  PosOf(p, k) + p.light[c] + (IF k = f THEN n ELSE 0)
                        <= PosOf(q, k) + q.light[c]
      OBVIOUS
    <3>1. c \in LightCells
      BY ElasticFacts
    <3>2. PICK i \in Nat, x \in Nat, y \in Nat :
            /\ i = PosOf(p, k) /\ i = PosOf(q, k) /\ x = p.light[c] /\ y = q.light[c]
            /\ y = x + (IF c \in LightOf[f] THEN n ELSE 0)
      BY <1>1, <1>6, <1>11, <2>3, <3>1
    <3>3. i + x + (IF k = f THEN n ELSE 0) <= i + y
      BY <3>2
    <3> QED
      BY <3>2, <3>3
  <2>5. PosOf(p, k) + 0 <= PosOf(q, k)
    BY <2>3
  <2> QED
    BY <2>1, <2>2, <2>3, <2>4, <2>5 DEF Takes
<1> QED
  BY <1>12, <1>14

LEMMA LightTakes ==
  ASSUME NEW p, Merged(p), NEW x \in LightCells, NEW n \in Nat,
         NEW d, d = LightOne(x, n), NEW q, q = [p EXCEPT !.light = AddTo(@, d)]
  PROVE  Merged(q) /\ \A k \in Keys : Takes(p, d, q, k)
<1>1. PICK l, m : l = p.light /\ m = [l EXCEPT ![x] = @ + n]
  OBVIOUS
<1>2. Regular(p) /\ p = [heavy |-> p.heavy, light |-> l]
  BY <1>1 DEF Merged, Regular, ElasticState
<1>3. Lit(l)
  BY <1>1, <1>2 DEF Regular, ElasticState, Lit
<1>4. l \in [LightCells -> Int] /\ \A c \in LightCells : l[c] \in Nat
  BY <1>3 DEF Lit, LightPart
<1>5. \A c \in LightCells : m[c] \in Nat /\ m[c] = l[c] + (IF x = c THEN n ELSE 0)
  BY <1>1, <1>4
<1>6. Lit(m)
  <2>1. m \in [LightCells -> Int]
    BY <1>1, <1>4
  <2> QED
    BY <1>5, <2>1 DEF Lit, LightPart
<1>7. q = [heavy |-> p.heavy, light |-> m]
  <2>1. AddTo(l, d) = m
    BY <1>1 DEF AddTo, LightOne
  <2> QED
    BY <1>1, <1>2, <2>1
<1>8. q.heavy = p.heavy /\ q.light = m
  BY <1>7
<1>9. Merged(q)
  BY <1>2, <1>6, <1>7, <1>8 DEF Merged, Regular, Lit, ElasticState
<1>10. TellsLight(d, x, n)
  <2>1. n \in Int
    OBVIOUS
  <2> QED
    BY <2>1, LightWays
<1>11. ASSUME NEW k \in Keys
       PROVE  Takes(p, d, q, k)
  <2>1. /\ d.value = n /\ d \notin Plain(k) /\ d \notin Parting(k)
        /\ \A c : d \in KeyWay(k, c) <=> x = c
    BY <1>10 DEF TellsLight
  <2>2. Seat(q, k) = Seat(p, k)
    BY <1>8 DEF Seat
  <2>3. /\ PosOf(q, k) = PosOf(p, k) /\ PosOf(p, k) \in Nat
        /\ (Vacant(q, k) <=> Vacant(p, k)) /\ (Unmarked(q, k) <=> Unmarked(p, k))
    BY <1>2, <2>2, SeatFacts DEF PosOf, Vacant, Unmarked
  <2>4. \A c \in LightOf[k] :
          PosOf(p, k) + p.light[c] + (IF x = c THEN n ELSE 0) <= PosOf(q, k) + q.light[c]
    <3> SUFFICES ASSUME NEW c \in LightOf[k]
                 PROVE  PosOf(p, k) + p.light[c] + (IF x = c THEN n ELSE 0)
                        <= PosOf(q, k) + q.light[c]
      OBVIOUS
    <3>1. c \in LightCells
      BY ElasticFacts
    <3>2. PICK i \in Nat, a \in Nat, y \in Nat :
            /\ i = PosOf(p, k) /\ i = PosOf(q, k) /\ a = p.light[c] /\ y = q.light[c]
            /\ y = a + (IF x = c THEN n ELSE 0)
      BY <1>1, <1>4, <1>5, <1>8, <2>3, <3>1
    <3>3. i + a + (IF x = c THEN n ELSE 0) <= i + y
      BY <3>2
    <3> QED
      BY <3>2, <3>3
  <2>5. PosOf(p, k) + 0 <= PosOf(q, k)
    BY <2>3
  <2> QED
    BY <2>1, <2>3, <2>4, <2>5 DEF Takes
<1> QED
  BY <1>9, <1>11

LEMMA AppliedTakes ==
  ASSUME NEW p, Merged(p), NEW d, Proper(d)
  PROVE  /\ Merged(ElasticApplied(p, d))
         /\ \A k \in Keys : Takes(p, d, ElasticApplied(p, d), k)
<1>1. d \in ElasticDeltas /\ d.value >= 0 /\ (d.kind = "heavy" => d.value >= 1)
  BY DEF Proper
<1>2. PICK q : q = ElasticApplied(p, d)
  OBVIOUS
<1>3. ASSUME NEW f \in Keys, NEW n \in Int, NEW flag \in BOOLEAN, d = Heavy(f, n, flag)
      PROVE  Merged(q) /\ \A k \in Keys : Takes(p, d, q, k)
  <2>1. d.kind = "heavy" /\ d.key = f /\ d.value = n /\ d.flag = flag
    BY <1>3 DEF Heavy
  <2>2. n \in Nat /\ n >= 1
    BY <1>1, <2>1
  <2>3. q = MergeHeavy(p, f, n, flag)
    BY <1>2, <2>1 DEF ElasticApplied
  <2> QED
    BY <1>3, <2>2, <2>3, HeavyTakes
<1>4. ASSUME NEW f \in Keys, NEW n \in Int, d = Evicted(f, n)
      PROVE  Merged(q) /\ \A k \in Keys : Takes(p, d, q, k)
  <2>1. d.kind = "evicted" /\ d.key = f /\ d.value = n
    BY <1>4 DEF Evicted
  <2>2. n \in Nat
    BY <1>1, <2>1
  <2>3. q = AbsorbEvicted(p, f, n)
    BY <1>2, <2>1 DEF ElasticApplied
  <2> QED
    BY <1>4, <2>2, <2>3, EvictedTakes
<1>5. ASSUME NEW x \in LightCells, NEW n \in Int, d = LightOne(x, n)
      PROVE  Merged(q) /\ \A k \in Keys : Takes(p, d, q, k)
  <2>1. d.kind = "light" /\ d.value = n
    BY <1>5 DEF LightOne
  <2>2. n \in Nat
    BY <1>1, <2>1
  <2>3. q = [p EXCEPT !.light = AddTo(@, d)]
    BY <1>2, <2>1 DEF ElasticApplied
  <2> QED
    BY <1>5, <2>2, <2>3, LightTakes
<1> QED
  BY <1>1, <1>2, <1>3, <1>4, <1>5, DeltaKinds

LEMMA WayNat ==
  ASSUME NEW q, Fine(q), NEW D
  PROVE  OnWay(q, D) \in Nat
<1>1. PICK T : T = At(q, D)
  OBVIOUS
<1>2. PICK f : f = [i \in T |-> q[i].value]
  OBVIOUS
<1>3. q \in Seq(ElasticDeltas) /\ \A i \in DOMAIN q : Proper(q[i])
  BY DEF Fine
<1>4. IsFiniteSet(T) /\ f \in [T -> Int] /\ OnWay(q, D) \in Int
  BY <1>1, <1>2, <1>3, AtFacts, DeltaValues
<1>5. \A i \in T : f[i] \in Nat
  <2> SUFFICES ASSUME NEW i \in T
               PROVE  f[i] \in Nat
    OBVIOUS
  <2>1. i \in DOMAIN q
    BY <1>1 DEF At
  <2>2. PICK n \in Int : n = f[i]
    BY <1>4
  <2>3. n = q[i].value
    BY <1>2, <2>2
  <2>4. n >= 0
    BY <1>3, <2>1, <2>3 DEF Proper
  <2> QED
    BY <2>2, <2>4
<1>6. f \in [T -> Nat]
  BY <1>4, <1>5
<1>7. SumOf(f) \in Nat
  BY <1>4, <1>6, SumIsNat
<1> QED
  BY <1>1, <1>2, <1>7 DEF OnWay

LEMMA OfNone ==
  Fine(<<>>) /\ \A D : ~ Holds(<<>>, D) /\ OnWay(<<>>, D) = 0
<1>1. <<>> \in Seq(ElasticDeltas) /\ DOMAIN <<>> = {}
  OBVIOUS
<1>2. \A D : OnWay(<<>>, D) = 0
  BY <1>1, DeltaValues, OnWayOfNone
<1> QED
  BY <1>1, <1>2 DEF Fine, Holds

LEMMA OfOne ==
  ASSUME NEW d, Proper(d)
  PROVE  /\ Fine(<<d>>)
         /\ \A D : /\ Holds(<<d>>, D) <=> d \in D
                   /\ OnWay(<<d>>, D) = IF d \in D THEN d.value ELSE 0
<1>1. d \in ElasticDeltas
  BY DEF Proper
<1>2. PICK q : q = <<d>> /\ DOMAIN q = {1} /\ q[1] = d
  <2>1. DOMAIN <<d>> = {1} /\ <<d>>[1] = d
    OBVIOUS
  <2> QED
    BY <2>1
<1>3. q \in Seq(ElasticDeltas)
  <2>1. PICK S : S = ElasticDeltas
    OBVIOUS
  <2>2. <<d>> \in Seq(S)
    BY <1>1, <2>1
  <2> QED
    BY <1>2, <2>1, <2>2
<1>4. \A D : OnWay(<<d>>, D) = IF d \in D THEN d.value ELSE 0
  BY <1>1, DeltaValues, OnWayOfOne
<1>5. Fine(q) /\ \A D : Holds(q, D) <=> d \in D
  BY <1>2, <1>3 DEF Fine, Holds
<1> QED
  BY <1>2, <1>4, <1>5

LEMMA OfBoth ==
  ASSUME NEW q, Fine(q), NEW out, Fine(out)
  PROVE  /\ Fine(q \o out)
         /\ \A D : /\ Holds(q \o out, D) <=> Holds(q, D) \/ Holds(out, D)
                   /\ OnWay(q \o out, D) = OnWay(q, D) + OnWay(out, D)
<1>1. /\ q \in Seq(ElasticDeltas) /\ out \in Seq(ElasticDeltas)
      /\ \A i \in DOMAIN q : Proper(q[i])
      /\ \A i \in DOMAIN out : Proper(out[i])
  BY DEF Fine
<1>2. PICK r : r = q \o out
  OBVIOUS
<1>3. /\ r \in Seq(ElasticDeltas)
      /\ \A n \in DOMAIN r : (\E m \in DOMAIN q : r[n] = q[m]) \/ (\E m \in DOMAIN out : r[n] = out[m])
      /\ \A m \in DOMAIN q : m \in DOMAIN r /\ r[m] = q[m]
      /\ \A m \in DOMAIN out : Len(q) + m \in DOMAIN r /\ r[Len(q) + m] = out[m]
  BY <1>1, <1>2, Appended
<1>4. Fine(r)
  BY <1>1, <1>3 DEF Fine
<1>5. \A D : Holds(r, D) <=> Holds(q, D) \/ Holds(out, D)
  BY <1>3 DEF Holds
<1>6. \A D : OnWay(r, D) = OnWay(q, D) + OnWay(out, D)
  BY <1>1, <1>2, DeltaValues, OnWayAppended
<1> QED
  BY <1>2, <1>4, <1>5, <1>6

(***************************************************************************)
(* What a worker's step says of a flow: g is the flow of the insert, or    *)
(* NoFlow at a flush.                                                      *)
(***************************************************************************)
Came(g, k) == IF k = g THEN 1 ELSE 0

Sends(s, g, t, out, k) ==
  /\ \A c \in LightOf[k] :
       PosOf(s, k) + s.light[c] + Came(g, k)
       <= PosOf(t, k) + t.light[c] + OnWay(out, KeyWay(k, c))
  /\ Unmarked(t, k) =>
       /\ Unmarked(s, k) \/ Vacant(s, k)
       /\ ~ Holds(out, Parting(k))
       /\ PosOf(s, k) + Came(g, k) <= PosOf(t, k) + OnWay(out, Plain(k))
  /\ Holds(out, Plain(k)) => Unmarked(t, k)
  /\ Unmarked(s, k) => Unmarked(t, k) \/ Holds(out, Parting(k))
  /\ Seat(t, k).id = k \/ Holds(out, About(k)) => Seat(s, k).id = k \/ k = g
  /\ Vacant(t, k) => Vacant(s, k) /\ k # g

\* The bucket that is put in the place of b.
Seats(s, g, u) ==
  /\ u \in Bucks /\ u.id = g
  /\ u.pos = PosOf(s, g) + 1
  /\ Unmarked(s, g) => ~ u.flag
  /\ ~ u.flag => Unmarked(s, g) \/ Vacant(s, g)

Sending(s, g, r) ==
  Regular(r.held) /\ Fine(r.out) /\ \A k \in Keys : Sends(s, g, r.held, r.out, k)

LEMMA PromotedSends ==
  ASSUME NEW s, Regular(s), NEW g \in Keys, NEW u, Seats(s, g, u), NEW before,
         before = IF Seat(s, g).id \in Keys \ {g} THEN Farewell(Seat(s, g)) ELSE <<>>,
         NEW lim
  PROVE  Sending(s, g, Promoted(s, g, u, before, lim))
<1>1. PICK B, b, l : B \in Buckets /\ B = BucketOf[g] /\ b = Seat(s, g) /\ l = s.light
  BY ElasticFacts
<1>2. /\ b \in Bucks /\ Fit(b) /\ b.pos \in Nat /\ b.id \in Keys \cup {NoFlow} /\ g # NoFlow
      /\ b.id # NoFlow => BucketOf[b.id] = B
      /\ PosOf(s, g) \in Nat
  BY <1>1, SeatFacts
<1>3. /\ u \in Bucks /\ u.id = g /\ u.pos = PosOf(s, g) + 1 /\ u.flag \in BOOLEAN
      /\ Unmarked(s, g) => ~ u.flag
      /\ ~ u.flag => Unmarked(s, g) \/ Vacant(s, g)
  BY DEF Seats, Bucks
<1>4. u.pos \in Nat /\ u.pos >= 1
  BY <1>2, <1>3
<1>5. PICK due, gone : /\ due \in BOOLEAN /\ gone \in BOOLEAN
                       /\ due <=> u.pos >= lim
                       /\ gone <=> b.id \in Keys \ {g}
  <2>1. (u.pos >= lim) \in BOOLEAN /\ (b.id \in Keys \ {g}) \in BOOLEAN
    OBVIOUS
  <2> QED
    BY <2>1
<1>6. PICK H, E : H = Heavy(g, u.pos, u.flag) /\ E = Evicted(b.id, b.pos)
  OBVIOUS
<1>7. PICK left : left = IF due THEN [u EXCEPT !.pos = 0] ELSE u
  OBVIOUS
<1>8. PICK tail : tail = IF due THEN <<H>> ELSE <<>>
  OBVIOUS
<1>9. PICK r, t, out : /\ r = Promoted(s, g, u, before, lim) /\ t = r.held /\ out = r.out
  OBVIOUS
<1>10. t = [s EXCEPT !.heavy[B] = left] /\ out = before \o tail
  BY <1>1, <1>3, <1>5, <1>6, <1>7, <1>8, <1>9 DEF Promoted
<1>11. t = Placed(s, B, left, l)
  <2>1. s = [heavy |-> s.heavy, light |-> l]
    BY <1>1 DEF Regular, ElasticState
  <2> QED
    BY <1>10, <2>1 DEF Placed
<1>12. /\ left \in Bucks /\ left.id = g /\ left.flag = u.flag /\ left.pos \in Nat
       /\ left.pos + (IF due THEN u.pos ELSE 0) = u.pos
  BY <1>3, <1>4, <1>7 DEF Bucks
<1>13. Seemly(B, left)
  BY <1>1, <1>2, <1>12 DEF Seemly, Fit
<1>14. Lit(l)
  BY <1>1 DEF Regular, ElasticState, Lit
<1>15. /\ Regular(t) /\ t.light = l
       /\ \A k \in Keys : Seat(t, k) = IF BucketOf[k] = B THEN left ELSE Seat(s, k)
  BY <1>1, <1>11, <1>13, <1>14, PlacedRegular
<1>16. TellsHeavy(H, g, u.pos, u.flag) /\ Proper(H)
  <2>1. TellsHeavy(H, g, u.pos, u.flag)
    BY <1>3, <1>4, <1>6, HeavyWays
  <2>2. H \in ElasticDeltas /\ H.value = u.pos
    BY <2>1 DEF TellsHeavy
  <2> QED
    BY <1>4, <2>1, <2>2 DEF Proper
<1>17. gone => TellsEvicted(E, b.id, b.pos) /\ Proper(E)
  <2> SUFFICES ASSUME gone
               PROVE  TellsEvicted(E, b.id, b.pos) /\ Proper(E)
    OBVIOUS
  <2>1. b.id \in Keys /\ b.pos \in Int /\ b.pos >= 0
    BY <1>2, <1>5
  <2>2. TellsEvicted(E, b.id, b.pos)
    BY <1>6, <2>1, EvictedWays
  <2>3. E \in ElasticDeltas /\ E.value = b.pos /\ E.kind = "evicted"
    BY <2>2 DEF TellsEvicted
  <2> QED
    BY <2>1, <2>2, <2>3 DEF Proper
<1>18. /\ Fine(tail)
       /\ \A D : /\ Holds(tail, D) <=> due /\ H \in D
                 /\ OnWay(tail, D) = IF due /\ H \in D THEN u.pos ELSE 0
  <2>1. H.value = u.pos
    BY <1>16 DEF TellsHeavy
  <2>2. CASE due
    BY <1>8, <1>16, <2>1, <2>2, OfOne
  <2>3. CASE ~ due
    BY <1>8, <2>3, OfNone
  <2> QED
    BY <2>2, <2>3
<1>19. /\ Fine(before)
       /\ \A D : /\ Holds(before, D) <=> gone /\ E \in D
                 /\ OnWay(before, D) = IF gone /\ E \in D THEN b.pos ELSE 0
  <2>1. CASE gone
    <3>1. before = <<E>>
      BY <1>1, <1>5, <1>6, <2>1 DEF Farewell
    <3>2. E.value = b.pos
      BY <1>17, <2>1 DEF TellsEvicted
    <3> QED
      BY <1>17, <2>1, <3>1, <3>2, OfOne
  <2>2. CASE ~ gone
    <3>1. before = <<>>
      BY <1>1, <1>5, <2>2
    <3> QED
      BY <2>2, <3>1, OfNone
  <2> QED
    BY <2>1, <2>2
<1>20. /\ Fine(out)
       /\ \A D : /\ Holds(out, D) <=> (gone /\ E \in D) \/ (due /\ H \in D)
                 /\ OnWay(out, D) = (IF gone /\ E \in D THEN b.pos ELSE 0)
                                    + (IF due /\ H \in D THEN u.pos ELSE 0)
  <2>1. /\ Fine(before \o tail)
        /\ \A D : /\ Holds(before \o tail, D) <=> Holds(before, D) \/ Holds(tail, D)
                  /\ OnWay(before \o tail, D) = OnWay(before, D) + OnWay(tail, D)
    BY <1>18, <1>19, OfBoth
  <2> QED
    BY <1>10, <1>18, <1>19, <2>1
<1>21. /\ \A k : /\ H \in About(k) <=> k = g
                 /\ H \in Plain(k) <=> k = g /\ ~ u.flag
                 /\ H \in Parting(k) <=> k = g /\ u.flag
                 /\ \A c : H \in KeyWay(k, c) <=> k = g
       /\ gone => \A k : /\ E \in About(k) <=> k = b.id
                         /\ E \notin Plain(k)
                         /\ E \in Parting(k) <=> k = b.id
                         /\ \A c : E \in KeyWay(k, c) <=> k = b.id
  BY <1>16, <1>17 DEF TellsHeavy, TellsEvicted
<1>22. ASSUME NEW k \in Keys
       PROVE  Sends(s, g, t, out, k)
  <2> DEFINE away == IF gone /\ k = b.id THEN b.pos ELSE 0
             sent == IF due /\ k = g THEN u.pos ELSE 0
  <2>1. \A c : OnWay(out, KeyWay(k, c)) = away + sent
    BY <1>20, <1>21
  <2>2. /\ Holds(out, Parting(k)) <=> (gone /\ k = b.id) \/ (due /\ k = g /\ u.flag)
        /\ Holds(out, Plain(k)) <=> due /\ k = g /\ ~ u.flag
        /\ Holds(out, About(k)) <=> (gone /\ k = b.id) \/ (due /\ k = g)
        /\ OnWay(out, Plain(k)) = IF due /\ k = g /\ ~ u.flag THEN u.pos ELSE 0
    BY <1>4, <1>20, <1>21
  <2>3. \A c \in LightOf[k] : c \in LightCells /\ l[c] \in Nat
    BY <1>1, LightFacts
  <2>4. k # NoFlow /\ PosOf(s, k) \in Nat
    BY SeatFacts
  <2>5. CASE k = g
    <3>1. Seat(t, k) = left /\ ~ (gone /\ k = b.id)
      BY <1>1, <1>5, <1>15, <2>5
    <3>2. PosOf(t, k) = left.pos /\ (Unmarked(t, k) <=> ~ u.flag) /\ ~ Vacant(t, k)
      BY <1>12, <2>4, <2>5, <3>1 DEF PosOf, Unmarked, Vacant
    <3>3. PosOf(s, k) + 1 = left.pos + sent
      BY <1>3, <1>4, <1>12, <2>5
    <3>4. \A c \in LightOf[k] : PosOf(s, k) + s.light[c] + Came(g, k)
                               <= PosOf(t, k) + t.light[c] + OnWay(out, KeyWay(k, c))
      <4> SUFFICES ASSUME NEW c \in LightOf[k]
                   PROVE  PosOf(s, k) + s.light[c] + Came(g, k)
                          <= PosOf(t, k) + t.light[c] + OnWay(out, KeyWay(k, c))
        OBVIOUS
      <4>1. PICK i \in Nat, x \in Nat, j \in Nat, y \in Nat :
              i = PosOf(s, k) /\ x = l[c] /\ j = left.pos /\ y = sent
        BY <1>4, <1>12, <2>3, <2>4
      <4>2. away = 0 /\ Came(g, k) = 1
        BY <2>5, <3>1 DEF Came
      <4>3. i + x + 1 <= j + x + y
        BY <3>3, <4>1
      <4>4. PICK z : z = OnWay(out, KeyWay(k, c))
        OBVIOUS
      <4>5. z = y
        BY <2>1, <4>1, <4>2, <4>4
      <4>6. s.light[c] = x /\ t.light[c] = x /\ PosOf(t, k) = j
        BY <1>1, <1>15, <3>2, <4>1
      <4> QED
        BY <4>1, <4>2, <4>3, <4>4, <4>5, <4>6
    <3>5. Unmarked(t, k) => /\ ~ Holds(out, Parting(k))
                            /\ PosOf(s, k) + Came(g, k) <= PosOf(t, k) + OnWay(out, Plain(k))
      <4>1. Came(g, k) = 1
        BY <2>5 DEF Came
      <4> QED
        BY <1>12, <2>2, <2>4, <2>5, <3>1, <3>2, <3>3, <4>1
    <3> QED
      BY <1>3, <2>2, <2>5, <3>1, <3>2, <3>4, <3>5 DEF Sends
  <2>6. CASE k # g /\ BucketOf[k] = B
    <3>1. Seat(t, k) = left /\ Seat(s, k) = b /\ left.id # k
      BY <1>1, <1>12, <1>15, <2>6 DEF Seat
    <3>2. PosOf(t, k) = 0 /\ ~ Unmarked(t, k) /\ ~ Vacant(t, k)
      BY <1>2, <1>12, <3>1 DEF PosOf, Unmarked, Vacant
    <3>3. PosOf(s, k) = away /\ (b.id = k => gone)
      BY <1>5, <2>6, <3>1 DEF PosOf
    <3>4. \A c \in LightOf[k] : PosOf(s, k) + s.light[c] + Came(g, k)
                               <= PosOf(t, k) + t.light[c] + OnWay(out, KeyWay(k, c))
      <4> SUFFICES ASSUME NEW c \in LightOf[k]
                   PROVE  PosOf(s, k) + s.light[c] + Came(g, k)
                          <= PosOf(t, k) + t.light[c] + OnWay(out, KeyWay(k, c))
        OBVIOUS
      <4>1. PICK i \in Nat, x \in Nat : i = PosOf(s, k) /\ i = away /\ x = l[c]
        BY <2>3, <2>4, <3>3
      <4>2. sent = 0 /\ Came(g, k) = 0
        BY <2>6 DEF Came
      <4>3. i + x + 0 <= 0 + x + (i + 0)
        OBVIOUS
      <4> QED
        BY <1>1, <1>15, <2>1, <3>2, <4>1, <4>2, <4>3
    <3>5. Unmarked(s, k) => Holds(out, Parting(k))
      BY <2>2, <3>1, <3>3 DEF Unmarked
    <3>6. Holds(out, About(k)) => Seat(s, k).id = k
      BY <2>2, <2>6, <3>1
    <3> QED
      BY <2>2, <2>6, <3>1, <3>2, <3>4, <3>5, <3>6 DEF Sends
  <2>7. CASE BucketOf[k] # B
    <3>1. Seat(t, k) = Seat(s, k) /\ k # g /\ ~ (gone /\ k = b.id)
      BY <1>1, <1>2, <1>5, <1>15, <2>7, <2>4
    <3>2. /\ PosOf(t, k) = PosOf(s, k)
          /\ (Unmarked(t, k) <=> Unmarked(s, k)) /\ (Vacant(t, k) <=> Vacant(s, k))
      BY <3>1 DEF PosOf, Unmarked, Vacant
    <3>3. Came(g, k) = 0 /\ away = 0 /\ sent = 0
      BY <3>1 DEF Came
    <3>4. \A c \in LightOf[k] : PosOf(s, k) + s.light[c] + Came(g, k)
                               <= PosOf(t, k) + t.light[c] + OnWay(out, KeyWay(k, c))
      <4> SUFFICES ASSUME NEW c \in LightOf[k]
                   PROVE  PosOf(s, k) + s.light[c] + Came(g, k)
                          <= PosOf(t, k) + t.light[c] + OnWay(out, KeyWay(k, c))
        OBVIOUS
      <4>1. PICK i \in Nat, x \in Nat : i = PosOf(s, k) /\ x = l[c]
        BY <2>3, <2>4
      <4>2. i + x + 0 <= i + x + (0 + 0)
        OBVIOUS
      <4> QED
        BY <1>1, <1>15, <2>1, <3>2, <3>3, <4>1, <4>2
    <3>5. PosOf(s, k) + Came(g, k) <= PosOf(t, k) + OnWay(out, Plain(k))
      BY <2>2, <2>4, <3>1, <3>2, <3>3
    <3> QED
      BY <2>2, <3>1, <3>2, <3>4, <3>5 DEF Sends
  <2> QED
    BY <2>5, <2>6, <2>7
<1> QED
  BY <1>9, <1>15, <1>20, <1>22 DEF Sending

\* The light counters that are shipped, flow by flow.
Posted(out, picked, cells) ==
  /\ Fine(out)
  /\ \A k : ~ Holds(out, About(k)) /\ ~ Holds(out, Plain(k)) /\ ~ Holds(out, Parting(k))
  /\ \A k, c : OnWay(out, KeyWay(k, c)) = IF c \in picked THEN cells[c] ELSE 0
  /\ \A k : OnWay(out, Plain(k)) = 0

LEMMA LightPosted ==
  ASSUME NEW cells, Lit(cells), NEW picked \in SUBSET LightCells, NEW ps,
         Posts(LightOrder, picked, cells, ps)
  PROVE  Posted(Light(ps), picked, cells)
<1>1. PICK m \in Nat : m = Len(ps) /\ DOMAIN ps = 1..m
  BY RowFacts DEF Posts
<1>2. PICK out : out = Light(ps)
  OBVIOUS
<1>3. out = [i \in 1..m |-> [kind |-> "light", cell |-> ps[i].cell, value |-> ps[i].value]]
  BY <1>1, <1>2 DEF Light
<1>4. cells \in LightPart /\ cells \in [LightCells -> Int] /\ \A c \in LightCells : cells[c] >= 0
  BY DEF Lit, LightPart
<1>5. \A i \in 1..m : /\ ps[i].cell \in LightCells /\ ps[i].cell \in picked
                       /\ ps[i].value = cells[ps[i].cell] /\ cells[ps[i].cell] \in Nat
  <2>1. \A i \in 1..m : ps[i].cell \in picked /\ ps[i].value = cells[ps[i].cell]
    BY <1>1 DEF Posts
  <2>2. \A c \in LightCells : cells[c] \in Nat
    BY <1>4
  <2> QED
    BY <2>1, <2>2
<1>6. \A i \in 1..m : /\ out[i].cell = ps[i].cell /\ out[i].value = ps[i].value
                      /\ Proper(out[i]) /\ TellsLight(out[i], ps[i].cell, cells[ps[i].cell])
  <2> SUFFICES ASSUME NEW i \in 1..m
               PROVE  /\ out[i].cell = ps[i].cell /\ out[i].value = ps[i].value
                      /\ Proper(out[i]) /\ TellsLight(out[i], ps[i].cell, cells[ps[i].cell])
    OBVIOUS
  <2>1. PICK x \in LightCells, n \in Nat : x = ps[i].cell /\ n = cells[x] /\ n = ps[i].value
    BY <1>5
  <2>2. out[i] = LightOne(x, n)
    BY <1>3, <2>1 DEF LightOne
  <2>3. TellsLight(LightOne(x, n), x, n)
    <3>1. n \in Int
      OBVIOUS
    <3> QED
      BY <3>1, LightWays
  <2>4. out[i].cell = x /\ out[i].value = n /\ out[i].kind = "light" /\ out[i] \in ElasticDeltas
    BY <2>2, <2>3 DEF LightOne, TellsLight
  <2>5. Proper(out[i])
    BY <2>4 DEF Proper
  <2> QED
    BY <2>1, <2>2, <2>3, <2>4, <2>5
<1>7. out \in Seq(ElasticDeltas)
  BY <1>1, <1>2, <1>4, LightShips
<1>8. DOMAIN out = 1..m
  BY <1>3
<1>9. Fine(out)
  BY <1>6, <1>7, <1>8 DEF Fine
<1>10. \A i \in 1..m : /\ \A k : out[i] \notin About(k) /\ out[i] \notin Plain(k)
                                 /\ out[i] \notin Parting(k)
                       /\ \A k, c : out[i] \in KeyWay(k, c) <=> out[i].cell = c
  BY <1>6 DEF TellsLight
<1>11. \A k : ~ Holds(out, About(k)) /\ ~ Holds(out, Plain(k)) /\ ~ Holds(out, Parting(k))
  BY <1>8, <1>10 DEF Holds
<1>12. \A k : OnWay(out, Plain(k)) = 0
  BY <1>7, <1>8, <1>10, DeltaValues, OnWayOfNone
<1>13. Posts(LightOrder, picked, cells, out)
  <2>1. Row(out)
    BY <1>7 DEF Row
  <2>2. \A i \in 1..m : out[i].cell \in picked /\ out[i].value = cells[out[i].cell]
    BY <1>5, <1>6
  <2>3. \A c \in picked : \E i \in 1..m : out[i].cell = c
    BY <1>1, <1>6 DEF Posts
  <2>4. \A i, j \in 1..m : out[i].cell = out[j].cell => i = j
    BY <1>1, <1>6 DEF Posts
  <2> QED
    BY <1>8, <2>1, <2>2, <2>3, <2>4 DEF Posts
<1>14. ASSUME NEW k, NEW c
       PROVE  OnWay(out, KeyWay(k, c)) = IF c \in picked THEN cells[c] ELSE 0
  <2>1. \A i \in DOMAIN out : out[i] \in KeyWay(k, c) <=> out[i].cell = c
    BY <1>8, <1>10
  <2> QED
    BY <1>7, <1>13, <2>1, DeltaValues, OnWayPosted
<1> QED
  BY <1>2, <1>9, <1>11, <1>12, <1>14 DEF Posted

LEMMA SpilledSends ==
  ASSUME NEW s, Regular(s), NEW g \in Keys, Seat(s, g).id \notin {NoFlow, g}, NEW u \in Bucks,
         u.id = Seat(s, g).id, u.pos = Seat(s, g).pos, u.flag = Seat(s, g).flag, NEW lim
  PROVE  Sending(s, g, Spilled(s, g, u, lim))
<1>1. PICK B, b, l : /\ B \in Buckets /\ B = BucketOf[g] /\ b = Seat(s, g) /\ l = s.light
                     /\ b = s.heavy[B]
  BY ElasticFacts DEF Seat
<1>2. Fit(b) /\ b.pos \in Nat /\ (b.id # NoFlow => BucketOf[b.id] = B)
  <2>1. /\ Fit(Seat(s, g)) /\ Seat(s, g).pos \in Nat
        /\ Seat(s, g).id # NoFlow => BucketOf[Seat(s, g).id] = BucketOf[g]
    BY SeatFacts
  <2> QED
    BY <1>1, <2>1
<1>3. Lit(l) /\ l \in [LightCells -> Int] /\ \A c \in LightCells : l[c] \in Nat
  <2>1. l \in LightPart /\ \A c \in LightCells : l[c] >= 0
    BY <1>1 DEF Regular, ElasticState
  <2> QED
    BY <2>1 DEF Lit, LightPart
<1>4. PICK bump, taus : /\ bump = [c \in LightCells |-> IF c \in LightOf[g] THEN 1 ELSE 0]
                        /\ taus = [c \in LightCells |-> lim]
  OBVIOUS
<1>5. PICK due, moved, keep, ps :
        /\ due = Due(l, bump, taus) /\ moved = Bumped(l, bump)
        /\ keep = Held(l, bump, taus) /\ ps = Shipped(LightOrder, l, bump, taus)
  OBVIOUS
<1>6. PICK r, t, out : r = Spilled(s, g, u, lim) /\ t = r.held /\ out = r.out
  OBVIOUS
<1>7. t = Placed(s, B, u, keep) /\ out = Light(ps)
  BY <1>1, <1>4, <1>5, <1>6 DEF Spilled, Placed
<1>8. bump \in [LightCells -> Int]
      /\ \A c \in LightCells : bump[c] = IF c \in LightOf[g] THEN 1 ELSE 0
  BY <1>4
<1>9. /\ due \in SUBSET LightCells
      /\ moved \in [LightCells -> Int] /\ keep \in [LightCells -> Int]
      /\ \A c \in LightCells : /\ moved[c] = l[c] + bump[c]
                               /\ keep[c] = IF c \in due THEN 0 ELSE l[c] + bump[c]
  BY <1>3, <1>5, <1>8, DueFacts
<1>10. \A c \in LightCells : moved[c] \in Nat /\ keep[c] \in Nat
  <2>1. \A c \in LightCells : l[c] \in Nat /\ bump[c] \in Nat
    BY <1>3, <1>8
  <2> QED
    BY <1>9, <2>1
<1>11. Lit(moved) /\ Lit(keep)
  BY <1>9, <1>10 DEF Lit, LightPart
<1>12. ps = Parcels(LightOrder, due, moved)
  BY <1>5 DEF Shipped
<1>13. Posts(LightOrder, due, moved, ps)
  BY <1>9, <1>12, ParcelsPost, ElasticFacts
<1>14. Posted(out, due, moved)
  BY <1>7, <1>9, <1>11, <1>13, LightPosted
<1>15. Seemly(B, u)
  <2>1. Seat(s, g).id # NoFlow
    OBVIOUS
  <2> QED
    BY <1>1, <1>2, <2>1 DEF Seemly, Fit
<1>16. /\ Regular(t) /\ t.light = keep
       /\ \A k \in Keys : Seat(t, k) = IF BucketOf[k] = B THEN u ELSE Seat(s, k)
  BY <1>1, <1>7, <1>11, <1>15, PlacedRegular
<1>17. ASSUME NEW k \in Keys
       PROVE  Sends(s, g, t, out, k)
  <2>1. /\ Seat(t, k).id = Seat(s, k).id /\ Seat(t, k).pos = Seat(s, k).pos
        /\ Seat(t, k).flag = Seat(s, k).flag
    <3>1. CASE BucketOf[k] = B
      BY <1>1, <1>16, <3>1 DEF Seat
    <3>2. CASE BucketOf[k] # B
      BY <1>16, <3>2
    <3> QED
      BY <3>1, <3>2
  <2>2. /\ PosOf(t, k) = PosOf(s, k) /\ PosOf(s, k) \in Nat
        /\ (Unmarked(t, k) <=> Unmarked(s, k)) /\ (Vacant(t, k) <=> Vacant(s, k))
    BY <2>1, SeatFacts DEF PosOf, Unmarked, Vacant
  <2>3. /\ ~ Holds(out, About(k)) /\ ~ Holds(out, Plain(k)) /\ ~ Holds(out, Parting(k))
        /\ OnWay(out, Plain(k)) = 0
        /\ \A c : OnWay(out, KeyWay(k, c)) = IF c \in due THEN moved[c] ELSE 0
    BY <1>14 DEF Posted
  <2>4. k = g => ~ Unmarked(t, k) /\ ~ Vacant(t, k)
    BY <2>2 DEF Unmarked, Vacant
  <2>5. \A c \in LightOf[k] : PosOf(s, k) + s.light[c] + Came(g, k)
                             <= PosOf(t, k) + t.light[c] + OnWay(out, KeyWay(k, c))
    <3> SUFFICES ASSUME NEW c \in LightOf[k]
                 PROVE  PosOf(s, k) + s.light[c] + Came(g, k)
                        <= PosOf(t, k) + t.light[c] + OnWay(out, KeyWay(k, c))
      OBVIOUS
    <3>1. c \in LightCells
      BY ElasticFacts
    <3>2. PICK i \in Nat, x \in Nat, a \in Nat, y \in Nat, z \in Nat :
            /\ i = PosOf(s, k) /\ x = l[c] /\ a = bump[c] /\ y = keep[c] /\ z = moved[c]
            /\ z = x + a /\ y = IF c \in due THEN 0 ELSE x + a
      BY <1>3, <1>8, <1>9, <1>10, <2>2, <3>1
    <3>3. Came(g, k) <= a /\ Came(g, k) \in Nat
      BY <1>8, <3>1, <3>2 DEF Came
    <3>4. i + x + Came(g, k) <= i + y + (IF c \in due THEN z ELSE 0)
      BY <3>2, <3>3
    <3> QED
      BY <1>1, <1>16, <2>2, <2>3, <3>2, <3>4
  <2>6. Unmarked(t, k) => PosOf(s, k) + Came(g, k) <= PosOf(t, k) + OnWay(out, Plain(k))
    BY <2>2, <2>3, <2>4 DEF Came
  <2> QED
    BY <2>1, <2>2, <2>3, <2>4, <2>5, <2>6 DEF Sends
<1> QED
  BY <1>6, <1>14, <1>16, <1>17 DEF Sending, Posted

LEMMA InsertSends ==
  ASSUME NEW s, Regular(s), NEW g \in Keys, NEW lim
  PROVE  Sending(s, g, ElasticInsert(s, g, lim))
<1>1. PICK b : b = Seat(s, g) /\ b = s.heavy[BucketOf[g]]
  BY DEF Seat
<1>2. /\ b \in Bucks /\ Fit(b) /\ b.pos \in Nat /\ b.flag \in BOOLEAN /\ b.neg \in Int
      /\ b.id \in Keys \cup {NoFlow} /\ g # NoFlow
  <2>1. /\ Seat(s, g) \in Bucks /\ Fit(Seat(s, g)) /\ Seat(s, g).pos \in Nat
        /\ Seat(s, g).flag \in BOOLEAN /\ Seat(s, g).neg \in Int
        /\ Seat(s, g).id \in Keys \cup {NoFlow} /\ g # NoFlow
    BY SeatFacts
  <2> QED
    BY <1>1, <2>1
<1>3. PICK before : before = IF b.id \in Keys \ {g} THEN Farewell(b) ELSE <<>>
  OBVIOUS
<1>4. CASE b.id = NoFlow
  <2>1. PICK u : u = Bucket(g, 1, 0, FALSE)
    OBVIOUS
  <2>2. u \in Bucks /\ u.id = g /\ u.pos = 1 /\ u.flag = FALSE
    BY <2>1 DEF Bucket, Bucks
  <2>3. before = <<>>
    BY <1>2, <1>3, <1>4, ElasticFacts
  <2>4. ElasticInsert(s, g, lim) = Promoted(s, g, u, before, lim)
    BY <1>1, <1>2, <1>4, <2>1, <2>3 DEF ElasticInsert
  <2>5. Seats(s, g, u)
    BY <1>1, <1>2, <1>4, <2>2 DEF Seats, PosOf, Unmarked, Vacant
  <2> QED
    BY <1>1, <1>3, <2>4, <2>5, PromotedSends
<1>5. CASE b.id = g
  <2>1. PICK u : u = [b EXCEPT !.pos = @ + 1]
    OBVIOUS
  <2>2. u \in Bucks /\ u.id = g /\ u.pos = b.pos + 1 /\ u.flag = b.flag
    BY <1>2, <1>5, <2>1 DEF Bucks
  <2>3. before = <<>>
    BY <1>3, <1>5
  <2>4. ElasticInsert(s, g, lim) = Promoted(s, g, u, before, lim)
    BY <1>1, <1>2, <1>5, <2>1, <2>3 DEF ElasticInsert
  <2>5. Seats(s, g, u)
    BY <1>1, <1>2, <1>5, <2>2 DEF Seats, PosOf, Unmarked, Vacant
  <2> QED
    BY <1>1, <1>3, <2>4, <2>5, PromotedSends
<1>6. CASE b.id \notin {NoFlow, g} /\ Withstands(Opposed(b, 1))
  <2>1. PICK u : u = Opposed(b, 1)
    OBVIOUS
  <2>2. u \in Bucks /\ u.id = b.id /\ u.pos = b.pos /\ u.flag = b.flag
    BY <1>2, <2>1 DEF Opposed, Bucks
  <2>3. ElasticInsert(s, g, lim) = Spilled(s, g, u, lim)
    BY <1>1, <1>6, <2>1 DEF ElasticInsert
  <2> QED
    BY <1>1, <1>6, <2>2, <2>3, SpilledSends
<1>7. CASE b.id \notin {NoFlow, g} /\ ~ Withstands(Opposed(b, 1))
  <2>1. PICK u : u = Bucket(g, 1, 1, TRUE)
    OBVIOUS
  <2>2. u \in Bucks /\ u.id = g /\ u.pos = 1 /\ u.flag = TRUE
    BY <2>1 DEF Bucket, Bucks
  <2>3. before = Farewell(b)
    BY <1>2, <1>3, <1>7
  <2>4. ElasticInsert(s, g, lim) = Promoted(s, g, u, before, lim)
    BY <1>1, <1>7, <2>1, <2>3 DEF ElasticInsert
  <2>5. Seats(s, g, u)
    BY <1>1, <1>2, <1>7, <2>2 DEF Seats, PosOf, Unmarked, Vacant
  <2> QED
    BY <1>1, <1>3, <2>4, <2>5, PromotedSends
<1> QED
  BY <1>4, <1>5, <1>6, <1>7

\* A flush that ships the buckets picked, in the order of full, with h as
\* they are.
Votings(h, full, votes) ==
  /\ Row(full) /\ Visits(full)
  /\ \A i \in DOMAIN full : full[i] \in Buckets /\ h[full[i]].pos # 0
  /\ \A b \in Buckets : h[b].pos # 0 => \E i \in DOMAIN full : full[i] = b
  /\ votes = [i \in DOMAIN full |-> Heavy(h[full[i]].id, h[full[i]].pos, h[full[i]].flag)]

LEMMA VotesFine ==
  ASSUME NEW s, Regular(s), NEW full, NEW votes, Votings(s.heavy, full, votes)
  PROVE  /\ Fine(votes) /\ DOMAIN votes = DOMAIN full
         /\ \A i \in DOMAIN full :
              TellsHeavy(votes[i], s.heavy[full[i]].id, s.heavy[full[i]].pos, s.heavy[full[i]].flag)
<1>1. PICK h : h = s.heavy
  OBVIOUS
<1>2. PICK m \in Nat : m = Len(full) /\ DOMAIN full = 1..m
  BY RowFacts DEF Votings
<1>3. votes = [i \in 1..m |-> Heavy(h[full[i]].id, h[full[i]].pos, h[full[i]].flag)]
  BY <1>1, <1>2 DEF Votings
<1>4. \A i \in 1..m : /\ Proper(votes[i])
                      /\ TellsHeavy(votes[i], h[full[i]].id, h[full[i]].pos, h[full[i]].flag)
  <2> SUFFICES ASSUME NEW i \in 1..m
               PROVE  /\ Proper(votes[i])
                      /\ TellsHeavy(votes[i], h[full[i]].id, h[full[i]].pos, h[full[i]].flag)
    OBVIOUS
  <2>1. PICK u : u = h[full[i]]
    OBVIOUS
  <2>2. full[i] \in Buckets /\ u.pos # 0
    BY <1>1, <1>2, <2>1 DEF Votings
  <2>3. u \in Bucks /\ u.pos >= 0 /\ (u.id = NoFlow => u.pos = 0)
    BY <1>1, <2>1, <2>2 DEF Regular, ElasticState, HeavyPart
  <2>4. u.id \in Keys /\ u.pos \in Nat /\ u.pos >= 1 /\ u.flag \in BOOLEAN
    BY <2>2, <2>3 DEF Bucks
  <2>5. votes[i] = Heavy(u.id, u.pos, u.flag)
    BY <1>3, <2>1
  <2>6. TellsHeavy(Heavy(u.id, u.pos, u.flag), u.id, u.pos, u.flag)
    <3>1. u.pos \in Int
      BY <2>4
    <3> QED
      BY <2>4, <3>1, HeavyWays
  <2>7. votes[i] \in ElasticDeltas /\ votes[i].value = u.pos
    BY <2>5, <2>6 DEF TellsHeavy
  <2>8. Proper(votes[i])
    BY <2>4, <2>7 DEF Proper
  <2> QED
    BY <2>1, <2>5, <2>6, <2>8
<1>5. DOMAIN votes = 1..m /\ \A i \in 1..m : votes[i] \in ElasticDeltas
  BY <1>3, <1>4 DEF Proper
<1>6. votes \in Seq(ElasticDeltas)
  <2>1. votes = [i \in 1..m |-> votes[i]]
    BY <1>3
  <2>2. PICK S : S = ElasticDeltas
    OBVIOUS
  <2>3. votes \in Seq(S)
    BY <1>5, <2>1, <2>2
  <2> QED
    BY <2>2, <2>3
<1> QED
  BY <1>1, <1>2, <1>4, <1>5, <1>6 DEF Fine

\* What the votes say of a flow: its bucket speaks for it, if it has any.
LEMMA VotesSay ==
  ASSUME NEW s, Regular(s), NEW full, NEW votes, Votings(s.heavy, full, votes), NEW k \in Keys,
         NEW D, NEW mine \in BOOLEAN,
         \A i \in DOMAIN full : votes[i] \in D <=> full[i] = BucketOf[k] /\ mine
  PROVE  OnWay(votes, D) = IF mine THEN Seat(s, k).pos ELSE 0
<1>1. PICK h, B : h = s.heavy /\ B = BucketOf[k] /\ B \in Buckets /\ Seat(s, k) = h[B]
  BY ElasticFacts DEF Seat
<1>2. h \in HeavyPart
  BY <1>1 DEF Regular, ElasticState
<1>3. PICK val : val = Votes(h)
  OBVIOUS
<1>4. val \in [Buckets -> Int] /\ \A b \in Buckets : val[b] = h[b].pos
  BY <1>2, <1>3, VotesTyped DEF Votes
<1>5. PICK S : S = IF mine THEN {B} ELSE {}
  OBVIOUS
<1>6. S \in SUBSET Buckets /\ \A b : b \in S <=> b = B /\ mine
  BY <1>1, <1>5
<1>7. /\ Fine(votes) /\ DOMAIN votes = DOMAIN full
      /\ \A i \in DOMAIN full :
           TellsHeavy(votes[i], h[full[i]].id, h[full[i]].pos, h[full[i]].flag)
  BY <1>1, VotesFine
<1>8. \A i \in DOMAIN full : /\ full[i] \in Buckets
                             /\ votes[i].value = val[full[i]]
                             /\ votes[i] \in D <=> full[i] \in S
  BY <1>1, <1>4, <1>6, <1>7 DEF Votings, TellsHeavy
<1>9. Visits(full) /\ \A b \in S : val[b] # 0 => \E i \in DOMAIN full : full[i] = b
  BY <1>1, <1>4, <1>6 DEF Votings
<1>10. Delivers(ElasticDeltas, full, votes, Buckets, val, S, D)
  BY <1>4, <1>6, <1>7, <1>8, <1>9, DeltaValues, ElasticFacts DEF Delivers, Fine
<1>11. PICK f : f = PartOf(val, S)
  OBVIOUS
<1>12. OnWay(votes, D) = SumOf(f) /\ IsFiniteSet(S) /\ f \in [S -> Int]
  BY <1>10, <1>11, DeliversAll
<1>13. CASE mine
  <2>1. B \in S /\ \A b \in S : b # B => f[b] = 0
    BY <1>6, <1>13
  <2>2. SumOf(f) = f[B]
    BY <1>12, <2>1, IntSumOfOne
  <2>3. f[B] = h[B].pos
    BY <1>1, <1>4, <1>11, <2>1 DEF PartOf
  <2> QED
    BY <1>1, <1>12, <1>13, <2>2, <2>3
<1>14. CASE ~ mine
  <2>1. \A b \in S : f[b] = 0
    BY <1>6, <1>14
  <2>2. SumOf(f) = 0
    BY <1>12, <2>1, IntSumOfNothing
  <2> QED
    BY <1>12, <1>14, <2>2
<1> QED
  BY <1>13, <1>14

LEMMA FlushSends ==
  ASSUME NEW s, Regular(s)
  PROVE  Sending(s, NoFlow, ElasticFlush(s))
<1>1. PICK h, l : h = s.heavy /\ l = s.light
  OBVIOUS
<1>2. h \in HeavyPart /\ h \in [Buckets -> Bucks] /\ l \in LightPart /\ Lit(l)
      /\ \A b \in Buckets : h[b].id # NoFlow => BucketOf[h[b].id] = b
  BY <1>1 DEF Regular, ElasticState, HeavyPart, Lit
<1>3. PICK picked, full, ps, votes :
        /\ picked = {b \in Buckets : h[b].pos # 0}
        /\ full = InOrder(BucketOrder, picked)
        /\ ps = Residue(LightOrder, l)
        /\ votes = [i \in DOMAIN full |-> Heavy(h[full[i]].id, h[full[i]].pos, h[full[i]].flag)]
  OBVIOUS
<1>4. Votings(h, full, votes)
  <2>1. Picks(BucketOrder, picked, full)
    BY <1>3, ElasticFacts, InOrderFacts
  <2>2. picked \cap ToSet(BucketOrder) = picked
    BY <1>3, ElasticFacts
  <2> QED
    BY <1>3, <2>1, <2>2 DEF Picks, Votings
<1>5. PICK g, z : g = [b \in Buckets |-> [h[b] EXCEPT !.pos = 0]] /\ z = Emptied(l)
  OBVIOUS
<1>6. PICK r, t, out : r = ElasticFlush(s) /\ t = r.held /\ out = r.out
  OBVIOUS
<1>7. t = [heavy |-> g, light |-> z] /\ out = votes \o Light(ps)
  BY <1>1, <1>3, <1>5, <1>6 DEF ElasticFlush
<1>8. \A b \in Buckets : /\ g[b] \in Bucks /\ g[b].pos = 0
                         /\ g[b].id = h[b].id /\ g[b].flag = h[b].flag
  BY <1>2, <1>5 DEF Bucks
<1>9. z \in LightPart /\ \A c \in LightCells : z[c] = 0
  BY <1>2, <1>5 DEF Emptied, LightPart
<1>10. Regular(t)
  <2>1. g \in [Buckets -> Bucks]
    BY <1>5, <1>8
  <2>2. g \in HeavyPart
    BY <1>8, <2>1 DEF HeavyPart
  <2>3. \A b \in Buckets : g[b].pos >= 0 /\ (g[b].id # NoFlow => BucketOf[g[b].id] = b)
    BY <1>2, <1>8
  <2>4. t \in ElasticState /\ t.heavy = g /\ t.light = z
    BY <1>7, <1>9, <2>2 DEF ElasticState
  <2> QED
    BY <1>9, <2>3, <2>4 DEF Regular
<1>11. PICK due : due = NonZero(l)
  OBVIOUS
<1>12. due \in SUBSET LightCells /\ Posts(LightOrder, due, l, ps)
  <2>1. due \in SUBSET LightCells
    BY <1>2, <1>11 DEF NonZero, LightPart
  <2>2. ps = Parcels(LightOrder, due, l)
    BY <1>3, <1>11 DEF Residue
  <2> QED
    BY <2>1, <2>2, ParcelsPost, ElasticFacts
<1>13. Posted(Light(ps), due, l)
  BY <1>2, <1>12, LightPosted
<1>14. /\ Fine(votes) /\ DOMAIN votes = DOMAIN full
       /\ \A i \in DOMAIN full :
            TellsHeavy(votes[i], h[full[i]].id, h[full[i]].pos, h[full[i]].flag)
  BY <1>1, <1>4, VotesFine
<1>15. Fine(Light(ps))
  BY <1>13 DEF Posted
<1>16. /\ Fine(out)
       /\ \A D : /\ Holds(out, D) <=> Holds(votes, D) \/ Holds(Light(ps), D)
                 /\ OnWay(out, D) = OnWay(votes, D) + OnWay(Light(ps), D)
  BY <1>7, <1>14, <1>15, OfBoth
<1>17. ASSUME NEW k \in Keys
       PROVE  Sends(s, NoFlow, t, out, k)
  <2>1. PICK B, b : B \in Buckets /\ B = BucketOf[k] /\ b = Seat(s, k) /\ b = h[B]
    BY <1>1, ElasticFacts DEF Seat
  <2>2. b.pos \in Nat /\ k # NoFlow /\ PosOf(s, k) \in Nat /\ b.flag \in BOOLEAN
    <3>1. /\ Seat(s, k).pos \in Nat /\ k # NoFlow /\ PosOf(s, k) \in Nat
          /\ Seat(s, k).flag \in BOOLEAN
      BY SeatFacts
    <3> QED
      BY <2>1, <3>1
  <2>3. PICK mine, free : /\ mine \in BOOLEAN /\ free \in BOOLEAN
                          /\ mine <=> b.id = k
                          /\ free <=> b.id = k /\ ~ b.flag
    <3>1. (b.id = k) \in BOOLEAN /\ (b.id = k /\ ~ b.flag) \in BOOLEAN
      OBVIOUS
    <3> QED
      BY <3>1
  <2>4. /\ Seat(t, k).id = b.id /\ Seat(t, k).flag = b.flag /\ Seat(t, k).pos = 0
        /\ PosOf(t, k) = 0 /\ PosOf(s, k) = (IF mine THEN b.pos ELSE 0)
        /\ (Unmarked(t, k) <=> free) /\ (Unmarked(s, k) <=> free)
        /\ (Vacant(t, k) <=> Vacant(s, k))
    <3>1. Seat(t, k) = g[B]
      BY <1>7, <2>1 DEF Seat
    <3> QED
      BY <1>8, <2>1, <2>3, <3>1 DEF PosOf, Unmarked, Vacant
  <2>5. \A i \in DOMAIN full : k = h[full[i]].id <=> full[i] = B /\ mine
    <3> SUFFICES ASSUME NEW i \in DOMAIN full
                 PROVE  k = h[full[i]].id <=> full[i] = B /\ mine
      OBVIOUS
    <3>1. full[i] \in Buckets
      BY <1>4 DEF Votings
    <3>2. h[full[i]].id = k => full[i] = B
      BY <1>2, <2>1, <2>2, <3>1
    <3> QED
      BY <2>1, <2>3, <3>2
  <2>6. \A i \in DOMAIN full :
          /\ votes[i] \in About(k) <=> full[i] = B /\ mine
          /\ votes[i] \in Plain(k) <=> full[i] = B /\ free
          /\ votes[i] \in Parting(k) => full[i] = B /\ mine /\ ~ free
          /\ \A c : votes[i] \in KeyWay(k, c) <=> full[i] = B /\ mine
    <3> SUFFICES ASSUME NEW i \in DOMAIN full
                 PROVE  /\ votes[i] \in About(k) <=> full[i] = B /\ mine
                        /\ votes[i] \in Plain(k) <=> full[i] = B /\ free
                        /\ votes[i] \in Parting(k) => full[i] = B /\ mine /\ ~ free
                        /\ \A c : votes[i] \in KeyWay(k, c) <=> full[i] = B /\ mine
      OBVIOUS
    <3>1. PICK u : u = h[full[i]]
      OBVIOUS
    <3>2. TellsHeavy(votes[i], u.id, u.pos, u.flag)
      BY <1>14, <3>1
    <3>3. /\ votes[i] \in About(k) <=> k = u.id
          /\ votes[i] \in Plain(k) <=> k = u.id /\ ~ u.flag
          /\ votes[i] \in Parting(k) <=> k = u.id /\ u.flag
          /\ \A c : votes[i] \in KeyWay(k, c) <=> k = u.id
      BY <3>2 DEF TellsHeavy
    <3>4. k = u.id <=> full[i] = B /\ mine
      BY <2>5, <3>1
    <3>5. full[i] = B => u = b
      BY <2>1, <3>1
    <3>6. free <=> mine /\ ~ b.flag
      BY <2>3
    <3> QED
      BY <3>3, <3>4, <3>5, <3>6
  <2>7. /\ Holds(votes, About(k)) => mine
        /\ Holds(votes, Plain(k)) => free
        /\ Holds(votes, Parting(k)) => ~ free
    BY <1>14, <2>6 DEF Holds
  <2>8. OnWay(votes, Plain(k)) = IF free THEN b.pos ELSE 0
    <3>1. \A i \in DOMAIN full : votes[i] \in Plain(k) <=> full[i] = BucketOf[k] /\ free
      BY <2>1, <2>6
    <3>2. Votings(s.heavy, full, votes) /\ free \in BOOLEAN
      BY <1>1, <1>4, <2>3
    <3>3. OnWay(votes, Plain(k)) = IF free THEN Seat(s, k).pos ELSE 0
      BY <3>1, <3>2, VotesSay
    <3> QED
      BY <2>1, <3>3
  <2>9. ASSUME NEW c
        PROVE  OnWay(votes, KeyWay(k, c)) = IF mine THEN b.pos ELSE 0
    <3>1. \A i \in DOMAIN full : votes[i] \in KeyWay(k, c) <=> full[i] = BucketOf[k] /\ mine
      BY <2>1, <2>6
    <3>2. Votings(s.heavy, full, votes) /\ mine \in BOOLEAN
      BY <1>1, <1>4, <2>3
    <3>3. OnWay(votes, KeyWay(k, c)) = IF mine THEN Seat(s, k).pos ELSE 0
      BY <3>1, <3>2, VotesSay
    <3> QED
      BY <2>1, <3>3
  <2>10. /\ ~ Holds(Light(ps), About(k)) /\ ~ Holds(Light(ps), Plain(k))
         /\ ~ Holds(Light(ps), Parting(k)) /\ OnWay(Light(ps), Plain(k)) = 0
         /\ \A c : OnWay(Light(ps), KeyWay(k, c)) = IF c \in due THEN l[c] ELSE 0
    BY <1>13 DEF Posted
  <2>11. Came(NoFlow, k) = 0
    BY <2>2 DEF Came
  <2>12. \A c \in LightOf[k] : PosOf(s, k) + s.light[c] + Came(NoFlow, k)
                               <= PosOf(t, k) + t.light[c] + OnWay(out, KeyWay(k, c))
    <3> SUFFICES ASSUME NEW c \in LightOf[k]
                 PROVE  PosOf(s, k) + s.light[c] + Came(NoFlow, k)
                        <= PosOf(t, k) + t.light[c] + OnWay(out, KeyWay(k, c))
      OBVIOUS
    <3>1. c \in LightCells
      BY ElasticFacts
    <3>2. PICK i \in Nat, x \in Nat : i = PosOf(s, k) /\ x = l[c]
      BY <1>1, <2>2, LightFacts
    <3>3. OnWay(votes, KeyWay(k, c)) = i
      BY <2>4, <2>9, <3>2
    <3>4. (IF c \in due THEN l[c] ELSE 0) = x
      BY <1>2, <1>11, <3>1, <3>2 DEF NonZero, LightPart
    <3>5. OnWay(Light(ps), KeyWay(k, c)) = x
      BY <2>10, <3>4
    <3>6. t.light[c] = 0
      BY <1>7, <1>9, <3>1
    <3>7. OnWay(out, KeyWay(k, c)) = i + x
      BY <1>16, <3>3, <3>5
    <3> QED
      BY <1>1, <2>4, <2>11, <3>2, <3>6, <3>7
  <2>13. Unmarked(t, k) => PosOf(s, k) + Came(NoFlow, k) <= PosOf(t, k) + OnWay(out, Plain(k))
    <3>1. OnWay(out, Plain(k)) = OnWay(votes, Plain(k)) + OnWay(Light(ps), Plain(k))
      BY <1>16
    <3> QED
      BY <2>2, <2>3, <2>4, <2>8, <2>10, <2>11, <3>1
  <2>14. Seat(t, k).id = k \/ Holds(out, About(k)) => Seat(s, k).id = k
    BY <1>16, <2>1, <2>3, <2>4, <2>7, <2>10
  <2>15. /\ Unmarked(t, k) => Unmarked(s, k) /\ ~ Holds(out, Parting(k))
         /\ Holds(out, Plain(k)) => Unmarked(t, k)
    BY <1>16, <2>4, <2>7, <2>10
  <2> QED
    BY <2>2, <2>4, <2>12, <2>13, <2>14, <2>15 DEF Sends
<1> QED
  BY <1>6, <1>10, <1>16, <1>17 DEF Sending

(***************************************************************************)
(* What is appended to a queue comes after what was there.                 *)
(***************************************************************************)
LEMMA TellsAbout ==
  ASSUME NEW k
  PROVE  Plain(k) \subseteq About(k) /\ Parting(k) \subseteq About(k)
BY DEF Plain, Parting, About

\* Appended, in their order.
LEMMA InTurn ==
  ASSUME NEW q, Fine(q), NEW out, Fine(out), NEW D, NEW E,
         \A i, m \in DOMAIN q : q[i] \in D /\ q[m] \in E => i < m,
         ~ (Holds(out, D) /\ (Holds(q, E) \/ Holds(out, E)))
  PROVE  \A i, m \in DOMAIN (q \o out) : (q \o out)[i] \in D /\ (q \o out)[m] \in E => i < m
<1>1. q \in Seq(ElasticDeltas) /\ out \in Seq(ElasticDeltas)
  BY DEF Fine
<1>2. PICK a \in Nat, b \in Nat :
        a = Len(q) /\ b = Len(out) /\ DOMAIN q = 1..a /\ DOMAIN out = 1..b
  BY <1>1
<1>3. PICK r : r = q \o out
  OBVIOUS
<1>4. DOMAIN r = 1..(a + b) /\ \A n \in 1..(a + b) : r[n] = IF n <= a THEN q[n] ELSE out[n - a]
  BY <1>1, <1>2, <1>3
<1>5. ASSUME NEW i \in 1..(a + b), NEW m \in 1..(a + b), r[i] \in D, r[m] \in E
      PROVE  i < m
  <2>1. CASE i <= a
    <3>1. i \in 1..a /\ q[i] \in D
      BY <1>4, <1>5, <2>1
    <3>2. CASE m <= a
      <4>1. m \in 1..a /\ q[m] \in E
        BY <1>4, <1>5, <3>2
      <4> QED
        BY <1>2, <3>1, <4>1
    <3>3. CASE ~ (m <= a)
      BY <2>1, <3>3
    <3> QED
      BY <3>2, <3>3
  <2>2. CASE ~ (i <= a)
    <3>1. i - a \in 1..b /\ out[i - a] \in D
      BY <1>4, <1>5, <2>2
    <3>2. Holds(out, D)
      BY <1>2, <3>1 DEF Holds
    <3>3. CASE m <= a
      <4>1. m \in 1..a /\ q[m] \in E
        BY <1>4, <1>5, <3>3
      <4>2. Holds(q, E)
        BY <1>2, <4>1 DEF Holds
      <4> QED
        BY <3>2, <4>2
    <3>4. CASE ~ (m <= a)
      <4>1. m - a \in 1..b /\ out[m - a] \in E
        BY <1>4, <1>5, <3>4
      <4>2. Holds(out, E)
        BY <1>2, <4>1 DEF Holds
      <4> QED
        BY <3>2, <4>2
    <3> QED
      BY <3>3, <3>4
  <2> QED
    BY <2>1, <2>2
<1> QED
  BY <1>3, <1>4, <1>5

LEMMA FlowShips ==
  ASSUME NEW p, Merged(p), NEW s, Regular(s), NEW t, Regular(t), NEW q, Fine(q), NEW out, Fine(out),
         NEW k \in Keys, NEW n \in Nat, NEW g, Flow(p, s, q, k, n), Sends(s, g, t, out, k)
  PROVE  /\ Flow(p, t, q \o out, k, n + Came(g, k))
         /\ Lonely(p, s, q, k) => Lonely(p, t, q \o out, k)
<1>1. PICK r : r = q \o out
  OBVIOUS
<1>2. \A D : /\ Holds(r, D) <=> Holds(q, D) \/ Holds(out, D)
             /\ OnWay(r, D) = OnWay(q, D) + OnWay(out, D)
  BY <1>1, OfBoth
<1>3. \A D : OnWay(q, D) \in Nat /\ OnWay(out, D) \in Nat
  BY WayNat
<1>4. Regular(p)
  BY DEF Merged
<1>5. PosOf(p, k) \in Nat /\ PosOf(s, k) \in Nat /\ PosOf(t, k) \in Nat /\ k # NoFlow
  BY <1>4, SeatFacts
<1>6. Came(g, k) \in {0, 1} /\ (Came(g, k) = 0 <=> k # g)
  BY DEF Came
<1>7. /\ Unmarked(s, k) => ~ Holds(q, Parting(k))
      /\ Unmarked(s, k) /\ (Vacant(p, k) \/ Unmarked(p, k)) =>
           n <= PosOf(p, k) + OnWay(q, Plain(k)) + PosOf(s, k)
      /\ n = 0 => Seat(s, k).id # k /\ ~ Holds(q, About(k))
      /\ Vacant(s, k) => n = 0
  BY DEF Flow
<1>8. /\ Unmarked(t, k) =>
           /\ Unmarked(s, k) \/ Vacant(s, k)
           /\ ~ Holds(out, Parting(k))
           /\ PosOf(s, k) + Came(g, k) <= PosOf(t, k) + OnWay(out, Plain(k))
      /\ Holds(out, Plain(k)) => Unmarked(t, k)
      /\ Unmarked(s, k) => Unmarked(t, k) \/ Holds(out, Parting(k))
      /\ Seat(t, k).id = k \/ Holds(out, About(k)) => Seat(s, k).id = k \/ k = g
      /\ Vacant(t, k) => Vacant(s, k) /\ k # g
  BY DEF Sends
<1>9. /\ Holds(q, Parting(k)) \/ Holds(q, Plain(k)) => Holds(q, About(k))
  BY TellsAbout DEF Holds
<1>10. Unmarked(t, k) => ~ Holds(q, Parting(k))
  BY <1>7, <1>8, <1>9
<1>11. \A i, m \in DOMAIN r : r[i] \in Plain(k) /\ r[m] \in Parting(k) => i < m
  <2>1. \A i, m \in DOMAIN q : q[i] \in Plain(k) /\ q[m] \in Parting(k) => i < m
    BY DEF Flow
  <2>2. ~ (Holds(out, Plain(k)) /\ (Holds(q, Parting(k)) \/ Holds(out, Parting(k))))
    BY <1>8, <1>10
  <2> QED
    BY <1>1, <2>1, <2>2, InTurn
<1>12. Unmarked(t, k) => ~ Holds(r, Parting(k))
  BY <1>2, <1>8, <1>10
<1>13. ASSUME Unmarked(t, k), Vacant(p, k) \/ Unmarked(p, k)
       PROVE  n + Came(g, k) <= PosOf(p, k) + OnWay(r, Plain(k)) + PosOf(t, k)
  <2>1. PICK i \in Nat, j \in Nat, x \in Nat, y \in Nat, a \in Nat, e \in Nat :
          /\ i = PosOf(p, k) /\ j = OnWay(q, Plain(k)) /\ e = OnWay(out, Plain(k))
          /\ x = PosOf(s, k) /\ y = PosOf(t, k) /\ a = Came(g, k)
    BY <1>3, <1>5, <1>6
  <2>2. x + a <= y + e /\ OnWay(r, Plain(k)) = j + e
    BY <1>2, <1>8, <1>13, <2>1
  <2>3. n <= i + j + x
    <3>1. CASE Unmarked(s, k)
      BY <1>7, <1>13, <2>1, <3>1
    <3>2. CASE Vacant(s, k)
      <4>1. n = 0
        BY <1>7, <3>2
      <4> QED
        BY <4>1
    <3> QED
      BY <1>8, <1>13, <3>1, <3>2
  <2>4. n + a <= i + (j + e) + y
    BY <2>2, <2>3
  <2> QED
    BY <2>1, <2>2, <2>4
<1>14. ASSUME NEW c \in LightOf[k]
       PROVE  n + Came(g, k) <= PosOf(p, k) + p.light[c] + OnWay(r, KeyWay(k, c))
                                + PosOf(t, k) + t.light[c]
  <2>1. p.light[c] \in Nat /\ s.light[c] \in Nat /\ t.light[c] \in Nat
    BY <1>4, LightFacts
  <2>2. PICK i \in Nat, l \in Nat, j \in Nat, x \in Nat, y \in Nat, a \in Nat, e \in Nat,
             u \in Nat, v \in Nat :
          /\ i = PosOf(p, k) /\ l = p.light[c]
          /\ j = OnWay(q, KeyWay(k, c)) /\ e = OnWay(out, KeyWay(k, c))
          /\ x = PosOf(s, k) /\ y = PosOf(t, k) /\ a = Came(g, k)
          /\ u = s.light[c] /\ v = t.light[c]
    BY <1>3, <1>5, <1>6, <2>1
  <2>3. n <= i + l + j + x + u
    BY <2>2 DEF Flow
  <2>4. x + u + a <= y + v + e
    BY <2>2 DEF Sends
  <2>5. n + a <= i + l + (j + e) + y + v
    BY <2>3, <2>4
  <2>6. OnWay(r, KeyWay(k, c)) = j + e
    BY <1>2, <2>2
  <2> QED
    BY <2>2, <2>5, <2>6
<1>15. n + Came(g, k) = 0 => Seat(t, k).id # k /\ ~ Holds(r, About(k))
  BY <1>2, <1>6, <1>7, <1>8
<1>16. Vacant(t, k) => n + Came(g, k) = 0
  BY <1>6, <1>7, <1>8
<1>17. Flow(p, t, r, k, n + Came(g, k))
  BY <1>11, <1>12, <1>13, <1>14, <1>15, <1>16 DEF Flow
<1>18. Lonely(p, s, q, k) => Lonely(p, t, r, k)
  BY <1>2, <1>8 DEF Lonely
<1> QED
  BY <1>1, <1>17, <1>18

\* The parent has applied the next delta of the worker.
LEMMA FlowTakes ==
  ASSUME NEW p, Merged(p), NEW r, Merged(r), NEW s, Regular(s), NEW q, Fine(q), q # <<>>,
         NEW d, d = Head(q), NEW k \in Keys, NEW n \in Nat,
         Flow(p, s, q, k, n), Takes(p, d, r, k)
  PROVE  /\ Flow(r, s, Tail(q), k, n)
         /\ Lonely(p, s, q, k) => Lonely(r, s, Tail(q), k)
<1>1. PICK t : t = Tail(q)
  OBVIOUS
<1>2. q \in Seq(ElasticDeltas) /\ \A i \in DOMAIN q : Proper(q[i])
  BY DEF Fine
<1>3. /\ t \in Seq(ElasticDeltas) /\ d \in ElasticDeltas /\ 1 \in DOMAIN q /\ d = q[1]
      /\ \A i \in DOMAIN t : i + 1 \in DOMAIN q /\ t[i] = q[i + 1]
      /\ \A i \in DOMAIN q : i = 1 \/ (i - 1 \in DOMAIN t /\ t[i - 1] = q[i])
  <2>1. PICK S : S = ElasticDeltas
    OBVIOUS
  <2>2. q \in Seq(S)
    BY <1>2, <2>1
  <2>3. /\ Tail(q) \in Seq(S) /\ Head(q) \in S /\ 1 \in DOMAIN q /\ Head(q) = q[1]
        /\ \A i \in DOMAIN Tail(q) : i + 1 \in DOMAIN q /\ Tail(q)[i] = q[i + 1]
        /\ \A i \in DOMAIN q : i = 1 \/ (i - 1 \in DOMAIN Tail(q) /\ Tail(q)[i - 1] = q[i])
    BY <2>2, Shortened
  <2> QED
    BY <1>1, <2>1, <2>3
<1>4. Fine(t)
  BY <1>2, <1>3 DEF Fine
<1>5. \A D : /\ Holds(q, D) <=> d \in D \/ Holds(t, D)
             /\ OnWay(q, D) = (IF d \in D THEN d.value ELSE 0) + OnWay(t, D)
  <2>1. \A D : Holds(q, D) <=> d \in D \/ Holds(t, D)
    BY <1>3 DEF Holds
  <2>2. \A D : OnWay(q, D) = (IF d \in D THEN d.value ELSE 0) + OnWay(t, D)
    BY <1>1, <1>2, DeltaValues, OnWayTaken
  <2> QED
    BY <2>1, <2>2
<1>6. \A D : OnWay(t, D) \in Nat
  BY <1>4, WayNat
<1>7. d.value \in Nat
  <2>1. Proper(d)
    BY <1>2, <1>3
  <2>2. d.value \in Int /\ d.value >= 0
    BY <1>3, <2>1, DeltaValues DEF Proper
  <2> QED
    BY <2>2
<1>8. Regular(p) /\ Regular(r)
  BY DEF Merged
<1>9. PosOf(p, k) \in Nat /\ PosOf(r, k) \in Nat /\ PosOf(s, k) \in Nat
  BY <1>8, SeatFacts
<1>10. \A i \in DOMAIN q : i \in Nat /\ i >= 1
  BY <1>2
<1>11. \A i \in DOMAIN t : i \in Nat /\ i >= 1
  BY <1>3
<1>12. /\ \A i, m \in DOMAIN q : q[i] \in Plain(k) /\ q[m] \in Parting(k) => i < m
       /\ Unmarked(s, k) => ~ Holds(q, Parting(k))
       /\ Unmarked(s, k) /\ (Vacant(p, k) \/ Unmarked(p, k)) =>
            n <= PosOf(p, k) + OnWay(q, Plain(k)) + PosOf(s, k)
       /\ n = 0 => Seat(s, k).id # k /\ ~ Holds(q, About(k))
       /\ Vacant(s, k) => n = 0
  BY DEF Flow
<1>13. /\ Unmarked(r, k) => d \notin Parting(k)
                            /\ (Unmarked(p, k) \/ (Vacant(p, k) /\ d \in Plain(k)))
       /\ Vacant(r, k) => Vacant(p, k) /\ d \notin Plain(k)
       /\ Unmarked(r, k) \/ Vacant(r, k) =>
            PosOf(p, k) + (IF d \in Plain(k) THEN d.value ELSE 0) <= PosOf(r, k)
  BY DEF Takes
<1>14. \A i, m \in DOMAIN t : t[i] \in Plain(k) /\ t[m] \in Parting(k) => i < m
  <2> SUFFICES ASSUME NEW i \in DOMAIN t, NEW m \in DOMAIN t,
                      t[i] \in Plain(k), t[m] \in Parting(k)
               PROVE  i < m
    OBVIOUS
  <2>1. /\ i + 1 \in DOMAIN q /\ q[i + 1] \in Plain(k)
        /\ m + 1 \in DOMAIN q /\ q[m + 1] \in Parting(k)
    BY <1>3
  <2>2. i + 1 < m + 1
    BY <1>12, <2>1
  <2> QED
    BY <1>11, <2>2
<1>15. d \in Parting(k) => ~ Holds(t, Plain(k))
  <2> SUFFICES ASSUME d \in Parting(k), NEW i \in DOMAIN t, t[i] \in Plain(k)
               PROVE  FALSE
    BY DEF Holds
  <2>1. i + 1 \in DOMAIN q /\ q[i + 1] \in Plain(k) /\ 1 \in DOMAIN q /\ q[1] \in Parting(k)
    BY <1>3
  <2>2. i + 1 < 1
    BY <1>12, <2>1
  <2> QED
    BY <1>11, <2>2
<1>16. ASSUME Unmarked(s, k), Vacant(r, k) \/ Unmarked(r, k)
       PROVE  n <= PosOf(r, k) + OnWay(t, Plain(k)) + PosOf(s, k)
  <2>1. PICK i \in Nat, j \in Nat, x \in Nat, y \in Nat, a \in Nat :
          /\ i = PosOf(p, k) /\ j = PosOf(r, k) /\ x = OnWay(t, Plain(k)) /\ y = PosOf(s, k)
          /\ a = IF d \in Plain(k) THEN d.value ELSE 0
    BY <1>6, <1>7, <1>9
  <2>2. i + a <= j
    BY <1>13, <1>16, <2>1
  <2>3. n <= i + OnWay(q, Plain(k)) + y
    BY <1>12, <1>13, <1>16, <2>1
  <2>4. OnWay(q, Plain(k)) = a + x
    BY <1>5, <2>1
  <2>5. n <= i + (a + x) + y
    BY <2>3, <2>4
  <2>6. n <= j + x + y
    BY <2>2, <2>5
  <2> QED
    BY <2>1, <2>6
<1>17. ASSUME NEW c \in LightOf[k]
       PROVE  n <= PosOf(r, k) + r.light[c] + OnWay(t, KeyWay(k, c)) + PosOf(s, k) + s.light[c]
  <2>1. p.light[c] \in Nat /\ r.light[c] \in Nat /\ s.light[c] \in Nat
    BY <1>8, LightFacts
  <2>2. PICK i \in Nat, j \in Nat, l \in Nat, e \in Nat, x \in Nat, y \in Nat, a \in Nat,
             u \in Nat :
          /\ i = PosOf(p, k) /\ j = PosOf(r, k) /\ l = p.light[c] /\ e = r.light[c]
          /\ x = OnWay(t, KeyWay(k, c)) /\ y = PosOf(s, k) /\ u = s.light[c]
          /\ a = IF d \in KeyWay(k, c) THEN d.value ELSE 0
    BY <1>6, <1>7, <1>9, <2>1
  <2>3. i + l + a <= j + e
    BY <2>2 DEF Takes
  <2>4. n <= i + l + OnWay(q, KeyWay(k, c)) + y + u
    BY <2>2 DEF Flow
  <2>5. OnWay(q, KeyWay(k, c)) = a + x
    BY <1>5, <2>2
  <2>6. n <= i + l + (a + x) + y + u
    BY <2>4, <2>5
  <2>7. n <= j + e + x + y + u
    BY <2>3, <2>6
  <2> QED
    BY <2>2, <2>7
<1>18. Flow(r, s, t, k, n)
  <2>1. Unmarked(s, k) => ~ Holds(t, Parting(k))
    BY <1>5, <1>12
  <2>2. n = 0 => Seat(s, k).id # k /\ ~ Holds(t, About(k))
    BY <1>5, <1>12
  <2> QED
    BY <1>12, <1>14, <1>16, <1>17, <2>1, <2>2 DEF Flow
<1>19. Lonely(p, s, q, k) => Lonely(r, s, t, k)
  BY <1>5, <1>13, <1>15 DEF Lonely
<1> QED
  BY <1>1, <1>18, <1>19

\* The parent has applied a delta of another worker.
LEMMA FlowStands ==
  ASSUME NEW p, Merged(p), NEW r, Merged(r), NEW s, Regular(s), NEW q, Fine(q),
         NEW d, Proper(d), NEW k \in Keys, NEW n \in Nat,
         Flow(p, s, q, k, n), Takes(p, d, r, k)
  PROVE  /\ Flow(r, s, q, k, n)
         /\ Lonely(p, s, q, k) /\ d \notin Plain(k) => Lonely(r, s, q, k)
<1>1. d.value \in Nat
  <2>1. d.value \in Int /\ d.value >= 0
    BY DeltaValues DEF Proper
  <2> QED
    BY <2>1
<1>2. Regular(p) /\ Regular(r)
  BY DEF Merged
<1>3. PosOf(p, k) \in Nat /\ PosOf(r, k) \in Nat /\ PosOf(s, k) \in Nat
  BY <1>2, SeatFacts
<1>4. \A D : OnWay(q, D) \in Nat
  BY WayNat
<1>5. /\ \A i, m \in DOMAIN q : q[i] \in Plain(k) /\ q[m] \in Parting(k) => i < m
      /\ Unmarked(s, k) => ~ Holds(q, Parting(k))
      /\ Unmarked(s, k) /\ (Vacant(p, k) \/ Unmarked(p, k)) =>
           n <= PosOf(p, k) + OnWay(q, Plain(k)) + PosOf(s, k)
      /\ n = 0 => Seat(s, k).id # k /\ ~ Holds(q, About(k))
      /\ Vacant(s, k) => n = 0
  BY DEF Flow
<1>6. /\ Unmarked(r, k) => Unmarked(p, k) \/ (Vacant(p, k) /\ d \in Plain(k))
      /\ Vacant(r, k) => Vacant(p, k)
      /\ Unmarked(r, k) \/ Vacant(r, k) =>
           PosOf(p, k) + (IF d \in Plain(k) THEN d.value ELSE 0) <= PosOf(r, k)
  BY DEF Takes
<1>7. ASSUME Unmarked(s, k), Vacant(r, k) \/ Unmarked(r, k)
      PROVE  n <= PosOf(r, k) + OnWay(q, Plain(k)) + PosOf(s, k)
  <2>1. PICK i \in Nat, j \in Nat, x \in Nat, y \in Nat, a \in Nat :
          /\ i = PosOf(p, k) /\ j = PosOf(r, k) /\ x = OnWay(q, Plain(k)) /\ y = PosOf(s, k)
          /\ a = IF d \in Plain(k) THEN d.value ELSE 0
    BY <1>1, <1>3, <1>4
  <2>2. i + a <= j
    BY <1>6, <1>7, <2>1
  <2>3. n <= i + x + y
    BY <1>5, <1>6, <1>7, <2>1
  <2>4. n <= j + x + y
    BY <2>2, <2>3
  <2> QED
    BY <2>1, <2>4
<1>8. ASSUME NEW c \in LightOf[k]
      PROVE  n <= PosOf(r, k) + r.light[c] + OnWay(q, KeyWay(k, c)) + PosOf(s, k) + s.light[c]
  <2>1. p.light[c] \in Nat /\ r.light[c] \in Nat /\ s.light[c] \in Nat
    BY <1>2, LightFacts
  <2>2. PICK i \in Nat, j \in Nat, l \in Nat, e \in Nat, x \in Nat, y \in Nat, a \in Nat,
             u \in Nat :
          /\ i = PosOf(p, k) /\ j = PosOf(r, k) /\ l = p.light[c] /\ e = r.light[c]
          /\ x = OnWay(q, KeyWay(k, c)) /\ y = PosOf(s, k) /\ u = s.light[c]
          /\ a = IF d \in KeyWay(k, c) THEN d.value ELSE 0
    BY <1>1, <1>3, <1>4, <2>1
  <2>3. i + l + a <= j + e
    BY <2>2 DEF Takes
  <2>4. n <= i + l + x + y + u
    BY <2>2 DEF Flow
  <2>5. n <= j + e + x + y + u
    BY <2>3, <2>4
  <2> QED
    BY <2>2, <2>5
<1>9. Flow(r, s, q, k, n)
  BY <1>5, <1>7, <1>8 DEF Flow
<1>10. Lonely(p, s, q, k) /\ d \notin Plain(k) => Lonely(r, s, q, k)
  BY <1>6 DEF Lonely
<1> QED
  BY <1>9, <1>10

\* A worker's step, which is given an input of g if g is a flow.
FlowShipment(w, g, r) ==
  /\ Sending(held[w], g, r)
  /\ held' = [held EXCEPT ![w] = r.held]
  /\ queue' = [queue EXCEPT ![w] = @ \o r.out]
  /\ parent' = parent /\ plan' = plan
  /\ given' \in [Workers -> [KeysOf[plan] -> Nat]]
  /\ \A v \in Workers : \A k \in KeysOf[plan] :
       given'[v][k] = given[v][k] + (IF v = w THEN Came(g, k) ELSE 0)

LEMMA FlowsShipped ==
  ASSUME FlowsKept, Shares, plan = "Elastic", NEW w \in Workers, NEW g, NEW r,
         FlowShipment(w, g, r)
  PROVE  FlowsKept'
<1>1. PICK s, t, q, out : s = held[w] /\ t = r.held /\ q = queue[w] /\ out = r.out
  OBVIOUS
<1>2. /\ held \in [Workers -> ElasticState] /\ queue \in [Workers -> Seq(ElasticDeltas)]
      /\ Merged(parent) /\ \A v \in Workers : Regular(held[v]) /\ Fine(queue[v])
  BY DEF FlowsKept
<1>3. Regular(t) /\ Fine(out) /\ \A k \in Keys : Sends(s, g, t, out, k)
  BY <1>1 DEF FlowShipment, Sending
<1>4. held' = [held EXCEPT ![w] = t] /\ queue' = [queue EXCEPT ![w] = q \o out]
      /\ parent' = parent /\ plan' = plan
  BY <1>1 DEF FlowShipment
<1>5. /\ given \in [Workers -> [KeysOf[plan] -> Nat]]
      /\ KeysOf[plan] \subseteq Keys
      /\ \A v \in Workers : \A k \in KeysOf[plan] :
           /\ given'[v][k] = given[v][k] + (IF v = w THEN Came(g, k) ELSE 0)
           /\ given[v][k] \in Nat
  BY WeightNat DEF FlowShipment, Shares
<1>6. Fine(q \o out)
  BY <1>1, <1>2, <1>3, OfBoth
<1>7. held' \in [Workers -> ElasticState]
  BY <1>2, <1>3, <1>4 DEF Regular
<1>8. queue' \in [Workers -> Seq(ElasticDeltas)]
  BY <1>2, <1>4, <1>6 DEF Fine
<1>9. /\ held'[w] = t /\ queue'[w] = q \o out
      /\ \A v \in Workers : v # w => held'[v] = held[v] /\ queue'[v] = queue[v]
  BY <1>2, <1>4
<1>10. \A v \in Workers : Regular(held'[v]) /\ Fine(queue'[v])
  BY <1>2, <1>3, <1>6, <1>9
<1>11. ASSUME NEW v \in Workers, NEW k \in KeysOf[plan]
       PROVE  /\ Flow(parent, held'[v], queue'[v], k, given'[v][k])
              /\ (\A x \in Workers \ {v} : given'[x][k] = 0)
                   => Lonely(parent, held'[v], queue'[v], k)
  <2>1. PICK n \in Nat : n = given[v][k]
    BY <1>5
  <2>2. /\ Flow(parent, held[v], queue[v], k, n)
        /\ Alone(v, k) => Lonely(parent, held[v], queue[v], k)
    BY <2>1 DEF FlowsKept
  <2>3. (\A x \in Workers \ {v} : given'[x][k] = 0) => Alone(v, k)
    <3>1. ASSUME NEW x \in Workers, given'[x][k] = 0
          PROVE  given[x][k] = 0
      <4>1. PICK i \in Nat, j \in Nat : i = given[x][k] /\ j = (IF x = w THEN Came(g, k) ELSE 0)
        BY <1>5 DEF Came
      <4>2. i + j = 0
        BY <1>5, <3>1, <4>1
      <4> QED
        BY <4>1, <4>2
    <3> QED
      BY <3>1 DEF Alone
  <2>4. CASE v = w
    <3>1. Flow(parent, s, q, k, n)
      BY <1>1, <2>2, <2>4
    <3>2. Regular(s) /\ Fine(q) /\ k \in Keys
      BY <1>1, <1>2, <1>5
    <3>3. Sends(s, g, t, out, k)
      BY <1>3, <3>2
    <3>4. /\ Flow(parent, t, q \o out, k, n + Came(g, k))
          /\ Lonely(parent, s, q, k) => Lonely(parent, t, q \o out, k)
      BY <1>2, <1>3, <3>1, <3>2, <3>3, FlowShips
    <3>5. given'[v][k] = n + Came(g, k)
      BY <1>5, <2>1, <2>4
    <3> QED
      BY <1>1, <1>9, <2>2, <2>3, <2>4, <3>4, <3>5
  <2>5. CASE v # w
    <3>1. given'[v][k] = n
      BY <1>5, <2>1, <2>5
    <3> QED
      BY <1>9, <2>2, <2>3, <2>5, <3>1
  <2> QED
    BY <2>4, <2>5
<1> QED
  BY <1>2, <1>4, <1>7, <1>8, <1>10, <1>11 DEF FlowsKept, Alone

LEMMA ElasticOnly ==
  ASSUME plan = "Elastic"
  PROVE  ~ CellPlan(plan) /\ plan # "Hll" /\ plan # "Coco"
BY DEF CellPlan, HeapPlans

LEMMA FlowsProcess ==
  ASSUME FlowsKept, Shares, plan = "Elastic", NEW w \in Workers, NEW g \in KeysOf[plan],
         Process(w, g)
  PROVE  FlowsKept'
<1>1. PICK r \in Outcomes(w, g) : Ships(w, r)
  BY DEF Process
<1>2. plan' = plan /\ parent' = parent /\ given' = [given EXCEPT ![w][g] = @ + 1]
  BY DEF Process
<1>3. r = ElasticInsert(held[w], g, tau)
  BY <1>1, ElasticOnly DEF Outcomes
<1>4. g \in Keys /\ Regular(held[w])
  BY WeightNat DEF FlowsKept
<1>5. Sending(held[w], g, r)
  BY <1>3, <1>4, InsertSends
<1>6. given \in [Workers -> [KeysOf[plan] -> Nat]]
  BY DEF Shares
<1>7. /\ \A v \in Workers : v # w => given'[v] = given[v]
      /\ given'[w] = [given[w] EXCEPT ![g] = @ + 1]
      /\ given' \in [Workers -> [KeysOf[plan] -> Nat]]
  <2>1. given[w] \in [KeysOf[plan] -> Nat] /\ given[w][g] + 1 \in Nat
    BY <1>6
  <2>2. [given[w] EXCEPT ![g] = @ + 1] \in [KeysOf[plan] -> Nat]
    BY <2>1
  <2> QED
    BY <1>2, <1>6, <2>2
<1>8. \A v \in Workers : \A k \in KeysOf[plan] :
        given'[v][k] = given[v][k] + (IF v = w THEN Came(g, k) ELSE 0)
  <2> SUFFICES ASSUME NEW v \in Workers, NEW k \in KeysOf[plan]
               PROVE  given'[v][k] = given[v][k] + (IF v = w THEN Came(g, k) ELSE 0)
    OBVIOUS
  <2>1. given[v] \in [KeysOf[plan] -> Nat] /\ given[v][k] \in Nat
    BY <1>6
  <2>2. CASE v = w /\ k = g
    BY <1>7, <2>1, <2>2 DEF Came
  <2>3. CASE v = w /\ k # g
    BY <1>7, <2>1, <2>3 DEF Came
  <2>4. CASE v # w
    BY <1>7, <2>1, <2>4
  <2> QED
    BY <2>2, <2>3, <2>4
<1>9. FlowShipment(w, g, r)
  BY <1>1, <1>2, <1>5, <1>7, <1>8 DEF FlowShipment, Ships
<1> QED
  BY <1>9, FlowsShipped

LEMMA FlowsFlush ==
  ASSUME FlowsKept, Shares, plan = "Elastic", NEW w \in Workers, Flush(w)
  PROVE  FlowsKept'
<1>1. PICK r : r = ElasticFlush(held[w])
  OBVIOUS
<1>2. /\ plan' = plan /\ parent' = parent /\ given' = given
      /\ Ships(w, FlushOf(w))
  BY DEF Flush
<1>3. FlushOf(w) = r
  BY <1>1, ElasticOnly DEF FlushOf
<1>4. Regular(held[w])
  BY DEF FlowsKept
<1>5. Sending(held[w], NoFlow, r)
  BY <1>1, <1>4, FlushSends
<1>6. given \in [Workers -> [KeysOf[plan] -> Nat]]
  BY DEF Shares
<1>7. \A v \in Workers : \A k \in KeysOf[plan] :
        given'[v][k] = given[v][k] + (IF v = w THEN Came(NoFlow, k) ELSE 0)
  <2> SUFFICES ASSUME NEW v \in Workers, NEW k \in KeysOf[plan]
               PROVE  given[v][k] = given[v][k] + (IF v = w THEN Came(NoFlow, k) ELSE 0)
    BY <1>2
  <2>1. k \in Keys /\ k # NoFlow
    BY WeightNat, ElasticFacts
  <2>2. Came(NoFlow, k) = 0 /\ given[v][k] \in Nat
    BY <1>6, <2>1 DEF Came
  <2> QED
    BY <2>2
<1>8. FlowShipment(w, NoFlow, r)
  BY <1>2, <1>3, <1>5, <1>6, <1>7 DEF FlowShipment, Ships
<1> QED
  BY <1>8, FlowsShipped

LEMMA FlowsApply ==
  ASSUME FlowsKept, Shares, plan = "Elastic", NEW w \in Workers, Apply(w)
  PROVE  FlowsKept'
<1>1. /\ plan' = plan /\ held' = held /\ given' = given
      /\ queue' = [queue EXCEPT ![w] = Tail(@)] /\ queue[w] # <<>>
      /\ parent' \in ParentOutcomes(Head(queue[w]))
  BY DEF Apply, Polled
<1>2. /\ held \in [Workers -> ElasticState] /\ queue \in [Workers -> Seq(ElasticDeltas)]
      /\ Merged(parent) /\ \A v \in Workers : Regular(held[v]) /\ Fine(queue[v])
  BY DEF FlowsKept
<1>3. PICK d, q : d = Head(q) /\ q = queue[w]
  OBVIOUS
<1>4. Fine(q) /\ q # <<>> /\ q \in Seq(ElasticDeltas)
  BY <1>1, <1>2, <1>3
<1>5. /\ Tail(q) \in Seq(ElasticDeltas) /\ 1 \in DOMAIN q /\ d = q[1]
      /\ \A i \in DOMAIN Tail(q) : i + 1 \in DOMAIN q /\ Tail(q)[i] = q[i + 1]
  <2>1. PICK S : S = ElasticDeltas
    OBVIOUS
  <2>2. q \in Seq(S)
    BY <1>4, <2>1
  <2>3. /\ Tail(q) \in Seq(S) /\ 1 \in DOMAIN q /\ Head(q) = q[1]
        /\ \A i \in DOMAIN Tail(q) : i + 1 \in DOMAIN q /\ Tail(q)[i] = q[i + 1]
    BY <1>4, <2>2, Shortened
  <2> QED
    BY <1>3, <2>1, <2>3
<1>6. Proper(d) /\ Fine(Tail(q))
  BY <1>4, <1>5 DEF Fine
<1>7. parent' = ElasticApplied(parent, d)
  BY <1>1, <1>3, ElasticOnly DEF ParentOutcomes
<1>8. Merged(parent') /\ \A k \in Keys : Takes(parent, d, parent', k)
  BY <1>2, <1>6, <1>7, AppliedTakes
<1>9. /\ queue' = [queue EXCEPT ![w] = Tail(q)] /\ queue'[w] = Tail(q)
      /\ \A v \in Workers : v # w => queue'[v] = queue[v]
  BY <1>1, <1>2, <1>3
<1>10. queue' \in [Workers -> Seq(ElasticDeltas)]
  BY <1>2, <1>5, <1>9
<1>11. \A v \in Workers : Fine(queue'[v])
  BY <1>2, <1>6, <1>9
<1>12. /\ KeysOf[plan] \subseteq Keys
       /\ \A v \in Workers : \A k \in KeysOf[plan] : given[v][k] \in Nat
  BY WeightNat DEF Shares
<1>13. ASSUME NEW v \in Workers, NEW k \in KeysOf[plan]
       PROVE  /\ Flow(parent', held[v], queue'[v], k, given[v][k])
              /\ Alone(v, k) => Lonely(parent', held[v], queue'[v], k)
  <2>1. PICK n \in Nat : n = given[v][k]
    BY <1>12
  <2>2. /\ Flow(parent, held[v], queue[v], k, n)
        /\ Alone(v, k) => Lonely(parent, held[v], queue[v], k)
    BY <2>1 DEF FlowsKept
  <2>3. k \in Keys /\ Takes(parent, d, parent', k) /\ Regular(held[v]) /\ Fine(queue[v])
    BY <1>2, <1>8, <1>12
  <2>4. CASE v = w
    <3>1. Flow(parent, held[v], q, k, n) /\ Fine(q)
      BY <1>3, <2>2, <2>3, <2>4
    <3>2. /\ Flow(parent', held[v], Tail(q), k, n)
          /\ Lonely(parent, held[v], q, k) => Lonely(parent', held[v], Tail(q), k)
      BY <1>2, <1>3, <1>4, <1>8, <2>3, <3>1, FlowTakes
    <3> QED
      BY <1>3, <1>9, <2>1, <2>2, <2>4, <3>2
  <2>5. CASE v # w
    <3>1. /\ Flow(parent', held[v], queue[v], k, n)
          /\ Lonely(parent, held[v], queue[v], k) /\ d \notin Plain(k)
               => Lonely(parent', held[v], queue[v], k)
      BY <1>2, <1>6, <1>8, <2>2, <2>3, FlowStands
    <3>2. Alone(v, k) => d \notin Plain(k)
      <4>1. Alone(v, k) => given[w][k] = 0
        BY <2>5 DEF Alone
      <4>2. Flow(parent, held[w], queue[w], k, given[w][k])
        BY DEF FlowsKept
      <4>3. Alone(v, k) => ~ Holds(q, About(k))
        BY <1>3, <4>1, <4>2 DEF Flow
      <4> QED
        BY <1>5, <4>3, TellsAbout DEF Holds
    <3> QED
      BY <1>9, <2>1, <2>2, <2>5, <3>1, <3>2
  <2> QED
    BY <2>4, <2>5
<1> QED
  BY <1>1, <1>2, <1>8, <1>10, <1>11, <1>13 DEF FlowsKept, Alone

LEMMA FlowsInit == Init => FlowsKept
<1> SUFFICES ASSUME Init, plan = "Elastic"
             PROVE  FlowsKept
  BY DEF FlowsKept
<1>1. /\ held = [w \in Workers |-> NoElastic] /\ parent = NoElastic
      /\ queue = [w \in Workers |-> <<>>]
      /\ given = [w \in Workers |-> [k \in KeysOf[plan] |-> 0]]
  <2>1. Fresh(plan) = NoElastic
    BY ElasticOnly DEF Fresh
  <2> QED
    BY <2>1 DEF Init
<1>2. KeysOf[plan] \subseteq Keys
  BY PlansAssumption DEF Init, PlansAssumption
<1>3. PICK s : s = NoElastic
  OBVIOUS
<1>4. /\ s.heavy = [b \in Buckets |-> Bucket(NoFlow, 0, 0, FALSE)]
      /\ s.light = [c \in LightCells |-> 0]
      /\ s = [heavy |-> s.heavy, light |-> s.light]
  BY <1>3 DEF NoElastic
<1>5. \A b \in Buckets : /\ s.heavy[b].id = NoFlow /\ s.heavy[b].pos = 0
                         /\ s.heavy[b].neg = 0 /\ s.heavy[b].flag = FALSE
                         /\ s.heavy[b] \in Bucks
  BY <1>4 DEF Bucket, Bucks
<1>6. s.heavy \in HeavyPart /\ s.light \in LightPart
  <2>1. PICK h : h = s.heavy
    OBVIOUS
  <2>2. h = [b \in Buckets |-> h[b]]
    BY <1>4, <2>1
  <2>3. \A b \in Buckets : h[b] \in Bucks /\ h[b].pos = 0
    BY <1>5, <2>1
  <2>4. h \in [Buckets -> Bucks]
    BY <2>2, <2>3
  <2>5. h \in HeavyPart
    BY <2>3, <2>4 DEF HeavyPart
  <2>6. s.light \in LightPart
    BY <1>4 DEF LightPart
  <2> QED
    BY <2>1, <2>5, <2>6
<1>7. s \in ElasticState
  BY <1>4, <1>6 DEF ElasticState
<1>8. \A c \in LightCells : s.light[c] = 0
  BY <1>4
<1>9. Regular(s) /\ Merged(s)
  BY <1>5, <1>7, <1>8 DEF Regular, Merged
<1>10. ASSUME NEW k \in Keys
       PROVE  Flow(s, s, <<>>, k, 0) /\ Lonely(s, s, <<>>, k)
  <2>1. BucketOf[k] \in Buckets /\ k # NoFlow
    BY ElasticFacts
  <2>2. Seat(s, k).id # k /\ ~ Unmarked(s, k) /\ PosOf(s, k) = 0
    BY <1>5, <2>1 DEF Seat, Unmarked, PosOf
  <2>3. \A D : ~ Holds(<<>>, D) /\ OnWay(<<>>, D) = 0
    BY OfNone
  <2>4. \A c \in LightOf[k] : s.light[c] = 0
    BY <1>8, ElasticFacts
  <2>5. \A i \in DOMAIN <<>> : FALSE
    OBVIOUS
  <2>6. \A c \in LightOf[k] :
          0 <= PosOf(s, k) + s.light[c] + OnWay(<<>>, KeyWay(k, c)) + PosOf(s, k) + s.light[c]
    BY <2>2, <2>3, <2>4
  <2>7. Flow(s, s, <<>>, k, 0)
    BY <2>2, <2>3, <2>5, <2>6 DEF Flow
  <2> QED
    BY <2>2, <2>3, <2>7 DEF Lonely
<1>11. held \in [Workers -> ElasticState] /\ queue \in [Workers -> Seq(ElasticDeltas)]
  <2>1. <<>> \in Seq(ElasticDeltas)
    OBVIOUS
  <2> QED
    BY <1>1, <1>3, <1>7, <2>1
<1>12. \A w \in Workers : held[w] = s /\ queue[w] = <<>>
                          /\ \A k \in KeysOf[plan] : given[w][k] = 0
  BY <1>1, <1>3
<1>13. parent = s
  BY <1>1, <1>3
<1>14. \A w \in Workers : Regular(held[w]) /\ Fine(queue[w])
  BY <1>9, <1>12, OfNone
<1>15. \A w \in Workers : \A k \in KeysOf[plan] :
         /\ Flow(parent, held[w], queue[w], k, given[w][k])
         /\ Lonely(parent, held[w], queue[w], k)
  BY <1>2, <1>10, <1>12, <1>13
<1> QED
  BY <1>9, <1>11, <1>13, <1>14, <1>15 DEF FlowsKept

LEMMA FlowsStep ==
  ASSUME PlanInv, PlanInv', FlowsKept, [Next]_vars
  PROVE  FlowsKept'
<1>1. Shares /\ Shares'
  BY DEF PlanInv
<1>2. CASE returned'
  <2>1. plan' \in TopKPlans
    BY <1>1, <1>2 DEF Shares
  <2>2. plan' # "Elastic"
    BY <2>1 DEF TopKPlans
  <2> QED
    BY <2>2 DEF FlowsKept
<1>3. CASE UNCHANGED streamVars
  <2>1. plan' = plan /\ held' = held /\ queue' = queue /\ parent' = parent /\ given' = given
    BY <1>3 DEF streamVars
  <2> QED
    BY <2>1 DEF FlowsKept, Alone
<1>4. CASE StreamStep /\ plan' = plan
  <2>1. CASE plan = "Elastic"
    <3>1. PICK w \in Workers : (\E k \in KeysOf[plan] : Process(w, k)) \/ Flush(w) \/ Apply(w)
      BY <1>4 DEF StreamStep
    <3> QED
      BY <1>1, <2>1, <3>1, FlowsProcess, FlowsFlush, FlowsApply
  <2>2. CASE plan # "Elastic"
    BY <1>4, <2>2 DEF FlowsKept
  <2> QED
    BY <2>1, <2>2
<1> QED
  BY <1>1, <1>2, <1>3, <1>4, StepsOfStream

LEMMA LightRowsThere == LightRows # {}
<1>1. PICK o, S : o = LightOrder /\ o \in Seq(S)
  BY ElasticFacts DEF Row
<1>2. o # <<>>
  BY <1>1, ElasticAssumption DEF ElasticAssumption
<1>3. 1 \in DOMAIN o
  BY <1>1, <1>2
<1>4. o[1] \in LightCells
  BY <1>1, <1>3 DEF LightCells, ToSet
<1> QED
  BY <1>4 DEF LightRows

\* A worker that holds no weight in any row holds none of any flow.
LEMMA NothingHeld ==
  ASSUME NEW s, Regular(s), \A row \in LightRows : ElasticMass(s, row) = 0, NEW k \in Keys
  PROVE  PosOf(s, k) = 0 /\ \A c \in LightOf[k] : s.light[c] = 0
<1>1. PICK f : f = Votes(s.heavy)
  OBVIOUS
<1>2. s.heavy \in HeavyPart /\ s.light \in LightPart
  BY DEF Regular, ElasticState
<1>3. f \in [Buckets -> Int] /\ \A b \in Buckets : f[b] = s.heavy[b].pos
  BY <1>1, <1>2, VotesTyped DEF Votes
<1>4. f \in [Buckets -> Nat]
  <2>1. \A b \in Buckets : f[b] \in Int /\ f[b] >= 0
    BY <1>3 DEF Regular
  <2>2. \A b \in Buckets : f[b] \in Nat
    BY <2>1
  <2> QED
    BY <1>3, <2>2
<1>5. SumOf(f) \in Nat
  BY <1>4, ElasticFacts, SumIsNat
<1>6. ASSUME NEW c \in LightCells
      PROVE  SumOf(f) = 0 /\ s.light[c] = 0
  <2>1. PICK R : R = RowCells(c[1])
    OBVIOUS
  <2>2. c \in R /\ R \subseteq LightCells /\ IsFiniteSet(R) /\ c[1] \in LightRows
    BY <2>1, RowCellsFacts DEF RowCells, LightRows
  <2>3. PICK g : g = PartOf(s.light, R)
    OBVIOUS
  <2>4. g \in [R -> Int] /\ \A x \in R : g[x] = s.light[x]
    BY <1>2, <2>1, <2>3, RowPart DEF PartOf
  <2>5. g \in [R -> Nat]
    <3>1. \A x \in R : g[x] \in Int /\ g[x] >= 0
      BY <2>2, <2>4 DEF Regular
    <3>2. \A x \in R : g[x] \in Nat
      BY <3>1
    <3> QED
      BY <2>4, <3>2
  <2>6. SumOf(g) \in Nat
    BY <2>2, <2>5, SumIsNat
  <2>7. PICK rest \in Nat : SumOf(g) = g[c] + rest
    <3>1. SumOf(g) = g[c] + SumsOf(g)[R \ {c}] /\ SumsOf(g)[R \ {c}] \in Nat
      BY <2>2, <2>5, SumTakes
    <3> QED
      BY <3>1
  <2>8. SumOf(f) + SumOf(g) = 0
    BY <1>1, <2>1, <2>2, <2>3, ElasticMassIs DEF RowMass
  <2>9. PICK x \in Nat : x = g[c]
    BY <2>2, <2>5
  <2>10. PICK a \in Nat, b \in Nat : a = SumOf(f) /\ b = SumOf(g)
    BY <1>5, <2>6
  <2>11. a + b = 0 /\ b = x + rest
    BY <2>7, <2>8, <2>9, <2>10
  <2>12. a = 0 /\ x = 0
    BY <2>11
  <2> QED
    BY <2>2, <2>4, <2>9, <2>10, <2>12
<1>7. LightCells # {}
  BY LightRowsThere DEF LightRows
<1>8. SumOf(f) = 0
  BY <1>6, <1>7
<1>9. BucketOf[k] \in Buckets
  BY ElasticFacts
<1>10. s.heavy[BucketOf[k]].pos = 0
  <2>1. PICK b : b = BucketOf[k]
    OBVIOUS
  <2>2. b \in Buckets
    BY <1>9, <2>1
  <2>3. PICK rest \in Nat : SumOf(f) = f[b] + rest
    <3>1. SumOf(f) = f[b] + SumsOf(f)[Buckets \ {b}] /\ SumsOf(f)[Buckets \ {b}] \in Nat
      BY <1>4, <2>2, ElasticFacts, SumTakes
    <3> QED
      BY <3>1
  <2>4. PICK x \in Nat : x = f[b]
    BY <1>4, <2>2
  <2>5. x + rest = 0
    BY <1>8, <2>3, <2>4
  <2>6. x = 0
    BY <2>5
  <2> QED
    BY <1>3, <2>1, <2>2, <2>4, <2>6
<1> QED
  BY <1>6, <1>10, ElasticFacts DEF PosOf, Seat

\* The light estimate is one of the flow's counters.
LEMMA LightEstimate ==
  ASSUME NEW p, Regular(p), NEW k \in Keys
  PROVE  \E c \in LightOf[k] : Min({p.light[x] : x \in LightOf[k]}) = p.light[c]
<1>1. PICK V : V = {p.light[x] : x \in LightOf[k]}
  OBVIOUS
<1>2. \A c \in LightOf[k] : p.light[c] \in Nat
  BY LightFacts
<1>3. PICK c : c \in LightOf[k]
  <2>1. DOMAIN BucketOf = Keys
    BY PlansAssumption DEF PlansAssumption
  <2>2. LightRows # {}
    BY LightRowsThere
  <2>3. \A r \in LightRows : \E x \in LightOf[k] : {d \in LightOf[k] : d[1] = r} = {x}
    BY <2>1, ElasticAssumption DEF ElasticAssumption
  <2> QED
    BY <2>2, <2>3
<1>4. V \in SUBSET Nat /\ V # {}
  BY <1>1, <1>2, <1>3
<1>5. Min(V) \in V
  BY <1>4, MinOf
<1> QED
  BY <1>1, <1>5

LEMMA FlowEstimate ==
  ASSUME NEW p, Merged(p), NEW s, Regular(s), NEW k \in Keys, NEW n \in Nat,
         \A row \in LightRows : ElasticMass(s, row) = 0,
         Flow(p, s, <<>>, k, n), Lonely(p, s, <<>>, k)
  PROVE  Query(p, k) \in Nat /\ n <= Query(p, k)
<1>1. Regular(p)
  BY DEF Merged
<1>2. PICK u : u = Seat(p, k)
  OBVIOUS
<1>3. u \in Bucks /\ u.pos \in Nat /\ u.flag \in BOOLEAN /\ BucketOf[k] \in Buckets /\ k # NoFlow
  BY <1>1, <1>2, SeatFacts
<1>4. u.id = k => u.pos >= 1
  BY <1>2, <1>3 DEF Merged, Seat
<1>5. Resident(p, k) <=> u.id = k
  BY <1>2, <1>3, <1>4 DEF Resident, Seat
<1>6. PICK least : least = Min({p.light[x] : x \in LightOf[k]})
  OBVIOUS
<1>7. Query(p, k) = (IF u.id = k THEN u.pos ELSE 0)
                    + (IF u.id = k /\ ~ u.flag THEN 0 ELSE least)
  BY <1>2, <1>5, <1>6 DEF Query, Seat
<1>8. PICK c \in LightOf[k] : least = p.light[c]
  BY <1>1, <1>6, LightEstimate
<1>9. least \in Nat
  BY <1>1, <1>8, LightFacts
<1>10. PosOf(s, k) = 0 /\ s.light[c] = 0
  BY NothingHeld
<1>11. \A D : ~ Holds(<<>>, D) /\ OnWay(<<>>, D) = 0
  BY OfNone
<1>12. PICK m \in Nat : m = PosOf(p, k) /\ m = IF u.id = k THEN u.pos ELSE 0
  BY <1>2, <1>3 DEF PosOf
<1>13. CASE Unmarked(p, k)
  <2>1. Unmarked(s, k)
    BY <1>11, <1>13 DEF Lonely
  <2>2. n <= PosOf(p, k) + OnWay(<<>>, Plain(k)) + PosOf(s, k)
    BY <1>13, <2>1 DEF Flow
  <2>3. n <= m
    BY <1>10, <1>11, <1>12, <2>2
  <2>4. Query(p, k) = m
    BY <1>2, <1>7, <1>12, <1>13 DEF Unmarked
  <2> QED
    BY <2>3, <2>4
<1>14. CASE ~ Unmarked(p, k)
  <2>1. n <= PosOf(p, k) + p.light[c] + OnWay(<<>>, KeyWay(k, c)) + PosOf(s, k) + s.light[c]
    BY DEF Flow
  <2>2. n <= m + least
    BY <1>8, <1>9, <1>10, <1>11, <1>12, <2>1
  <2>3. Query(p, k) = m + least
    BY <1>2, <1>7, <1>12, <1>14 DEF Unmarked
  <2> QED
    BY <1>9, <2>2, <2>3
<1> QED
  BY <1>13, <1>14

\* Of a flow that visits one worker, that worker was given all.
LEMMA GivenAlone ==
  ASSUME Shares, NEW w \in Workers, NEW k \in KeysOf[plan], Alone(w, k)
  PROVE  Given(k) = given[w][k] /\ given[w][k] \in Nat
<1>1. PICK f : f = [v \in Workers |-> given[v][k]]
  OBVIOUS
<1>2. \A v \in Workers : given[v][k] \in Nat
  BY DEF Shares
<1>3. f \in [Workers -> Int] /\ \A v \in Workers : v # w => f[v] = 0
  BY <1>1, <1>2 DEF Alone
<1>4. SumOf(f) = f[w]
  BY <1>3, WorkersFinite, IntSumOfOne
<1>5. Given(k) = SumOf(f)
  BY <1>1, SumOverIs DEF Given
<1> QED
  BY <1>1, <1>2, <1>4, <1>5

\* Elastic: once the workers are flushed and everything is applied, a flow
\* that visits one worker only is estimated at no less than what it was given,
\* whatever buckets it won and lost on either side, under every interleaving.
THEOREM NeverUnderCorrect == Spec => []NeverUnder
<1>1. PlanInv /\ FlowsKept => NeverUnder
  <2> SUFFICES ASSUME PlanInv, FlowsKept, plan = "Elastic", Drained,
                      \A w \in Workers, row \in LightRows : ElasticMass(held[w], row) = 0,
                      NEW k \in KeysOf[plan],
                      NEW w \in Workers, \A v \in Workers \ {w} : given[v][k] = 0
               PROVE  Query(parent, k) >= Given(k)
    BY DEF NeverUnder
  <2>1. Shares
    BY DEF PlanInv
  <2>2. Alone(w, k)
    BY DEF Alone
  <2>3. PICK n \in Nat : n = Given(k) /\ n = given[w][k]
    BY <2>1, <2>2, GivenAlone
  <2>4. /\ Merged(parent) /\ Regular(held[w]) /\ queue[w] = <<>>
        /\ Flow(parent, held[w], queue[w], k, n) /\ Lonely(parent, held[w], queue[w], k)
    BY <2>2, <2>3 DEF FlowsKept, Drained
  <2>5. k \in Keys
    BY <2>1, WeightNat
  <2>6. PICK m \in Nat : m = Query(parent, k) /\ n <= m
    BY <2>4, <2>5, FlowEstimate
  <2> QED
    BY <2>3, <2>6
<1>2. Init => FlowsKept
  BY FlowsInit
<1>3. PlanInv /\ PlanInv' /\ FlowsKept /\ [Next]_vars => FlowsKept'
  BY FlowsStep
<1>4. Spec => []PlanInv
  BY PlanInvariant
<1> QED
  BY <1>1, <1>2, <1>3, <1>4, PTL DEF Spec

===============================================================================

-------------------------------- MODULE HHHeap --------------------------------
(***************************************************************************)
(* The heavy-hitter heap of src/src/common/heap.rs over the CommonHeap of  *)
(* src/src/common/structures/heap.rs: the K keys with the largest counts   *)
(* in a min-heap, and beside it an index from a key's digest to the places *)
(* of the keys with that digest.  The index is patched through every swap  *)
(* of a sift, so a sift is one step per swap here; whoever owns the heap   *)
(* holds it until the sift has come to rest.  Places count from 1.         *)
(***************************************************************************)
EXTENDS Integers, Sequences, FiniteSets

CONSTANTS
  Keys,
  Digest,   \* [Keys -> digests]; two keys may have one digest
  K         \* capacity

Digests == {Digest[k] : k \in Keys}

ASSUME HeapAssumption ==
  /\ K \in Nat
  /\ Digest = [k \in Keys |-> Digest[k]]

VARIABLES
  heap,       \* [key, count] by place
  slots,      \* digest of the key at each place
  positions,  \* digest -> places of the keys with it
  sift        \* which way a sift goes, where it stands, where it began

heapVars == <<heap, slots, positions, sift>>

Rest == [way |-> "rest", at |-> 0, from |-> 0]
Resting == sift = Rest

Places == 1..Len(heap)
Child(p, c) == c = 2 * p \/ c = 2 * p + 1

HeapInit ==
  /\ heap = <<>>
  /\ slots = <<>>
  /\ positions = [d \in Digests |-> {}]
  /\ sift = Rest

(***************************************************************************)
(* The index.                                                              *)
(***************************************************************************)
Matches(k) == {i \in positions[Digest[k]] : heap[i].key = k}

Listed(index, d, i) == [index EXCEPT ![d] = @ \cup {i}]
Dropped(index, d, i) == [index EXCEPT ![d] = @ \ {i}]

Moved(places, from, to) ==
  IF from \in places THEN (places \ {from}) \cup {to} ELSE places

\* Slip: only the entry of the key that goes down follows it.
SwappedIndex_OneWay(i, j) ==
  [positions EXCEPT ![slots[i]] = Moved(@, i, j)]
SwappedIndex(i, j) ==
  IF slots[i] = slots[j] THEN positions
  ELSE [positions EXCEPT ![slots[i]] = Moved(@, i, j),
                         ![slots[j]] = Moved(@, j, i)]

Swapped(s, i, j) == [s EXCEPT ![i] = s[j], ![j] = s[i]]

SwapEntries(i, j) ==
  /\ heap' = Swapped(heap, i, j)
  /\ slots' = Swapped(slots, i, j)
  /\ positions' = SwappedIndex(i, j)

(***************************************************************************)
(* update: a resident is rescored, another key is seated while there is    *)
(* room, or takes the root's place when it counts more.                    *)
(***************************************************************************)
Entry(k, n) == [key |-> k, count |-> n]

Rescore(k, n) ==
  \E i \in Matches(k) :
    /\ heap' = [heap EXCEPT ![i] = Entry(k, n)]
    /\ sift' = [way |-> "down", at |-> i, from |-> i]
    /\ UNCHANGED <<slots, positions>>

SeatLast(k, n) ==
  /\ Matches(k) = {}
  /\ Len(heap) < K
  /\ heap' = heap \o <<Entry(k, n)>>
  /\ slots' = slots \o <<Digest[k]>>
  /\ positions' = Listed(positions, Digest[k], Len(heap) + 1)
  /\ sift' = [way |-> "up", at |-> Len(heap) + 1, from |-> Len(heap) + 1]

\* Slip: a full heap seats every arrival.
Accepts_Any(n) == K > 0
Accepts(n) == K > 0 /\ n > heap[1].count

SeatAtRoot(k, n) ==
  /\ Matches(k) = {}
  /\ Len(heap) >= K
  /\ Accepts(n)
  /\ heap' = [heap EXCEPT ![1] = Entry(k, n)]
  /\ slots' = [slots EXCEPT ![1] = Digest[k]]
  /\ positions' = Listed(Dropped(positions, slots[1], 1), Digest[k], 1)
  /\ sift' = [way |-> "down", at |-> 1, from |-> 1]

TurnAway(k, n) ==
  /\ Matches(k) = {}
  /\ Len(heap) >= K
  /\ ~Accepts(n)
  /\ UNCHANGED heapVars

Update(k, n) ==
  /\ Resting
  /\ Rescore(k, n) \/ SeatLast(k, n) \/ SeatAtRoot(k, n) \/ TurnAway(k, n)

\* What update returns: no key has been turned away or displaced by it.
RetainsAll(k) == Matches(k) # {} \/ Len(heap) < K

(***************************************************************************)
(* Sifts.  Down, the smaller child is taken; a sift down that moved        *)
(* nothing is followed by one up, which ends at once at the root.          *)
(***************************************************************************)
Lighter(i, j) == heap[i].count < heap[j].count

Chosen(p, c) ==
  /\ Child(p, c)
  /\ Lighter(c, p)
  /\ \A d \in Places :
       /\ Child(p, d) /\ c < d => ~Lighter(d, c)
       /\ Child(p, d) /\ d < c => Lighter(c, d)

SiftDown ==
  /\ sift.way = "down"
  /\ \E c \in Places :
       /\ Chosen(sift.at, c)
       /\ SwapEntries(sift.at, c)
       /\ sift' = [sift EXCEPT !.at = c]

TurnsUp == sift.at = sift.from

SiftDownEnds ==
  /\ sift.way = "down"
  /\ \A c \in Places : Child(sift.at, c) => ~Lighter(c, sift.at)
  /\ sift' = IF TurnsUp THEN [sift EXCEPT !.way = "up"] ELSE Rest
  /\ UNCHANGED <<heap, slots, positions>>

SiftUp ==
  /\ sift.way = "up"
  /\ \E p \in Places :
       /\ Child(p, sift.at)
       /\ Lighter(sift.at, p)
       /\ SwapEntries(p, sift.at)
       /\ sift' = [sift EXCEPT !.at = p]

SiftUpEnds ==
  /\ sift.way = "up"
  /\ \A p \in Places : Child(p, sift.at) => ~Lighter(sift.at, p)
  /\ sift' = Rest
  /\ UNCHANGED <<heap, slots, positions>>

Sift == SiftDown \/ SiftDownEnds \/ SiftUp \/ SiftUpEnds

(***************************************************************************)
(* clear, and a round trip through the serialised form, which carries the  *)
(* heap array alone: the index is rebuilt from it.                         *)
(***************************************************************************)
Clear ==
  /\ Resting
  /\ heap' = <<>>
  /\ slots' = <<>>
  /\ positions' = [d \in Digests |-> {}]
  /\ UNCHANGED sift

Reload ==
  /\ Resting
  /\ slots' = [i \in Places |-> Digest[heap[i].key]]
  /\ positions' =
       [d \in Digests |-> {i \in Places : Digest[heap[i].key] = d}]
  /\ UNCHANGED <<heap, sift>>

HeapNext ==
  \/ \E k \in Keys, n \in Int : Update(k, n)
  \/ Sift
  \/ Clear
  \/ Reload

HeapSpec == HeapInit /\ [][HeapNext]_heapVars

(***************************************************************************)
(* Properties.                                                             *)
(***************************************************************************)
KeysOnce == \A i, j \in Places : heap[i].key = heap[j].key => i = j

IndexAgrees ==
  /\ Len(slots) = Len(heap)
  /\ \A i \in Places : slots[i] = Digest[heap[i].key]
  /\ \A d \in Digests :
       positions[d] = {i \in Places : Digest[heap[i].key] = d}

HeapOrdered == \A p, c \in Places : Child(p, c) => ~Lighter(c, p)

\* The index names every resident at its place, through every swap of every
\* sift and whichever digests are shared, no key has two places, the heap
\* stays within its capacity, and whenever no sift is under way no child
\* counts less than its parent.
HeapSound ==
  /\ KeysOnce
  /\ IndexAgrees
  /\ Len(heap) <= K
  /\ Resting => HeapOrdered

===============================================================================

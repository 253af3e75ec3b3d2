----------------------------- MODULE ElasticPlan -----------------------------
(***************************************************************************)
(* The Elastic sketch as an Octo plan: the worker's heavy buckets and      *)
(* light counters (src/src/sketch_framework/octo.rs 614 to 785) and the    *)
(* parent they are merged into (src/src/sketches/elastic.rs).              *)
(***************************************************************************)
EXTENDS CellPlans

CONSTANTS
  Lambda,      \* votes against, per vote for, that cost a flow its bucket
  BucketOrder, \* the heavy buckets, in the order of a flush
  BucketOf,    \* key -> its heavy bucket
  LightOrder,  \* cells <<row, column>> of the light part, in the order of a flush
  LightOf,     \* key -> its cells in the light part
  NoFlow       \* no flow id

Buckets == ToSet(BucketOrder)
LightCells == ToSet(LightOrder)
LightRows == {c[1] : c \in LightCells}

\* A flow has one cell in every row of the light part.
ASSUME ElasticAssumption ==
  /\ Lambda \in Nat
  /\ BucketOrder \in Seq(Buckets) /\ Visits(BucketOrder)
  /\ LightOrder \in Seq(Nat \X Nat) /\ Visits(LightOrder) /\ LightOrder # <<>>
  /\ \A k \in DOMAIN BucketOf : BucketOf[k] \in Buckets
  /\ \A k \in DOMAIN BucketOf :
       /\ LightOf[k] \subseteq LightCells
       /\ \A r \in LightRows : \E c \in LightOf[k] :
            {d \in LightOf[k] : d[1] = r} = {c}
  /\ NoFlow \notin DOMAIN BucketOf

Bucket(id, pos, neg, flag) ==
  [id |-> id, pos |-> pos, neg |-> neg, flag |-> flag]

NoElastic ==
  [heavy |-> [b \in Buckets |-> Bucket(NoFlow, 0, 0, FALSE)],
   light |-> [c \in LightCells |-> 0]]

Heavy(k, n, flag) ==
  [kind |-> "heavy", key |-> k, value |-> n, flag |-> flag]
Evicted(k, n) == [kind |-> "evicted", key |-> k, value |-> n]
Light(parcels) ==
  [i \in DOMAIN parcels |-> [kind |-> "light", cell |-> parcels[i].cell,
                             value |-> parcels[i].value]]

Opposed(b, n) == [b EXCEPT !.neg = @ + n]
Withstands(b) == b.neg < Lambda * b.pos

(***************************************************************************)
(* The worker.                                                             *)
(***************************************************************************)
\* The bucket as it is left, and the message it may send before that.
Promoted(s, k, b, before, tau) ==
  LET due == b.pos >= tau
  IN [held |-> [s EXCEPT !.heavy[BucketOf[k]] =
                  IF due THEN [b EXCEPT !.pos = 0] ELSE b],
      out  |-> before \o (IF due THEN <<Heavy(b.id, b.pos, b.flag)>>
                          ELSE <<>>)]

Spilled(s, k, b, tau) ==
  LET bump == [c \in LightCells |-> IF c \in LightOf[k] THEN 1 ELSE 0]
      taus == [c \in LightCells |-> tau]
  IN [held |-> [heavy |-> [s.heavy EXCEPT ![BucketOf[k]] = b],
                light |-> Held(s.light, bump, taus)],
      out  |-> Light(Shipped(LightOrder, s.light, bump, taus))]

Farewell(b) == <<Evicted(b.id, b.pos)>>

ElasticInsert(s, k, tau) ==
  LET b == s.heavy[BucketOf[k]]
  IN CASE b.id = NoFlow -> Promoted(s, k, Bucket(k, 1, 0, FALSE), <<>>, tau)
       [] b.id = k -> Promoted(s, k, [b EXCEPT !.pos = @ + 1], <<>>, tau)
       [] b.id \notin {NoFlow, k} /\ Withstands(Opposed(b, 1)) ->
            Spilled(s, k, Opposed(b, 1), tau)
       [] OTHER -> Promoted(s, k, Bucket(k, 1, 1, TRUE), Farewell(b), tau)

ElasticFlush(s) ==
  LET full == InOrder(BucketOrder, {b \in Buckets : s.heavy[b].pos # 0})
  IN [held |-> [heavy |-> [b \in Buckets |-> [s.heavy[b] EXCEPT !.pos = 0]],
                light |-> Emptied(s.light)],
      out  |-> [i \in DOMAIN full |->
                  Heavy(s.heavy[full[i]].id, s.heavy[full[i]].pos,
                        s.heavy[full[i]].flag)]
               \o Light(Residue(LightOrder, s.light))]

(***************************************************************************)
(* The parent.  Here a bucket without votes is vacant.                     *)
(***************************************************************************)
LightAdded(light, k, n) ==
  [c \in LightCells |-> light[c] + (IF c \in LightOf[k] THEN n ELSE 0)]

InsertMany(p, k, n) ==
  LET b == p.heavy[BucketOf[k]]
      Left(c) == [p.heavy EXCEPT ![BucketOf[k]] = c]
  IN CASE b.pos = 0 ->
            [p EXCEPT !.heavy = Left(Bucket(k, n, 0, b.flag))]
       [] b.pos # 0 /\ b.id = k ->
            [p EXCEPT !.heavy = Left([b EXCEPT !.pos = @ + n])]
       [] b.pos # 0 /\ b.id # k /\ Withstands(Opposed(b, n)) ->
            [heavy |-> Left(Opposed(b, n)),
             light |-> LightAdded(p.light, k, n)]
       [] OTHER ->
            [heavy |-> Left(Bucket(k, n, n, TRUE)),
             light |-> LightAdded(p.light, b.id, b.pos)]

Resident(p, k) == LET b == p.heavy[BucketOf[k]] IN b.pos # 0 /\ b.id = k

Flagged(p, k) ==
  IF Resident(p, k) THEN [p EXCEPT !.heavy[BucketOf[k]].flag = TRUE] ELSE p

\* Slip: the sender's flag is dropped.
MergeHeavy_NoFlag(p, k, n, flag) == InsertMany(p, k, n)
MergeHeavy(p, k, n, flag) ==
  IF flag THEN Flagged(InsertMany(p, k, n), k) ELSE InsertMany(p, k, n)

AbsorbEvicted(p, k, n) ==
  Flagged([p EXCEPT !.light = LightAdded(@, k, n)], k)

ElasticApplied(p, d) ==
  CASE d.kind = "heavy" -> MergeHeavy(p, d.key, d.value, d.flag)
    [] d.kind = "evicted" -> AbsorbEvicted(p, d.key, d.value)
    [] d.kind = "light" -> [p EXCEPT !.light = AddTo(@, d)]

Query(p, k) ==
  LET b == p.heavy[BucketOf[k]]
      light == Min({p.light[c] : c \in LightOf[k]})
  IN (IF Resident(p, k) THEN b.pos ELSE 0)
     + (IF Resident(p, k) /\ ~b.flag THEN 0 ELSE light)

===============================================================================

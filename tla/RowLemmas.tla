--------------------------------- MODULE RowLemmas ---------------------------------
(***************************************************************************)
(* Facts on sequences, least numbers and sums that the other proofs share. *)
(* What a bucket of a histogram caches need not have a type, so a row of   *)
(* buckets is a sequence over whatever set its buckets are from.           *)
(***************************************************************************)
EXTENDS Integers, Sequences, FiniteSets, FiniteSetsExt,
        FiniteSetTheorems, WellFoundedInduction, TLAPS

Row(p) == \E S : p \in Seq(S)

(* A set of naturals has a least element.                                  *)
LEMMA LeastNumber ==
  ASSUME NEW T \in SUBSET Nat, T # {}
  PROVE  \E x \in T : \A y \in T : x <= y
<1> DEFINE R == OpToRel(<, Nat)
<1>1. IsWellFoundedOn(R, Nat)
  BY NatLessThanWellFounded
<1>2. \A x, y \in Nat : <<y, x>> \in R <=> y < x
  BY DEF OpToRel
<1> HIDE DEF R
<1>3. PICK x \in T : \A y \in T : ~ (<<y, x>> \in R)
  BY <1>1, WFMin
<1>4. ASSUME NEW y \in T
      PROVE  x <= y
  <2>1. x \in Nat /\ y \in Nat /\ ~ (<<y, x>> \in R)
    BY <1>3
  <2>2. ~ (y < x)
    BY <1>2, <2>1
  <2> QED
    BY <2>1, <2>2
<1> QED
  BY <1>4

(* A bounded set of naturals has a greatest element.                       *)
LEMMA GreatestNumber ==
  ASSUME NEW n \in Nat, NEW T \in SUBSET (1..n), T # {}
  PROVE  \E x \in T : \A y \in T : y <= x
<1> DEFINE U == {n - i : i \in T}
<1>1. U \in SUBSET Nat /\ U # {}
  <2>1. \A i \in T : n - i \in Nat
    OBVIOUS
  <2> QED
    BY <2>1
<1>2. PICK u \in U : \A y \in U : u <= y
  BY <1>1, LeastNumber
<1>3. PICK x \in T : u = n - x
  BY <1>2
<1>4. ASSUME NEW y \in T
      PROVE  y <= x
  <2>1. n - y \in U
    OBVIOUS
  <2>2. n - x <= n - y /\ x \in 1..n /\ y \in 1..n
    BY <1>2, <1>3, <2>1
  <2> QED
    BY <2>2
<1> QED
  BY <1>4

(* Min and Max of the community module find the ends of a set of indices.  *)
LEMMA MinOf ==
  ASSUME NEW T \in SUBSET Nat, T # {}
  PROVE  Min(T) \in T /\ \A y \in T : Min(T) <= y
BY LeastNumber DEF Min

LEMMA MaxOf ==
  ASSUME NEW n \in Nat, NEW T \in SUBSET (1..n), T # {}
  PROVE  Max(T) \in T
BY GreatestNumber DEF Max

(***************************************************************************)
(* Rows.                                                                   *)
(***************************************************************************)
LEMMA RowFacts ==
  ASSUME NEW p, Row(p)
  PROVE  Len(p) \in Nat /\ DOMAIN p = 1..Len(p)
BY DEF Row

LEMMA AppendRow ==
  ASSUME NEW p, Row(p), NEW e
  PROVE  /\ Row(Append(p, e))
         /\ Len(Append(p, e)) = Len(p) + 1
         /\ \A i \in 1..Len(p) : Append(p, e)[i] = p[i]
         /\ Append(p, e)[Len(p) + 1] = e
<1>1. PICK S : p \in Seq(S)
  BY DEF Row
<1> DEFINE T == S \cup {e}
<1>2. p \in Seq(T) /\ e \in T
  BY <1>1
<1>3. Append(p, e) \in Seq(T)
  BY <1>2
<1> QED
  BY <1>2, <1>3 DEF Row

LEMMA SuffixRow ==
  ASSUME NEW p, Row(p), NEW d \in 1..Len(p)
  PROVE  /\ Row(SubSeq(p, d, Len(p)))
         /\ Len(SubSeq(p, d, Len(p))) = Len(p) - d + 1
         /\ \A i \in 1..(Len(p) - d + 1) : SubSeq(p, d, Len(p))[i] = p[i + d - 1]
<1>1. PICK S : p \in Seq(S)
  BY DEF Row
<1>2. Len(p) \in Nat
  BY <1>1
<1>3. SubSeq(p, d, Len(p)) \in Seq(S)
  BY <1>1, <1>2
<1> QED
  BY <1>1, <1>2, <1>3 DEF Row

LEMMA ConcatRow ==
  ASSUME NEW S, NEW a \in Seq(S), NEW b \in Seq(S)
  PROVE  /\ a \o b \in Seq(S)
         /\ Len(a \o b) = Len(a) + Len(b)
         /\ \A i \in 1..Len(a) : (a \o b)[i] = a[i]
         /\ \A i \in (Len(a) + 1)..(Len(a) + Len(b)) : (a \o b)[i] = b[i - Len(a)]
OBVIOUS

(* Replacing neighbours k and k + 1 by one element.                        *)
Spliced(p, e, k) == SubSeq(p, 1, k - 1) \o <<e>> \o SubSeq(p, k + 2, Len(p))

LEMMA SplicedRow ==
  ASSUME NEW p, Row(p), NEW e, NEW k \in 1..(Len(p) - 1)
  PROVE  /\ Row(Spliced(p, e, k))
         /\ Len(Spliced(p, e, k)) = Len(p) - 1
         /\ \A i \in 1..(k - 1) : Spliced(p, e, k)[i] = p[i]
         /\ Spliced(p, e, k)[k] = e
         /\ \A i \in (k + 1)..(Len(p) - 1) : Spliced(p, e, k)[i] = p[i + 1]
<1> DEFINE q == Spliced(p, e, k)
<1>1. PICK S : p \in Seq(S)
  BY DEF Row
<1> DEFINE T == S \cup {e}
           a == SubSeq(p, 1, k - 1)
           b == SubSeq(p, k + 2, Len(p))
<1>2. p \in Seq(T) /\ Len(p) \in Nat /\ e \in T /\ k \in Nat
  BY <1>1
<1>3. a \in Seq(T) /\ Len(a) = k - 1 /\ \A i \in 1..(k - 1) : a[i] = p[i]
  BY <1>2
<1>4. b \in Seq(T) /\ Len(b) = Len(p) - k - 1 /\ \A i \in 1..(Len(p) - k - 1) : b[i] = p[i + k + 1]
  BY <1>2
<1>5. <<e>> \in Seq(T) /\ Len(<<e>>) = 1 /\ <<e>>[1] = e
  BY <1>2
<1> HIDE DEF T, a, b
<1> DEFINE c == a \o <<e>>
<1>6. /\ c \in Seq(T)
      /\ Len(c) = k
      /\ \A i \in 1..(k - 1) : c[i] = a[i]
      /\ c[k] = e
  <2>1. /\ c \in Seq(T)
        /\ Len(c) = Len(a) + 1
        /\ \A i \in 1..Len(a) : c[i] = a[i]
        /\ \A i \in (Len(a) + 1)..(Len(a) + 1) : c[i] = <<e>>[i - Len(a)]
    <3>1. PICK one : one = <<e>>
      OBVIOUS
    <3>2. a \in Seq(T) /\ one \in Seq(T) /\ Len(one) = 1
      BY <1>3, <1>5, <3>1
    <3>3. /\ a \o one \in Seq(T)
          /\ Len(a \o one) = Len(a) + Len(one)
          /\ \A i \in 1..Len(a) : (a \o one)[i] = a[i]
          /\ \A i \in (Len(a) + 1)..(Len(a) + Len(one)) : (a \o one)[i] = one[i - Len(a)]
      BY <3>2, ConcatRow
    <3> QED
      BY <3>1, <3>2, <3>3
  <2>2. k \in (Len(a) + 1)..(Len(a) + 1) /\ k - Len(a) = 1
    BY <1>2, <1>3
  <2> HIDE DEF c
  <2>3. c[k] = e
    BY <1>5, <2>1, <2>2
  <2>4. \A i \in 1..(k - 1) : c[i] = a[i]
    BY <1>3, <2>1
  <2>5. Len(c) = k
    BY <1>2, <1>3, <2>1
  <2> QED
    BY <2>1, <2>3, <2>4, <2>5
<1>7. q = c \o b
  BY DEF a, b, Spliced
<1> HIDE DEF c, q
<1>8. /\ q \in Seq(T)
      /\ Len(q) = Len(p) - 1
      /\ \A i \in 1..k : q[i] = c[i]
      /\ \A i \in (k + 1)..(Len(p) - 1) : q[i] = b[i - k]
  <2>1. c \in Seq(T) /\ b \in Seq(T)
    BY <1>4, <1>6
  <2>2. /\ c \o b \in Seq(T)
        /\ Len(c \o b) = Len(c) + Len(b)
        /\ \A i \in 1..Len(c) : (c \o b)[i] = c[i]
        /\ \A i \in (Len(c) + 1)..(Len(c) + Len(b)) : (c \o b)[i] = b[i - Len(c)]
    BY <2>1, ConcatRow
  <2>3. Len(c) = k /\ Len(b) = Len(p) - k - 1
    BY <1>4, <1>6
  <2>4. k + (Len(p) - k - 1) = Len(p) - 1
    BY <1>2
  <2> QED
    BY <1>7, <2>2, <2>3, <2>4
<1>9. ASSUME NEW i \in (k + 1)..(Len(p) - 1)
      PROVE  q[i] = p[i + 1]
  <2>1. i - k \in 1..(Len(p) - k - 1) /\ (i - k) + k + 1 = i + 1
    BY <1>2
  <2> QED
    BY <1>4, <1>8, <2>1
<1>10. ASSUME NEW i \in 1..(k - 1)
       PROVE  q[i] = p[i]
  <2>1. i \in 1..k
    BY <1>2
  <2>2. q[i] = c[i] /\ c[i] = a[i] /\ a[i] = p[i]
    BY <1>3, <1>6, <1>8, <2>1
  <2> QED
    BY <2>2
<1>11. q[k] = e
  <2>1. k \in 1..k
    BY <1>2
  <2> QED
    BY <1>6, <1>8, <2>1
<1> QED
  BY <1>8, <1>9, <1>10, <1>11 DEF Row, q

(***************************************************************************)
(* Sums.  MapThenSumSet takes the terms of a sum in an order of its own;   *)
(* on a finite set and naturals any term can be taken out of it.           *)
(***************************************************************************)
SumOf(f) == MapThenSumSet(LAMBDA x : f[x], DOMAIN f)

Part(s) == CHOOSE x \in s : TRUE
Summed(f, g) ==
  g = [s \in SUBSET DOMAIN f |-> IF s = {} THEN 0 ELSE f[Part(s)] + g[s \ {Part(s)}]]

(* SumsOf(f)[T] is the sum of f over a part T of its domain.               *)
SumsOf(f) == CHOOSE g : Summed(f, g)

LEMMA SumOfIs ==
  ASSUME NEW f
  PROVE  SumOf(f) = SumsOf(f)[DOMAIN f]
<1> DEFINE iter == CHOOSE iter : iter =
             [s \in SUBSET DOMAIN f |->
                IF s = {} THEN 0
                ELSE LET x == CHOOSE x \in s : TRUE IN f[x] + iter[s \ {x}]]
<1>1. SumOf(f) = iter[DOMAIN f]
  BY Zenon DEF MapThenSumSet, MapThenFoldSet, SumOf
<1>2. iter = SumsOf(f)
  BY Zenon DEF Summed, Part, SumsOf
<1> QED
  BY <1>1, <1>2, Zenon

LEMMA PartFacts ==
  ASSUME NEW S, IsFiniteSet(S)
  PROVE  /\ \A s \in SUBSET S :
              /\ IsFiniteSet(s)
              /\ Cardinality(s) \in Nat
              /\ s # {} => /\ Part(s) \in s
                           /\ s \ {Part(s)} \in SUBSET S
                           /\ Cardinality(s \ {Part(s)}) = Cardinality(s) - 1
         /\ \A s \in SUBSET S : Cardinality(s) = 0 <=> s = {}
<1>1. \A s \in SUBSET S : IsFiniteSet(s)
  BY FS_Subset
<1>2. \A s \in SUBSET S : Cardinality(s) \in Nat
  BY <1>1, FS_CardinalityType
<1>3. \A s \in SUBSET S : Cardinality(s) = 0 <=> s = {}
  BY <1>1, FS_EmptySet
<1>4. ASSUME NEW s \in SUBSET S, s # {}
      PROVE  /\ Part(s) \in s
             /\ s \ {Part(s)} \in SUBSET S
             /\ Cardinality(s \ {Part(s)}) = Cardinality(s) - 1
  <2>1. Part(s) \in s
    BY <1>4 DEF Part
  <2> QED
    BY <1>1, <2>1, FS_RemoveElement
<1> QED
  BY <1>1, <1>2, <1>3, <1>4

(* One turn of the fold, and a fold over the parts of at most n elements.  *)
SumTurn(f, g, s) == IF s = {} THEN 0 ELSE f[Part(s)] + g[s \ {Part(s)}]

SumUpTo(f, S, n) ==
  \E g \in [{s \in SUBSET S : Cardinality(s) <= n} -> Nat] :
    \A s \in SUBSET S : Cardinality(s) <= n => g[s] = SumTurn(f, g, s)

LEMMA SumsGrow ==
  ASSUME NEW S, IsFiniteSet(S), NEW f \in [S -> Nat], NEW n \in Nat, SumUpTo(f, S, n)
  PROVE  SumUpTo(f, S, n + 1)
<1>1. PICK g \in [{s \in SUBSET S : Cardinality(s) <= n} -> Nat] :
         \A s \in SUBSET S : Cardinality(s) <= n => g[s] = SumTurn(f, g, s)
  BY DEF SumUpTo
<1>2. PICK D : D = {s \in SUBSET S : Cardinality(s) <= n + 1}
  OBVIOUS
<1>3. PICK h : h = [s \in D |-> SumTurn(f, g, s)]
  OBVIOUS
<1>4. ASSUME NEW s \in SUBSET S, Cardinality(s) <= n + 1
      PROVE  /\ SumTurn(f, g, s) \in Nat
             /\ SumTurn(f, g, s) = SumTurn(f, h, s)
  <2>1. CASE s = {}
    BY <2>1 DEF SumTurn
  <2>2. CASE s # {}
    <3>1. PICK x : x = Part(s)
      OBVIOUS
    <3>2. PICK r : r = s \ {x}
      OBVIOUS
    <3>3. x \in S /\ r \in SUBSET S /\ Cardinality(r) = Cardinality(s) - 1 /\ Cardinality(s) \in Nat
      BY <2>2, <3>1, <3>2, PartFacts
    <3>4. Cardinality(r) <= n /\ Cardinality(r) <= n + 1
      BY <1>4, <3>3
    <3>5. g[r] \in Nat /\ g[r] = SumTurn(f, g, r)
      BY <1>1, <3>3, <3>4
    <3>6. h[r] = SumTurn(f, g, r)
      BY <1>2, <1>3, <3>3, <3>4
    <3>7. f[x] \in Nat
      BY <3>3
    <3>8. SumTurn(f, g, s) = f[x] + g[r] /\ SumTurn(f, h, s) = f[x] + h[r]
      BY <2>2, <3>1, <3>2 DEF SumTurn
    <3> QED
      BY <3>5, <3>6, <3>7, <3>8
  <2> QED
    BY <2>1, <2>2
<1>5. h \in [D -> Nat]
  BY <1>2, <1>3, <1>4
<1>6. \A s \in SUBSET S : Cardinality(s) <= n + 1 => h[s] = SumTurn(f, h, s)
  BY <1>2, <1>3, <1>4
<1> QED
  BY <1>2, <1>5, <1>6 DEF SumUpTo

LEMMA SumsExist ==
  ASSUME NEW S, IsFiniteSet(S), NEW f \in [S -> Nat]
  PROVE  \E g \in [SUBSET S -> Nat] : Summed(f, g)
<1> DEFINE Bad == {n \in Nat : ~SumUpTo(f, S, n)}
<1>1. SumUpTo(f, S, 0)
  <2>1. PICK g : g = [s \in {s \in SUBSET S : Cardinality(s) <= 0} |-> 0]
    OBVIOUS
  <2>2. \A s \in SUBSET S : Cardinality(s) <= 0 => s = {} /\ g[s] = 0
    <3>1. ASSUME NEW s \in SUBSET S, Cardinality(s) <= 0
          PROVE  s = {} /\ g[s] = 0
      <4>1. Cardinality(s) \in Nat /\ (Cardinality(s) = 0 <=> s = {})
        BY PartFacts
      <4>2. s = {}
        BY <3>1, <4>1
      <4> QED
        BY <2>1, <3>1, <4>2
    <3> QED
      BY <3>1
  <2>3. g \in [{s \in SUBSET S : Cardinality(s) <= 0} -> Nat]
    BY <2>1
  <2>4. \A s \in SUBSET S : Cardinality(s) <= 0 => g[s] = SumTurn(f, g, s)
    BY <2>2 DEF SumTurn
  <2> QED
    BY <2>3, <2>4 DEF SumUpTo
<1>2. Bad = {}
  <2>1. SUFFICES ASSUME Bad # {}
                 PROVE  FALSE
    OBVIOUS
  <2>2. PICK m \in Bad : \A n \in Bad : m <= n
    BY <2>1, LeastNumber
  <2>3. m \in Nat /\ m # 0
    BY <1>1
  <2>4. m - 1 \in Nat /\ ~(m <= m - 1) /\ (m - 1) + 1 = m
    BY <2>3
  <2>5. SumUpTo(f, S, m - 1)
    BY <2>2, <2>4
  <2>6. SumUpTo(f, S, m)
    BY <2>4, <2>5, SumsGrow
  <2> QED
    BY <2>6
<1>3. Cardinality(S) \in Nat /\ \A s \in SUBSET S : Cardinality(s) <= Cardinality(S)
  BY FS_CardinalityType, FS_Subset
<1>4. SumUpTo(f, S, Cardinality(S))
  BY <1>2, <1>3
<1>5. {s \in SUBSET S : Cardinality(s) <= Cardinality(S)} = SUBSET S
  BY <1>3
<1>6. PICK g \in [SUBSET S -> Nat] : \A s \in SUBSET S : g[s] = SumTurn(f, g, s)
  BY <1>3, <1>4, <1>5 DEF SumUpTo
<1>7. DOMAIN f = S
  OBVIOUS
<1>8. g = [s \in SUBSET S |-> SumTurn(f, g, s)]
  BY <1>6
<1> QED
  BY <1>6, <1>7, <1>8 DEF Summed, SumTurn

(* The fold exists, so that CHOOSE finds it.                               *)
LEMMA SumsOfTurn ==
  ASSUME NEW S, IsFiniteSet(S), NEW f \in [S -> Nat]
  PROVE  /\ \A s \in SUBSET S : SumsOf(f)[s] = SumTurn(f, SumsOf(f), s)
         /\ SumOf(f) = SumsOf(f)[S]
<1>1. \E g : Summed(f, g)
  BY SumsExist
<1>2. Summed(f, SumsOf(f))
  BY <1>1 DEF SumsOf
<1>3. DOMAIN f = S
  OBVIOUS
<1>4. PICK g : g = SumsOf(f)
  OBVIOUS
<1>5. g = [s \in SUBSET S |-> SumTurn(f, g, s)]
  BY <1>2, <1>3, <1>4 DEF Summed, SumTurn
<1>6. \A s \in SUBSET S : g[s] = SumTurn(f, g, s)
  BY <1>5
<1> QED
  BY <1>3, <1>4, <1>6, SumOfIs

(* A sum does not depend on the term that is taken out of it.               *)
IsSums(S, f, a) ==
  /\ a[{}] = 0
  /\ \A s \in SUBSET S : a[s] \in Nat
  /\ \A s \in SUBSET S : \A x \in s : a[s] = f[x] + a[s \ {x}]

LEMMA SumsOfFacts ==
  ASSUME NEW S, IsFiniteSet(S), NEW f \in [S -> Nat]
  PROVE  IsSums(S, f, SumsOf(f)) /\ SumOf(f) = SumsOf(f)[S]
<1>1. PICK g : g = SumsOf(f)
  OBVIOUS
<1>2. \A s \in SUBSET S : g[s] = SumTurn(f, g, s)
  BY <1>1, SumsOfTurn
<1>3. \A s \in SUBSET S :
         /\ Cardinality(s) \in Nat
         /\ s # {} => /\ Part(s) \in s /\ s \ {Part(s)} \in SUBSET S
                      /\ Cardinality(s \ {Part(s)}) = Cardinality(s) - 1
  BY PartFacts
<1>4. \A s \in SUBSET S : \A x \in s : Cardinality(s \ {x}) = Cardinality(s) - 1
  BY FS_RemoveElement, FS_Subset
<1>5. g[{}] = 0
  BY <1>2 DEF SumTurn
<1>6. \A s \in SUBSET S : s # {} => g[s] = f[Part(s)] + g[s \ {Part(s)}]
  BY <1>2 DEF SumTurn
<1> DEFINE Bad == {n \in Nat : \E s \in SUBSET S : Cardinality(s) = n /\ g[s] \notin Nat}
           Worse == {n \in Nat : \E s \in SUBSET S : \E x \in s :
                                   Cardinality(s) = n /\ g[s] # f[x] + g[s \ {x}]}
<1>7. Bad = {}
  <2>1. SUFFICES ASSUME Bad # {}
                 PROVE  FALSE
    OBVIOUS
  <2>2. PICK m \in Bad : \A n \in Bad : m <= n
    BY <2>1, LeastNumber
  <2>3. PICK s \in SUBSET S : Cardinality(s) = m /\ g[s] \notin Nat
    OBVIOUS
  <2>4. s # {}
    BY <1>5, <2>3
  <2>5. PICK x : x = Part(s)
    OBVIOUS
  <2>6. x \in S /\ s \ {x} \in SUBSET S /\ Cardinality(s \ {x}) = m - 1 /\ m - 1 \in Nat
    BY <1>3, <2>3, <2>4, <2>5
  <2>7. g[s \ {x}] \in Nat
    <3>1. m - 1 \notin Bad
      BY <2>2, <2>6
    <3> QED
      BY <2>6, <3>1
  <2>8. g[s] = f[x] + g[s \ {x}] /\ f[x] \in Nat
    BY <1>6, <2>4, <2>5, <2>6
  <2> QED
    BY <2>3, <2>7, <2>8
<1>8. \A s \in SUBSET S : g[s] \in Nat
  BY <1>3, <1>7
<1> HIDE DEF Bad
<1>9. Worse = {}
  <2>1. SUFFICES ASSUME Worse # {}
                 PROVE  FALSE
    OBVIOUS
  <2>2. PICK m \in Worse : \A n \in Worse : m <= n
    BY <2>1, LeastNumber
  <2>3. PICK s \in SUBSET S : \E x \in s : Cardinality(s) = m /\ g[s] # f[x] + g[s \ {x}]
    OBVIOUS
  <2>4. PICK x \in s : Cardinality(s) = m /\ g[s] # f[x] + g[s \ {x}]
    BY <2>3
  <2>5. PICK c : c = Part(s)
    OBVIOUS
  <2>6. c \in s /\ s \ {c} \in SUBSET S /\ g[s] = f[c] + g[s \ {c}]
    BY <1>3, <1>6, <2>3, <2>5
  <2>7. c # x
    BY <2>6, <2>4
  <2>8. /\ Cardinality(s \ {c}) = m - 1 /\ Cardinality(s \ {x}) = m - 1 /\ m \in Nat
        /\ m - 1 \in Nat /\ ~(m <= m - 1)
    <3>1. Cardinality(s \ {c}) = Cardinality(s) - 1 /\ Cardinality(s \ {x}) = Cardinality(s) - 1
      BY <1>4, <2>6, <2>4
    <3>2. Cardinality(s) = m /\ m \in Nat
      BY <2>4
    <3>3. Cardinality(s \ {c}) \in Nat
      BY <1>3, <2>6
    <3> QED
      BY <3>1, <3>2, <3>3
  <2>9. m - 1 \notin Worse
    <3> HIDE DEF Worse
    <3> QED
      BY <2>2, <2>8
  <2>10. g[s \ {c}] = f[x] + g[(s \ {c}) \ {x}]
    <3>1. x \in s \ {c}
      BY <2>7
    <3> QED
      BY <2>6, <2>8, <2>9, <3>1
  <2>11. g[s \ {x}] = f[c] + g[(s \ {x}) \ {c}]
    <3>1. c \in s \ {x} /\ s \ {x} \in SUBSET S
      BY <2>6, <2>7
    <3> QED
      BY <2>8, <2>9, <3>1
  <2>12. (s \ {x}) \ {c} = (s \ {c}) \ {x}
    OBVIOUS
  <2>13. PICK r : r = (s \ {c}) \ {x}
    OBVIOUS
  <2>14. f[c] \in Nat /\ f[x] \in Nat /\ g[r] \in Nat
    BY <1>8, <2>6, <2>13
  <2>15. g[s \ {c}] = f[x] + g[r] /\ g[s \ {x}] = f[c] + g[r]
    BY <2>10, <2>11, <2>12, <2>13
  <2> QED
    BY <2>6, <2>14, <2>15, <2>4
<1>10. \A s \in SUBSET S : \A x \in s : g[s] = f[x] + g[s \ {x}]
  BY <1>3, <1>9
<1>11. SumOf(f) = g[S]
  BY <1>1, SumsOfTurn
<1> QED
  BY <1>1, <1>5, <1>8, <1>10, <1>11 DEF IsSums

LEMMA CardSteps ==
  ASSUME NEW S, IsFiniteSet(S), NEW s \in SUBSET S, NEW x \in s
  PROVE  /\ Cardinality(s) \in Nat
         /\ s \ {x} \in SUBSET S
         /\ Cardinality(s \ {x}) \in Nat
         /\ Cardinality(s \ {x}) = Cardinality(s) - 1
<1>1. IsFiniteSet(s) /\ IsFiniteSet(s \ {x})
  BY FS_Subset
<1> QED
  BY <1>1, FS_RemoveElement, FS_CardinalityType
(* The sum of f over T depends on what f has in T only. *)
LEMMA SumsAgree ==
  ASSUME NEW S, IsFiniteSet(S), NEW f \in [S -> Nat],
         NEW U, IsFiniteSet(U), NEW g \in [U -> Nat],
         NEW T \in SUBSET S, T \in SUBSET U, \A x \in T : f[x] = g[x]
  PROVE  SumsOf(f)[T] = SumsOf(g)[T]
<1>1. PICK a : a = SumsOf(f)
  OBVIOUS
<1>2. PICK b : b = SumsOf(g)
  OBVIOUS
<1>3. /\ a[{}] = 0 /\ b[{}] = 0
      /\ \A s \in SUBSET S : \A x \in s : a[s] = f[x] + a[s \ {x}]
      /\ \A s \in SUBSET U : \A x \in s : b[s] = g[x] + b[s \ {x}]
  <2>1. IsSums(S, f, a)
    BY <1>1, SumsOfFacts
  <2>2. IsSums(U, g, b)
    BY <1>2, SumsOfFacts
  <2> QED
    BY <2>1, <2>2 DEF IsSums
<1> DEFINE Bad == {n \in Nat : \E s \in SUBSET T : Cardinality(s) = n /\ a[s] # b[s]}
<1>5. Bad = {}
  <2>1. SUFFICES ASSUME Bad # {}
                 PROVE  FALSE
    OBVIOUS
  <2>2. PICK m \in Bad : \A n \in Bad : m <= n
    BY <2>1, LeastNumber
  <2>3. PICK s \in SUBSET T : Cardinality(s) = m /\ a[s] # b[s]
    OBVIOUS
  <2>4. PICK x \in s : TRUE
    BY <1>3, <2>3
  <2>5. PICK r : r = s \ {x}
    OBVIOUS
  <2>6. r \in SUBSET T /\ Cardinality(r) \in Nat /\ Cardinality(r) = m - 1 /\ m \in Nat
    <3>1. IsFiniteSet(T)
      BY FS_Subset
    <3> QED
      BY <2>3, <2>5, <3>1, CardSteps
  <2>7. a[r] = b[r]
    <3>1. ~(m <= Cardinality(r))
      BY <2>6
    <3>2. Cardinality(r) \notin Bad
      <4> HIDE DEF Bad
      <4> QED
        BY <2>2, <3>1
    <3> QED
      BY <2>6, <3>2
  <2>8. a[s] = f[x] + a[r] /\ b[s] = g[x] + b[r] /\ f[x] = g[x]
    BY <1>3, <2>5
  <2> QED
    BY <2>3, <2>7, <2>8
<1>6. Cardinality(T) \in Nat
  BY FS_Subset, FS_CardinalityType
<1> QED
  BY <1>1, <1>2, <1>5, <1>6

LEMMA SumIsNat ==
  ASSUME NEW S, IsFiniteSet(S), NEW f \in [S -> Nat]
  PROVE  SumOf(f) \in Nat
<1>1. IsSums(S, f, SumsOf(f)) /\ SumOf(f) = SumsOf(f)[S]
  BY SumsOfFacts
<1> QED
  BY <1>1 DEF IsSums

(* One term taken out of a sum. *)
LEMMA SumTakes ==
  ASSUME NEW S, IsFiniteSet(S), NEW f \in [S -> Nat], NEW x \in S
  PROVE  SumOf(f) = f[x] + SumsOf(f)[S \ {x}] /\ SumsOf(f)[S \ {x}] \in Nat
<1>1. IsSums(S, f, SumsOf(f)) /\ SumOf(f) = SumsOf(f)[S]
  BY SumsOfFacts
<1>2. S \in SUBSET S /\ S \ {x} \in SUBSET S
  OBVIOUS
<1> QED
  BY <1>1, <1>2 DEF IsSums

(* One term changes: the sum changes by as much. *)
LEMMA SumChanged ==
  ASSUME NEW S, IsFiniteSet(S), NEW f \in [S -> Nat], NEW g \in [S -> Nat],
         NEW x \in S, \A y \in S \ {x} : f[y] = g[y]
  PROVE  SumOf(f) + g[x] = SumOf(g) + f[x]
<1>1. PICK r : r = S \ {x}
  OBVIOUS
<1>2. SumsOf(f)[r] = SumsOf(g)[r]
  <2>1. r \in SUBSET S /\ \A y \in r : f[y] = g[y]
    BY <1>1
  <2> QED
    BY <2>1, SumsAgree
<1>3. /\ SumOf(f) = f[x] + SumsOf(f)[r]
      /\ SumOf(g) = g[x] + SumsOf(g)[r]
      /\ SumsOf(f)[r] \in Nat
  BY <1>1, SumTakes
<1>4. f[x] \in Nat /\ g[x] \in Nat
  OBVIOUS
<1> QED
  BY <1>2, <1>3, <1>4

(* A sum over a part of a set, and the term that is added to it. *)
LEMMA SumOfPart ==
  ASSUME NEW S, IsFiniteSet(S), NEW f \in [S -> Nat], NEW T \in SUBSET S,
         NEW g \in [T -> Nat], \A y \in T : f[y] = g[y]
  PROVE  SumOf(g) = SumsOf(f)[T]
<1>1. IsFiniteSet(T)
  BY FS_Subset
<1>2. SumOf(g) = SumsOf(g)[T]
  BY <1>1, SumsOfFacts
<1>3. T \in SUBSET T
  OBVIOUS
<1>4. SumsOf(f)[T] = SumsOf(g)[T]
  BY <1>1, <1>3, SumsAgree
<1> QED
  BY <1>2, <1>4

LEMMA SumOfNothing ==
  ASSUME NEW f \in [{} -> Nat]
  PROVE  SumOf(f) = 0
<1>1. IsFiniteSet({})
  BY FS_EmptySet
<1>2. IsSums({}, f, SumsOf(f)) /\ SumOf(f) = SumsOf(f)[{}]
  BY <1>1, SumsOfFacts
<1> QED
  BY <1>2 DEF IsSums

(* Terms that are at least n each. *)
LEMMA SumAtLeast ==
  ASSUME NEW S, IsFiniteSet(S), NEW f \in [S -> Nat], NEW n \in Nat,
         NEW T \in SUBSET S, \A x \in T : n <= f[x]
  PROVE  n * Cardinality(T) <= SumOf(f)
<1>1. PICK a : a = SumsOf(f)
  OBVIOUS
<1>2. /\ a[{}] = 0
      /\ \A s \in SUBSET S : \A x \in s : a[s] = f[x] + a[s \ {x}]
      /\ \A s \in SUBSET S : a[s] \in Nat
      /\ SumOf(f) = a[S]
  <2>1. IsSums(S, f, a) /\ SumOf(f) = a[S]
    BY <1>1, SumsOfFacts
  <2> QED
    BY <2>1 DEF IsSums
<1> DEFINE Bad == {m \in Nat : \E s \in SUBSET S : Cardinality(s) = m
                                 /\ ~(n * Cardinality(s \cap T) <= a[s])}
<1>4. Bad = {}
  <2>1. SUFFICES ASSUME Bad # {}
                 PROVE  FALSE
    OBVIOUS
  <2>2. PICK m \in Bad : \A k \in Bad : m <= k
    BY <2>1, LeastNumber
  <2>3. PICK s \in SUBSET S : Cardinality(s) = m /\ ~(n * Cardinality(s \cap T) <= a[s])
    OBVIOUS
  <2>4. s # {}
    <3>1. n * Cardinality({} \cap T) = 0
      <4>1. Cardinality({} \cap T) = 0
        BY FS_EmptySet
      <4> QED
        BY <4>1
    <3>2. CASE s = {}
      <4>1. ~(n * Cardinality({} \cap T) <= a[{}])
        BY <2>3, <3>2
      <4> QED
        BY <1>2, <3>1, <4>1
    <3> QED
      BY <3>2
  <2>5. PICK x \in s : TRUE
    BY <2>4
  <2>6. PICK r : r = s \ {x}
    OBVIOUS
  <2>7. r \in SUBSET S /\ Cardinality(r) \in Nat /\ Cardinality(r) = m - 1 /\ m \in Nat
    BY <2>3, <2>6, CardSteps
  <2>8. n * Cardinality(r \cap T) <= a[r]
    <3>1. ~(m <= Cardinality(r))
      BY <2>7
    <3>2. Cardinality(r) \notin Bad
      <4> HIDE DEF Bad
      <4> QED
        BY <2>2, <3>1
    <3> QED
      BY <2>7, <3>2
  <2>9. a[s] = f[x] + a[r] /\ a[s] \in Nat /\ a[r] \in Nat /\ f[x] \in Nat
    BY <1>2, <2>6, <2>7
  <2>10. CASE x \in T
    <3>1. PICK c : c = Cardinality(r \cap T)
      OBVIOUS
    <3>2. (s \cap T) \ {x} = r \cap T /\ s \cap T \in SUBSET S /\ x \in s \cap T
      BY <2>6, <2>10
    <3>3. Cardinality(s \cap T) = c + 1 /\ c \in Nat
      <4>1. PICK t \in SUBSET S : t = s \cap T /\ x \in t
        BY <3>2
      <4>2. /\ Cardinality(t) \in Nat
            /\ Cardinality(t \ {x}) \in Nat
            /\ Cardinality(t \ {x}) = Cardinality(t) - 1
        <5>1. x \in t
          BY <4>1
        <5> QED
          BY <5>1, CardSteps
      <4>3. Cardinality(t \ {x}) = c
        BY <3>1, <3>2, <4>1
      <4> QED
        BY <4>1, <4>2, <4>3
    <3>4. n <= f[x] /\ n * (c + 1) = n * c + n /\ n * c \in Nat
      BY <2>10, <3>3
    <3> QED
      BY <2>3, <2>8, <2>9, <3>1, <3>3, <3>4
  <2>11. CASE x \notin T
    <3>1. s \cap T = r \cap T
      BY <2>6, <2>11
    <3>2. n * Cardinality(r \cap T) \in Nat
      <4>1. Cardinality(r \cap T) \in Nat
        BY <2>7, FS_Subset, FS_CardinalityType
      <4> QED
        BY <4>1
    <3>3. PICK p : p = n * Cardinality(r \cap T)
      OBVIOUS
    <3>4. p \in Nat /\ p <= a[r] /\ ~(p <= a[s])
      BY <2>3, <2>8, <3>1, <3>2, <3>3
    <3> QED
      BY <2>9, <3>4
  <2> QED
    BY <2>10, <2>11
<1>5. Cardinality(S) \in Nat /\ S \cap T = T
  BY FS_CardinalityType
<1>6. n * Cardinality(S \cap T) <= a[S]
  BY <1>4, <1>5
<1> QED
  BY <1>2, <1>5, <1>6


(* A sum of one term. *)
LEMMA SumOfOne ==
  ASSUME NEW x, NEW f \in [{x} -> Nat]
  PROVE  SumOf(f) = f[x]
<1>1. IsFiniteSet({x}) /\ x \in {x} /\ {x} \ {x} = {}
  BY FS_Singleton
<1>2. PICK a : a = SumsOf(f)
  OBVIOUS
<1>3. IsSums({x}, f, a) /\ SumOf(f) = f[x] + a[{x} \ {x}]
  BY <1>1, <1>2, SumsOfFacts, SumTakes
<1>4. a[{}] = 0 /\ f[x] \in Nat
  BY <1>3 DEF IsSums
<1> QED
  BY <1>1, <1>3, <1>4

(* More terms, and larger ones. *)
LEMMA SumGrows ==
  ASSUME NEW S, IsFiniteSet(S), NEW f \in [S -> Nat],
         NEW T \in SUBSET S, NEW g \in [T -> Nat], \A x \in T : g[x] <= f[x]
  PROVE  SumOf(g) <= SumOf(f)
<1>0. IsFiniteSet(T)
  BY FS_Subset
<1>1. PICK a : a = SumsOf(f)
  OBVIOUS
<1>2. PICK b : b = SumsOf(g)
  OBVIOUS
<1>3. /\ a[{}] = 0 /\ b[{}] = 0
      /\ \A s \in SUBSET S : \A x \in s : a[s] = f[x] + a[s \ {x}]
      /\ \A s \in SUBSET T : \A x \in s : b[s] = g[x] + b[s \ {x}]
      /\ \A s \in SUBSET S : a[s] \in Nat
      /\ \A s \in SUBSET T : b[s] \in Nat
      /\ SumOf(f) = a[S] /\ SumOf(g) = b[T]
  <2>1. IsSums(S, f, a) /\ SumOf(f) = a[S]
    BY <1>1, SumsOfFacts
  <2>2. IsSums(T, g, b) /\ SumOf(g) = b[T]
    BY <1>0, <1>2, SumsOfFacts
  <2> QED
    BY <2>1, <2>2 DEF IsSums
<1> DEFINE Bad == {m \in Nat : \E s \in SUBSET S : Cardinality(s) = m
                                 /\ ~(b[s \cap T] <= a[s])}
<1>4. Bad = {}
  <2>1. SUFFICES ASSUME Bad # {}
                 PROVE  FALSE
    OBVIOUS
  <2>2. PICK m \in Bad : \A k \in Bad : m <= k
    BY <2>1, LeastNumber
  <2>3. PICK s \in SUBSET S : Cardinality(s) = m /\ ~(b[s \cap T] <= a[s])
    OBVIOUS
  <2>4. s # {}
    <3>1. {} \cap T = {} /\ b[{}] <= a[{}]
      BY <1>3
    <3> QED
      BY <2>3, <3>1
  <2>5. PICK x \in s : TRUE
    BY <2>4
  <2>6. PICK r : r = s \ {x}
    OBVIOUS
  <2>7. r \in SUBSET S /\ Cardinality(r) \in Nat /\ Cardinality(r) = m - 1 /\ m \in Nat
    BY <2>3, <2>6, CardSteps
  <2>8. b[r \cap T] <= a[r]
    <3>1. ~(m <= Cardinality(r))
      BY <2>7
    <3>2. Cardinality(r) \notin Bad
      <4> HIDE DEF Bad
      <4> QED
        BY <2>2, <3>1
    <3> QED
      BY <2>7, <3>2
  <2>9. a[s] = f[x] + a[r] /\ a[s] \in Nat /\ a[r] \in Nat /\ f[x] \in Nat
    BY <1>3, <2>6, <2>7
  <2>10. PICK u : u = b[r \cap T]
    OBVIOUS
  <2>11. u \in Nat /\ u <= a[r]
    <3>1. r \cap T \in SUBSET T
      OBVIOUS
    <3> QED
      BY <1>3, <2>8, <2>10, <3>1
  <2>12. CASE x \in T
    <3>1. s \cap T \in SUBSET T /\ x \in s \cap T /\ (s \cap T) \ {x} = r \cap T
      BY <2>6, <2>12
    <3>2. b[s \cap T] = g[x] + b[r \cap T]
      <4>1. PICK v \in SUBSET T : v = s \cap T
        BY <3>1
      <4>2. x \in v /\ v \ {x} = r \cap T
        BY <3>1, <4>1
      <4>3. b[v] = g[x] + b[v \ {x}]
        BY <1>3, <4>2
      <4>4. b[s \cap T] = g[x] + b[v \ {x}]
        BY <4>1, <4>3
      <4> QED
        BY <4>2, <4>4
    <3>3. b[s \cap T] = g[x] + u
      BY <2>10, <3>2
    <3>4. g[x] <= f[x] /\ g[x] \in Nat
      BY <2>12
    <3>5. g[x] + u <= a[s]
      BY <2>9, <2>11, <3>4
    <3> QED
      BY <2>3, <3>3, <3>5
  <2>13. CASE x \notin T
    <3>1. s \cap T = r \cap T
      BY <2>6, <2>13
    <3>2. b[s \cap T] = u
      BY <2>10, <3>1
    <3>3. u <= a[s]
      BY <2>9, <2>11
    <3> QED
      BY <2>3, <3>2, <3>3
  <2> QED
    BY <2>12, <2>13
<1>5. Cardinality(S) \in Nat /\ S \cap T = T
  BY FS_CardinalityType
<1>6. b[S \cap T] <= a[S]
  BY <1>4, <1>5
<1> QED
  BY <1>3, <1>5, <1>6

(* The same terms, all negative. *)
LEMMA SumNegated ==
  ASSUME NEW S, IsFiniteSet(S), NEW f \in [S -> Nat], NEW g, DOMAIN g = S,
         \A x \in S : g[x] = -f[x]
  PROVE  SumOf(g) = -SumOf(f)
<1>1. PICK a : a = SumsOf(f)
  OBVIOUS
<1>2. /\ a[{}] = 0
      /\ \A s \in SUBSET S : \A x \in s : a[s] = f[x] + a[s \ {x}]
      /\ \A s \in SUBSET S : a[s] \in Nat
      /\ SumOf(f) = a[S]
  <2>1. IsSums(S, f, a) /\ SumOf(f) = a[S]
    BY <1>1, SumsOfFacts
  <2> QED
    BY <2>1 DEF IsSums
<1>3. \A s \in SUBSET S : s # {} => Part(s) \in s /\ s \ {Part(s)} \in SUBSET S
  BY PartFacts
<1>4. PICK h : h = [s \in SUBSET S |-> -a[s]]
  OBVIOUS
<1>5. \A s \in SUBSET S : h[s] = IF s = {} THEN 0 ELSE g[Part(s)] + h[s \ {Part(s)}]
  <2> TAKE s \in SUBSET S
  <2>1. CASE s = {}
    BY <1>2, <1>4, <2>1
  <2>2. CASE s # {}
    <3>1. PICK x : x = Part(s)
      OBVIOUS
    <3>2. x \in s /\ x \in S /\ s \ {x} \in SUBSET S
      BY <1>3, <2>2, <3>1
    <3>3. a[s] = f[x] + a[s \ {x}] /\ f[x] \in Nat /\ a[s \ {x}] \in Nat
      BY <1>2, <3>2
    <3>4. h[s] = -a[s] /\ h[s \ {x}] = -a[s \ {x}] /\ g[x] = -f[x]
      BY <1>4, <3>2
    <3> QED
      BY <2>2, <3>1, <3>3, <3>4
  <2> QED
    BY <2>1, <2>2
<1>6. Summed(g, h)
  BY <1>4, <1>5 DEF Summed
<1>7. PICK b : b = SumsOf(g)
  OBVIOUS
<1>8. Summed(g, b)
  BY <1>6, <1>7 DEF SumsOf
<1>9. \A s \in SUBSET S : b[s] = IF s = {} THEN 0 ELSE g[Part(s)] + b[s \ {Part(s)}]
  BY <1>8 DEF Summed
<1>10. SumOf(g) = b[S]
  BY <1>7, SumOfIs
<1> DEFINE Bad == {m \in Nat : \E s \in SUBSET S : Cardinality(s) = m /\ b[s] # -a[s]}
<1>11. Bad = {}
  <2>1. SUFFICES ASSUME Bad # {}
                 PROVE  FALSE
    OBVIOUS
  <2>2. PICK m \in Bad : \A k \in Bad : m <= k
    BY <2>1, LeastNumber
  <2>3. PICK s \in SUBSET S : Cardinality(s) = m /\ b[s] # -a[s]
    OBVIOUS
  <2>4. s # {}
    <3>1. b[{}] = 0 /\ a[{}] = 0
      BY <1>2, <1>9
    <3> QED
      BY <2>3, <3>1
  <2>5. PICK x : x = Part(s)
    OBVIOUS
  <2>6. x \in s
    BY <1>3, <2>4, <2>5
  <2>7. PICK r : r = s \ {x}
    OBVIOUS
  <2>8. r \in SUBSET S /\ Cardinality(r) \in Nat /\ Cardinality(r) = m - 1 /\ m \in Nat
    BY <2>3, <2>6, <2>7, CardSteps
  <2>9. b[r] = -a[r]
    <3>1. ~(m <= Cardinality(r))
      BY <2>8
    <3>2. Cardinality(r) \notin Bad
      <4> HIDE DEF Bad
      <4> QED
        BY <2>2, <3>1
    <3> QED
      BY <2>8, <3>2
  <2>10. b[s] = g[x] + b[r]
    BY <1>9, <2>4, <2>5, <2>7
  <2>11. a[s] = f[x] + a[r] /\ g[x] = -f[x] /\ f[x] \in Nat /\ a[r] \in Nat
    BY <1>2, <2>6, <2>7, <2>8
  <2> QED
    BY <2>3, <2>9, <2>10, <2>11
<1>12. Cardinality(S) \in Nat
  BY FS_CardinalityType
<1>13. b[S] = -a[S]
  BY <1>11, <1>12
<1> QED
  BY <1>2, <1>10, <1>13


(***************************************************************************)
(* The sum of a row of numbers from one place on.                          *)
(***************************************************************************)
Above(w, n, i) == SumOf([j \in i..n |-> w[j]])

LEMMA AboveFacts ==
  ASSUME NEW n \in Nat, NEW w \in [1..n -> Nat]
  PROVE  /\ \A i \in 1..(n + 2) : Above(w, n, i) \in Nat
         /\ \A i \in (n + 1)..(n + 2) : Above(w, n, i) = 0
         /\ \A i \in 1..n : Above(w, n, i) = w[i] + Above(w, n, i + 1)
<1>1. ASSUME NEW i \in 1..(n + 2)
      PROVE  Above(w, n, i) \in Nat
  <2>1. PICK S : S = i..n
    OBVIOUS
  <2>2. IsFiniteSet(S)
    BY <2>1, FS_Interval
  <2>3. PICK f : f = [j \in S |-> w[j]]
    OBVIOUS
  <2>4. f \in [S -> Nat]
    BY <2>1, <2>3
  <2>5. SumOf(f) \in Nat
    BY <2>2, <2>4, SumIsNat
  <2> QED
    BY <2>1, <2>3, <2>5 DEF Above
<1>2. ASSUME NEW i \in (n + 1)..(n + 2)
      PROVE  Above(w, n, i) = 0
  <2>1. PICK f : f = [j \in i..n |-> w[j]]
    OBVIOUS
  <2>2. i..n = {}
    OBVIOUS
  <2>3. f \in [{} -> Nat]
    BY <2>1, <2>2
  <2> QED
    BY <2>1, <2>3, SumOfNothing DEF Above
<1>3. ASSUME NEW i \in 1..n
      PROVE  Above(w, n, i) = w[i] + Above(w, n, i + 1)
  <2>1. PICK S : S = i..n
    OBVIOUS
  <2>2. IsFiniteSet(S) /\ i \in S /\ S \ {i} = (i + 1)..n
    <3>1. IsFiniteSet(i..n)
      BY FS_Interval
    <3>2. i \in i..n /\ (i..n) \ {i} = (i + 1)..n
      OBVIOUS
    <3> QED
      BY <2>1, <3>1, <3>2
  <2>3. PICK f : f = [j \in S |-> w[j]]
    OBVIOUS
  <2>4. PICK g : g = [j \in S \ {i} |-> w[j]]
    OBVIOUS
  <2>5. /\ f \in [S -> Nat] /\ g \in [S \ {i} -> Nat]
        /\ \A y \in S \ {i} : f[y] = g[y]
        /\ f[i] = w[i]
    BY <2>1, <2>2, <2>3, <2>4
  <2>6. SumOf(f) = f[i] + SumOf(g)
    <3>1. PICK T \in SUBSET S : T = S \ {i}
      OBVIOUS
    <3>2. g \in [T -> Nat] /\ \A y \in T : f[y] = g[y]
      BY <2>5, <3>1
    <3>3. IsFiniteSet(S) /\ f \in [S -> Nat] /\ i \in S
      BY <2>2, <2>5
    <3>4. SumOf(g) = SumsOf(f)[T]
      BY <3>2, <3>3, SumOfPart
    <3>5. SumOf(f) = f[i] + SumsOf(f)[S \ {i}]
      BY <3>3, SumTakes
    <3> QED
      BY <3>1, <3>4, <3>5
  <2>7. Above(w, n, i) = SumOf(f) /\ Above(w, n, i + 1) = SumOf(g)
    BY <2>1, <2>2, <2>3, <2>4 DEF Above
  <2> QED
    BY <2>5, <2>6, <2>7
<1> QED
  BY <1>1, <1>2, <1>3

(* Rows that end alike have the same weight there. *)
LEMMA AboveShift ==
  ASSUME NEW n \in Nat, NEW w \in [1..n -> Nat],
         NEW m \in Nat, NEW v \in [1..m -> Nat],
         NEW d \in Int, n = m + d,
         NEW b \in 1..(m + 1), b + d \in 1..(n + 1),
         \A j \in b..m : v[j] = w[j + d]
  PROVE  Above(v, m, b) = Above(w, n, b + d)
<1> DEFINE Bad == {c \in Nat : c <= m + 1 - b /\ Above(v, m, m + 1 - c) # Above(w, n, n + 1 - c)}
<1>1. Bad = {}
  <2>1. SUFFICES ASSUME Bad # {}
                 PROVE  FALSE
    OBVIOUS
  <2>2. PICK c \in Bad : \A x \in Bad : c <= x
    BY <2>1, LeastNumber
  <2>3. c \in Nat /\ c <= m + 1 - b /\ Above(v, m, m + 1 - c) # Above(w, n, n + 1 - c)
    OBVIOUS
  <2>4. c # 0
    <3>1. m + 1 \in (m + 1)..(m + 2) /\ n + 1 \in (n + 1)..(n + 2)
      OBVIOUS
    <3>3. Above(v, m, m + 1) = 0 /\ Above(w, n, n + 1) = 0
      BY <3>1, AboveFacts
    <3>2. c = 0 => m + 1 - c = m + 1 /\ n + 1 - c = n + 1
      OBVIOUS
    <3> QED
      BY <2>3, <3>2, <3>3
  <2>5. PICK i \in b..m : i = m + 1 - c
    BY <2>3, <2>4
  <2>6. i + d \in 1..n /\ i + d = n + 1 - c /\ i \in 1..m
    BY <2>3, <2>5
  <2>7. Above(v, m, i + 1) = Above(w, n, (i + d) + 1)
    <3>1. c - 1 \in Nat /\ c - 1 <= m + 1 - b /\ ~(c <= c - 1)
      BY <2>3, <2>4
    <3>2. c - 1 \notin Bad
      <4> HIDE DEF Bad
      <4> QED
        BY <2>2, <3>1
    <3>3. Above(v, m, m + 1 - (c - 1)) = Above(w, n, n + 1 - (c - 1))
      BY <3>1, <3>2
    <3>4. m + 1 - (c - 1) = i + 1 /\ n + 1 - (c - 1) = (i + d) + 1
      BY <2>3, <2>5, <2>6
    <3> QED
      BY <3>3, <3>4
  <2>8. Above(v, m, i) = v[i] + Above(v, m, i + 1)
    BY <2>6, AboveFacts
  <2>9. Above(w, n, i + d) = w[i + d] + Above(w, n, (i + d) + 1)
    BY <2>6, AboveFacts
  <2>10. v[i] = w[i + d]
    OBVIOUS
  <2>11. Above(v, m, i) = Above(w, n, i + d)
    BY <2>7, <2>8, <2>9, <2>10
  <2> QED
    BY <2>3, <2>5, <2>6, <2>11
<1>2. PICK c \in Nat : c = m + 1 - b
  OBVIOUS
<1>3. Above(v, m, m + 1 - c) = Above(w, n, n + 1 - c)
  <2>1. c \notin Bad
    BY <1>1
  <2>2. c \in Nat /\ c <= m + 1 - b
    BY <1>2
  <2> QED
    BY <2>1, <2>2
<1>4. m + 1 - c = b /\ n + 1 - c = b + d
  BY <1>2
<1> QED
  BY <1>3, <1>4

(***************************************************************************)
(* Recursion over the parts of a finite set.  What is said of a part from  *)
(* the parts that lack one of its elements is said of every part, and what *)
(* is defined so exists: a fold is the function its equation defines.      *)
(***************************************************************************)
Inductive(S, W) == \A s \in SUBSET S : (\A x \in s : s \ {x} \in W) => s \in W

LEMMA PartInduction ==
  ASSUME NEW S, IsFiniteSet(S), NEW W, Inductive(S, W)
  PROVE  SUBSET S \subseteq W
<1> DEFINE Bad == {n \in Nat : \E s \in SUBSET S : Cardinality(s) = n /\ s \notin W}
<1>1. Bad = {}
  <2>1. SUFFICES ASSUME Bad # {}
                 PROVE  FALSE
    OBVIOUS
  <2>2. PICK m \in Bad : \A n \in Bad : m <= n
    BY <2>1, LeastNumber
  <2>3. PICK s \in SUBSET S : Cardinality(s) = m /\ s \notin W
    OBVIOUS
  <2>4. ASSUME NEW x \in s
        PROVE  s \ {x} \in W
    <3>1. /\ s \ {x} \in SUBSET S /\ Cardinality(s \ {x}) \in Nat
          /\ Cardinality(s \ {x}) = m - 1 /\ m \in Nat
      BY <2>3, <2>4, CardSteps
    <3>2. ~ (m <= Cardinality(s \ {x}))
      BY <3>1
    <3>3. Cardinality(s \ {x}) \notin Bad
      <4> HIDE DEF Bad
      <4> QED
        BY <2>2, <3>2
    <3> QED
      BY <3>1, <3>3
  <2> QED
    BY <2>3, <2>4 DEF Inductive
<1>2. \A s \in SUBSET S : Cardinality(s) \in Nat
  BY PartFacts
<1> QED
  BY <1>1, <1>2

\* g is made of what it says of the parts that lack one element.
Recursive(S, turn, g, s) == g[s] = turn[<<s, [x \in s |-> g[s \ {x}]]>>]

LEMMA PartRecursion ==
  ASSUME NEW S, IsFiniteSet(S), NEW V, NEW turn,
         \A s \in SUBSET S : \A p \in [s -> V] : turn[<<s, p>>] \in V
  PROVE  \E g \in [SUBSET S -> V] : \A s \in SUBSET S : Recursive(S, turn, g, s)
<1> DEFINE Upto(n) == \E g \in [SUBSET S -> V] : \A s \in SUBSET S :
                        Cardinality(s) < n => Recursive(S, turn, g, s)
           Bad == {n \in Nat : ~ Upto(n)}
<1>1. \A s \in SUBSET S : Cardinality(s) \in Nat
  BY PartFacts
<1>2. Upto(0)
  <2>1. PICK some \in V : TRUE
    <3>1. [x \in {} |-> x] \in [{} -> V] /\ {} \in SUBSET S
      OBVIOUS
    <3> QED
      BY <3>1
  <2>2. [s \in SUBSET S |-> some] \in [SUBSET S -> V]
    OBVIOUS
  <2>3. \A s \in SUBSET S : ~ (Cardinality(s) < 0)
    BY <1>1
  <2> QED
    BY <2>2, <2>3
<1>3. ASSUME NEW n \in Nat, Upto(n)
      PROVE  Upto(n + 1)
  <2>1. PICK g \in [SUBSET S -> V] : \A s \in SUBSET S :
               Cardinality(s) < n => Recursive(S, turn, g, s)
    BY <1>3
  <2>2. PICK h : h = [s \in SUBSET S |-> turn[<<s, [x \in s |-> g[s \ {x}]]>>]]
    OBVIOUS
  <2>3. ASSUME NEW s \in SUBSET S
        PROVE  h[s] \in V
    <3>1. [x \in s |-> g[s \ {x}]] \in [s -> V]
      OBVIOUS
    <3> QED
      BY <2>2, <3>1
  <2>4. ASSUME NEW s \in SUBSET S, Cardinality(s) < n + 1
        PROVE  Recursive(S, turn, h, s)
    <3>1. ASSUME NEW x \in s
          PROVE  h[s \ {x}] = g[s \ {x}]
      <4>1. PICK r : r = s \ {x}
        OBVIOUS
      <4>2. r \in SUBSET S /\ Cardinality(r) < n
        BY <1>1, <2>4, <4>1, CardSteps
      <4>3. Recursive(S, turn, g, r)
        BY <2>1, <4>2
      <4> QED
        BY <2>2, <4>1, <4>2, <4>3 DEF Recursive
    <3>2. [x \in s |-> h[s \ {x}]] = [x \in s |-> g[s \ {x}]]
      BY <3>1
    <3> QED
      BY <2>2, <3>2 DEF Recursive
  <2>5. h \in [SUBSET S -> V]
    BY <2>2, <2>3
  <2> QED
    BY <2>4, <2>5
<1>4. Bad = {}
  <2>1. SUFFICES ASSUME Bad # {}
                 PROVE  FALSE
    OBVIOUS
  <2>2. PICK m \in Bad : \A k \in Bad : m <= k
    <3>1. Bad \in SUBSET Nat
      OBVIOUS
    <3> HIDE DEF Bad
    <3> QED
      BY <2>1, <3>1, LeastNumber
  <2>3. m \in Nat /\ ~ Upto(m)
    OBVIOUS
  <2>4. m # 0
    BY <1>2, <2>3
  <2>5. m - 1 \in Nat /\ ~ (m <= m - 1) /\ (m - 1) + 1 = m
    BY <2>3, <2>4
  <2>6. m - 1 \notin Bad
    <3> HIDE DEF Bad
    <3> QED
      BY <2>2, <2>5
  <2>7. Upto(m - 1)
    BY <2>5, <2>6
  <2> HIDE DEF Upto
  <2>8. Upto((m - 1) + 1)
    BY <1>3, <2>5, <2>7
  <2> QED
    BY <2>3, <2>5, <2>8
<1>5. Cardinality(S) + 1 \in Nat /\ \A s \in SUBSET S : Cardinality(s) < Cardinality(S) + 1
  BY FS_CardinalityType, FS_Subset, <1>1
<1>6. Upto(Cardinality(S) + 1)
  BY <1>4, <1>5
<1> QED
  BY <1>5, <1>6

Defined(S, turn, pick, base, g, s) ==
  g[s] = IF s = {} THEN base ELSE turn[<<pick[s], g[s \ {pick[s]}]>>]

Foldable(S, V, turn, pick) ==
  /\ \A x \in S, v \in V : turn[<<x, v>>] \in V
  /\ \A s \in SUBSET S : s # {} => pick[s] \in s

LEMMA FoldExists ==
  ASSUME NEW S, IsFiniteSet(S), NEW V, NEW base \in V, NEW turn, NEW pick,
         Foldable(S, V, turn, pick)
  PROVE  \E g \in [SUBSET S -> V] : \A s \in SUBSET S : Defined(S, turn, pick, base, g, s)
<1>1. PICK D : D = UNION {{s} \X [s -> V] : s \in SUBSET S}
  OBVIOUS
<1>2. \A s \in SUBSET S : \A p \in [s -> V] : <<s, p>> \in D
  BY <1>1
<1>3. PICK all : all = [d \in D |->
                          IF d[1] = {} THEN base ELSE turn[<<pick[d[1]], d[2][pick[d[1]]]>>]]
  OBVIOUS
<1>4. ASSUME NEW s \in SUBSET S, NEW p \in [s -> V]
      PROVE  /\ all[<<s, p>>] = IF s = {} THEN base ELSE turn[<<pick[s], p[pick[s]]>>]
             /\ all[<<s, p>>] \in V
  <2>1. <<s, p>>[1] = s /\ <<s, p>>[2] = p
    OBVIOUS
  <2>2. all[<<s, p>>] = IF s = {} THEN base ELSE turn[<<pick[s], p[pick[s]]>>]
    BY <1>2, <1>3, <2>1
  <2>3. CASE s = {}
    BY <2>2, <2>3
  <2>4. CASE s # {}
    <3>1. pick[s] \in s
      BY <2>4 DEF Foldable
    <3>2. pick[s] \in S /\ p[pick[s]] \in V
      BY <3>1
    <3>3. turn[<<pick[s], p[pick[s]]>>] \in V
      BY <3>2 DEF Foldable
    <3> QED
      BY <2>2, <2>4, <3>3
  <2> QED
    BY <2>2, <2>3, <2>4
<1>5. \A s \in SUBSET S : \A p \in [s -> V] : all[<<s, p>>] \in V
  BY <1>4
<1>6. PICK g \in [SUBSET S -> V] : \A s \in SUBSET S : Recursive(S, all, g, s)
  BY <1>5, PartRecursion
<1>7. ASSUME NEW s \in SUBSET S
      PROVE  Defined(S, turn, pick, base, g, s)
  <2>1. PICK p : p = [x \in s |-> g[s \ {x}]]
    OBVIOUS
  <2>2. p \in [s -> V]
    BY <2>1
  <2>3. g[s] = IF s = {} THEN base ELSE turn[<<pick[s], p[pick[s]]>>]
    BY <1>4, <1>6, <2>1, <2>2 DEF Recursive
  <2>4. CASE s = {}
    BY <2>3, <2>4 DEF Defined
  <2>5. CASE s # {}
    <3>1. pick[s] \in s
      BY <2>5 DEF Foldable
    <3>2. p[pick[s]] = g[s \ {pick[s]}]
      BY <2>1, <3>1
    <3> QED
      BY <2>3, <2>5, <3>2 DEF Defined
  <2> QED
    BY <2>4, <2>5
<1> QED
  BY <1>7

(* Of finitely many numbers one is the least. *)
LEMMA LeastMember ==
  ASSUME NEW D, IsFiniteSet(D), D # {}, NEW f \in [D -> Int]
  PROVE  \E e \in D : \A x \in D : f[e] <= f[x]
<1>1. \A e \in D : f[e] \in Int
  OBVIOUS
<1>2. PICK W : W = {s \in SUBSET D :
                      s = {} \/ \E e \in s : \A x \in s : f[e] <= f[x]}
  OBVIOUS
<1>3. ASSUME NEW s \in SUBSET D, \A x \in s : s \ {x} \in W, s # {}
      PROVE  \E e \in s : \A x \in s : f[e] <= f[x]
  <2>1. PICK y \in s : TRUE
    BY <1>3
  <2>2. PICK r \in SUBSET D : r = s \ {y}
    OBVIOUS
  <2>3. f[y] \in Int
    BY <1>1
  <2>4. CASE r = {}
    <3>1. \A x \in s : x = y
      BY <2>2, <2>4
    <3> QED
      BY <2>3, <3>1
  <2>5. CASE r # {}
    <3>1. PICK e \in r : \A x \in r : f[e] <= f[x]
      BY <1>2, <1>3, <2>2, <2>5
    <3>2. f[e] \in Int /\ e \in s /\ \A x \in s : x = y \/ x \in r
      BY <1>1, <2>2
    <3>3. CASE f[e] <= f[y]
      <4>1. \A x \in s : f[e] <= f[x]
        BY <3>1, <3>2, <3>3
      <4> QED
        BY <3>2, <4>1
    <3>4. CASE ~ (f[e] <= f[y])
      <4>1. ASSUME NEW x \in s
            PROVE  f[y] <= f[x]
        <5>1. CASE x = y
          BY <2>3, <5>1
        <5>2. CASE x \in r
          <6>1. f[x] \in Int
            BY <1>1
          <6> QED
            BY <2>3, <3>1, <3>2, <3>4, <5>2, <6>1
        <5> QED
          BY <3>2, <5>1, <5>2
      <4> QED
        BY <4>1
    <3> QED
      BY <3>3, <3>4
  <2> QED
    BY <2>4, <2>5
<1>4. Inductive(D, W)
  BY <1>2, <1>3 DEF Inductive
<1>5. D \in W
  BY <1>4, PartInduction
<1> QED
  BY <1>2, <1>5

(* Sums of integers, as above for naturals. *)
IsIntSums(S, f, a) ==
  /\ a[{}] = 0
  /\ \A s \in SUBSET S : a[s] \in Int
  /\ \A s \in SUBSET S : \A x \in s : a[s] = f[x] + a[s \ {x}]

LEMMA IntSumFacts ==
  ASSUME NEW S, IsFiniteSet(S), NEW f \in [S -> Int]
  PROVE  /\ IsIntSums(S, f, SumsOf(f))
         /\ SumOf(f) = SumsOf(f)[S]
         /\ SumOf(f) \in Int
<1>1. PICK turn : turn = [p \in S \X Int |-> f[p[1]] + p[2]]
  OBVIOUS
<1>2. PICK pick : pick = [s \in SUBSET S |-> Part(s)]
  OBVIOUS
<1>3. \A x \in S, v \in Int : turn[<<x, v>>] = f[x] + v /\ turn[<<x, v>>] \in Int
  BY <1>1
<1>4. \A s \in SUBSET S : s # {} => Part(s) \in s /\ pick[s] = Part(s) /\ pick[s] \in s
  BY <1>2, PartFacts
<1>5. PICK g \in [SUBSET S -> Int] :
         \A s \in SUBSET S : Defined(S, turn, pick, 0, g, s)
  <2>1. \A x \in S, v \in Int : turn[<<x, v>>] \in Int
    BY <1>3
  <2>2. \A s \in SUBSET S : s # {} => pick[s] \in s
    BY <1>4
  <2>3. Foldable(S, Int, turn, pick) /\ 0 \in Int
    BY <2>1, <2>2 DEF Foldable
  <2> QED
    BY <2>3, FoldExists
<1>6. ASSUME NEW s \in SUBSET S
      PROVE  g[s] = IF s = {} THEN 0 ELSE f[Part(s)] + g[s \ {Part(s)}]
  <2>1. CASE s = {}
    BY <1>5, <2>1 DEF Defined
  <2>2. CASE s # {}
    <3>1. g[s] = turn[<<Part(s), g[s \ {Part(s)}]>>] /\ Part(s) \in S
      BY <1>4, <1>5, <2>2 DEF Defined
    <3>2. g[s \ {Part(s)}] \in Int
      OBVIOUS
    <3> QED
      BY <1>3, <2>2, <3>1, <3>2
  <2> QED
    BY <2>1, <2>2
<1>7. Summed(f, g)
  BY <1>6 DEF Summed
<1>8. PICK a : a = SumsOf(f)
  OBVIOUS
<1>9. Summed(f, a)
  BY <1>7, <1>8 DEF SumsOf
<1>10. \A s \in SUBSET S : a[s] = IF s = {} THEN 0 ELSE f[Part(s)] + a[s \ {Part(s)}]
  BY <1>9 DEF Summed
<1>11. ASSUME NEW W, W = {s \in SUBSET S : a[s] \in Int}
       PROVE  SUBSET S \subseteq W
  <2>1. ASSUME NEW s \in SUBSET S, \A x \in s : s \ {x} \in W
        PROVE  s \in W
    <3>1. CASE s = {}
      <4>1. a[s] = 0
        BY <1>10, <3>1
      <4> QED
        BY <1>11, <4>1
    <3>2. CASE s # {}
      <4>1. PICK x \in s : x = Part(s)
        BY <1>4, <3>2
      <4>2. a[s \ {x}] \in Int /\ f[x] \in Int
        BY <1>11, <2>1
      <4>3. a[s] = f[x] + a[s \ {x}]
        BY <1>10, <3>2, <4>1
      <4> QED
        BY <1>11, <4>2, <4>3
    <3> QED
      BY <3>1, <3>2
  <2>2. Inductive(S, W)
    BY <2>1 DEF Inductive
  <2> QED
    BY <2>2, PartInduction
<1>12. \A s \in SUBSET S : a[s] \in Int
  <2>1. PICK W : W = {s \in SUBSET S : a[s] \in Int}
    OBVIOUS
  <2>2. SUBSET S \subseteq W
    BY <1>11, <2>1
  <2> QED
    BY <2>1, <2>2
<1>13. ASSUME NEW W, W = {s \in SUBSET S : \A x \in s : a[s] = f[x] + a[s \ {x}]}
       PROVE  SUBSET S \subseteq W
  <2>1. ASSUME NEW s \in SUBSET S, \A x \in s : s \ {x} \in W
        PROVE  s \in W
    <3>1. ASSUME NEW x \in s
          PROVE  a[s] = f[x] + a[s \ {x}]
      <4>1. PICK c \in s : c = Part(s)
        BY <1>4
      <4>2. a[s] = f[c] + a[s \ {c}]
        BY <1>10, <4>1
      <4>3. CASE c = x
        BY <4>2, <4>3
      <4>4. CASE c # x
        <5>1. s \ {c} \in W /\ s \ {x} \in W /\ x \in s \ {c} /\ c \in s \ {x}
          BY <2>1, <4>4
        <5>2. (s \ {x}) \ {c} = (s \ {c}) \ {x}
          OBVIOUS
        <5>3. PICK r : r = (s \ {c}) \ {x}
          OBVIOUS
        <5>4. a[s \ {c}] = f[x] + a[r] /\ a[s \ {x}] = f[c] + a[r]
          BY <1>13, <5>1, <5>2, <5>3
        <5>5. r \in SUBSET S /\ x \in S /\ c \in S
          BY <5>3
        <5>6. a[r] \in Int /\ f[x] \in Int /\ f[c] \in Int
          BY <1>12, <5>5
        <5> QED
          BY <4>2, <5>4, <5>6
      <4> QED
        BY <4>3, <4>4
    <3> QED
      BY <1>13, <3>1
  <2>2. Inductive(S, W)
    BY <2>1 DEF Inductive
  <2> QED
    BY <2>2, PartInduction
<1>14. \A s \in SUBSET S : \A x \in s : a[s] = f[x] + a[s \ {x}]
  <2>1. PICK W : W = {s \in SUBSET S : \A x \in s : a[s] = f[x] + a[s \ {x}]}
    OBVIOUS
  <2>2. SUBSET S \subseteq W
    BY <1>13, <2>1
  <2> QED
    BY <2>1, <2>2
<1>15. SumOf(f) = a[S]
  BY <1>8, SumOfIs
<1>16. a[{}] = 0
  BY <1>10
<1> QED
  BY <1>8, <1>12, <1>14, <1>15, <1>16 DEF IsIntSums

(* The sum of sums. *)
LEMMA IntSumAdds ==
  ASSUME NEW S, IsFiniteSet(S), NEW f \in [S -> Int], NEW g \in [S -> Int],
         NEW h \in [S -> Int], \A x \in S : h[x] = f[x] + g[x]
  PROVE  SumOf(h) = SumOf(f) + SumOf(g)
<1>1. PICK a, b, c : a = SumsOf(f) /\ b = SumsOf(g) /\ c = SumsOf(h)
  OBVIOUS
<1>2. /\ IsIntSums(S, f, a) /\ IsIntSums(S, g, b) /\ IsIntSums(S, h, c)
      /\ SumOf(f) = a[S] /\ SumOf(g) = b[S] /\ SumOf(h) = c[S]
  BY <1>1, IntSumFacts
<1>3. ASSUME NEW W, W = {s \in SUBSET S : c[s] = a[s] + b[s]}
      PROVE  SUBSET S \subseteq W
  <2>1. ASSUME NEW s \in SUBSET S, \A x \in s : s \ {x} \in W
        PROVE  s \in W
    <3>1. CASE s = {}
      BY <1>2, <1>3, <3>1 DEF IsIntSums
    <3>2. CASE s # {}
      <4>1. PICK x \in s : TRUE
        BY <3>2
      <4>2. PICK r \in SUBSET S : r = s \ {x}
        OBVIOUS
      <4>3. a[s] = f[x] + a[r] /\ b[s] = g[x] + b[r] /\ c[s] = h[x] + c[r]
        BY <1>2, <4>2 DEF IsIntSums
      <4>4. a[r] \in Int /\ b[r] \in Int /\ f[x] \in Int /\ g[x] \in Int
        BY <1>2 DEF IsIntSums
      <4>5. c[r] = a[r] + b[r] /\ h[x] = f[x] + g[x]
        BY <1>3, <2>1, <4>2
      <4> QED
        BY <1>3, <4>3, <4>4, <4>5
    <3> QED
      BY <3>1, <3>2
  <2>2. Inductive(S, W)
    BY <2>1 DEF Inductive
  <2> QED
    BY <2>2, PartInduction
<1>4. PICK W : W = {s \in SUBSET S : c[s] = a[s] + b[s]}
  OBVIOUS
<1>5. S \in W
  BY <1>3, <1>4
<1> QED
  BY <1>2, <1>4, <1>5

(* The sum where one element alone counts. *)
LEMMA IntSumOfOne ==
  ASSUME NEW S, IsFiniteSet(S), NEW f \in [S -> Int], NEW e \in S,
         \A x \in S : x # e => f[x] = 0
  PROVE  SumOf(f) = f[e]
<1>1. PICK a : a = SumsOf(f)
  OBVIOUS
<1>2. IsIntSums(S, f, a) /\ SumOf(f) = a[S]
  BY <1>1, IntSumFacts
<1>3. ASSUME NEW W, W = {s \in SUBSET S : a[s] = IF e \in s THEN f[e] ELSE 0}
      PROVE  SUBSET S \subseteq W
  <2>1. ASSUME NEW s \in SUBSET S, \A x \in s : s \ {x} \in W
        PROVE  s \in W
    <3>1. CASE s = {}
      BY <1>2, <1>3, <3>1 DEF IsIntSums
    <3>2. CASE e \in s
      <4>1. a[s] = f[e] + a[s \ {e}]
        BY <1>2, <3>2 DEF IsIntSums
      <4>2. a[s \ {e}] = 0
        BY <1>3, <2>1, <3>2
      <4> QED
        BY <1>3, <3>2, <4>1, <4>2
    <3>3. CASE s # {} /\ e \notin s
      <4>1. PICK x \in s : TRUE
        BY <3>3
      <4>2. a[s] = f[x] + a[s \ {x}]
        BY <1>2 DEF IsIntSums
      <4>3. a[s \ {x}] = 0 /\ f[x] = 0
        BY <1>3, <2>1, <3>3
      <4> QED
        BY <1>3, <3>3, <4>2, <4>3
    <3> QED
      BY <3>1, <3>2, <3>3
  <2>2. Inductive(S, W)
    BY <2>1 DEF Inductive
  <2> QED
    BY <2>2, PartInduction
<1>4. PICK W : W = {s \in SUBSET S : a[s] = IF e \in s THEN f[e] ELSE 0}
  OBVIOUS
<1>5. S \in W
  BY <1>3, <1>4
<1> QED
  BY <1>2, <1>4, <1>5

LEMMA IntSumOfNothing ==
  ASSUME NEW S, IsFiniteSet(S), NEW f \in [S -> Int], \A x \in S : f[x] = 0
  PROVE  SumOf(f) = 0
<1>1. CASE S = {}
  <2>1. SumOf(f) = SumsOf(f)[S] /\ IsIntSums(S, f, SumsOf(f))
    BY IntSumFacts
  <2> QED
    BY <1>1, <2>1 DEF IsIntSums
<1>2. CASE S # {}
  <2>1. PICK e \in S : TRUE
    BY <1>2
  <2>2. SumOf(f) = f[e]
    BY <2>1, IntSumOfOne
  <2> QED
    BY <2>2
<1> QED
  BY <1>1, <1>2


\* A sum taken in two parts.
Parted(S, f, T, g, R, h) ==
  /\ IsFiniteSet(S) /\ f \in [S -> Int]
  /\ T \in SUBSET S /\ g \in [T -> Int] /\ \A x \in T : g[x] = f[x]
  /\ R = S \ T /\ h \in [R -> Int] /\ \A x \in R : h[x] = f[x]

LEMMA IntSumSplit ==
  ASSUME NEW S, NEW f, NEW T, NEW g, NEW R, NEW h, Parted(S, f, T, g, R, h)
  PROVE  SumOf(f) = SumOf(g) + SumOf(h)
<1> /\ IsFiniteSet(S) /\ f \in [S -> Int]
    /\ T \in SUBSET S /\ g \in [T -> Int] /\ \A x \in T : g[x] = f[x]
    /\ R = S \ T /\ h \in [R -> Int] /\ \A x \in R : h[x] = f[x]
  BY DEF Parted
<1>1. IsFiniteSet(T) /\ IsFiniteSet(S \ T) /\ g \in [T -> Int] /\ h \in [S \ T -> Int]
  BY FS_Subset
<1>2. PICK a, b, c : a = SumsOf(f) /\ b = SumsOf(g) /\ c = SumsOf(h)
  OBVIOUS
<1>3. /\ IsIntSums(S, f, a) /\ IsIntSums(T, g, b) /\ IsIntSums(S \ T, h, c)
      /\ SumOf(f) = a[S] /\ SumOf(g) = b[T] /\ SumOf(h) = c[S \ T]
  BY <1>1, <1>2, IntSumFacts
<1>4. ASSUME NEW W, W = {s \in SUBSET S : a[s] = b[s \cap T] + c[s \ T]}
      PROVE  SUBSET S \subseteq W
  <2>1. ASSUME NEW s \in SUBSET S, \A x \in s : s \ {x} \in W
        PROVE  s \in W
    <3>1. CASE s = {}
      <4>1. s \cap T = {} /\ s \ T = {}
        BY <3>1
      <4>2. a[{}] = 0 /\ b[{}] = 0 /\ c[{}] = 0
        BY <1>3 DEF IsIntSums
      <4> QED
        BY <1>4, <3>1, <4>1, <4>2
    <3>2. CASE s # {}
      <4>1. PICK x \in s : TRUE
        BY <3>2
      <4>2. a[s] = f[x] + a[s \ {x}] /\ f[x] \in Int
        BY <1>3 DEF IsIntSums
      <4>3. a[s \ {x}] = b[(s \ {x}) \cap T] + c[(s \ {x}) \ T]
        BY <1>4, <2>1
      <4>4. PICK u \in Int, v \in Int : u = b[(s \ {x}) \cap T] /\ v = c[(s \ {x}) \ T]
        <5>1. (s \ {x}) \cap T \in SUBSET T /\ (s \ {x}) \ T \in SUBSET (S \ T)
          OBVIOUS
        <5> QED
          BY <1>3, <5>1 DEF IsIntSums
      <4>5. CASE x \in T
        <5>1. (s \ {x}) \ T = s \ T /\ (s \ {x}) \cap T = (s \cap T) \ {x} /\ x \in s \cap T
              /\ s \cap T \in SUBSET T
          BY <4>5
        <5>2. b[s \cap T] = f[x] + u /\ c[s \ T] = v
          <6>1. PICK t \in SUBSET T : t = s \cap T /\ x \in t
            BY <5>1
          <6>2. b[t] = g[x] + b[t \ {x}]
            BY <1>3, <6>1 DEF IsIntSums
          <6>3. g[x] = f[x] /\ b[t \ {x}] = u
            BY <4>4, <4>5, <5>1, <6>1
          <6> QED
            BY <4>4, <5>1, <6>1, <6>2, <6>3
        <5>3. a[s] = f[x] + (u + v)
          BY <4>2, <4>3, <4>4
        <5>4. a[s] = b[s \cap T] + c[s \ T]
          BY <4>2, <5>2, <5>3
        <5> QED
          BY <1>4, <5>4
      <4>6. CASE x \notin T
        <5>1. (s \ {x}) \cap T = s \cap T /\ (s \ {x}) \ T = (s \ T) \ {x} /\ x \in s \ T
              /\ s \ T \in SUBSET (S \ T)
          BY <4>6
        <5>2. c[s \ T] = f[x] + v /\ b[s \cap T] = u
          <6>1. PICK t \in SUBSET (S \ T) : t = s \ T /\ x \in t
            BY <5>1
          <6>2. c[t] = h[x] + c[t \ {x}]
            BY <1>3, <6>1 DEF IsIntSums
          <6>3. h[x] = f[x] /\ c[t \ {x}] = v
            BY <4>4, <4>6, <5>1, <6>1
          <6> QED
            BY <4>4, <5>1, <6>1, <6>2, <6>3
        <5>3. a[s] = f[x] + (u + v)
          BY <4>2, <4>3, <4>4
        <5>4. a[s] = b[s \cap T] + c[s \ T]
          BY <4>2, <5>2, <5>3
        <5> QED
          BY <1>4, <5>4
      <4> QED
        BY <4>5, <4>6
    <3> QED
      BY <3>1, <3>2
  <2>2. Inductive(S, W)
    BY <2>1 DEF Inductive
  <2> QED
    BY <2>2, PartInduction
<1>5. PICK W : W = {s \in SUBSET S : a[s] = b[s \cap T] + c[s \ T]}
  OBVIOUS
<1>6. S \in W
  BY <1>4, <1>5
<1>7. S \cap T = T
  OBVIOUS
<1> QED
  BY <1>3, <1>5, <1>6, <1>7

\* The same terms under other names.
Renames(r, S, f, T, g) ==
  /\ IsFiniteSet(S) /\ f \in [S -> Int] /\ g \in [T -> Int]
  /\ r \in [S -> T]
  /\ \A x, y \in S : r[x] = r[y] => x = y
  /\ \A t \in T : \E x \in S : r[x] = t
  /\ \A x \in S : f[x] = g[r[x]]

LEMMA IntSumRenamed ==
  ASSUME NEW S, NEW f, NEW T, NEW g, NEW r, Renames(r, S, f, T, g)
  PROVE  IsFiniteSet(T) /\ SumOf(f) = SumOf(g)
<1> /\ IsFiniteSet(S) /\ f \in [S -> Int] /\ g \in [T -> Int]
    /\ r \in [S -> T]
    /\ \A x, y \in S : r[x] = r[y] => x = y
    /\ \A t \in T : \E x \in S : r[x] = t
    /\ \A x \in S : f[x] = g[r[x]]
  BY DEF Renames
<1>1. r \in Surjection(S, T)
  BY DEF Surjection
<1>2. IsFiniteSet(T)
  BY <1>1, FS_Surjection
<1>3. PICK a, b : a = SumsOf(f) /\ b = SumsOf(g)
  OBVIOUS
<1>4. /\ IsIntSums(S, f, a) /\ IsIntSums(T, g, b)
      /\ SumOf(f) = a[S] /\ SumOf(g) = b[T]
  BY <1>2, <1>3, IntSumFacts
<1>5. ASSUME NEW W, W = {s \in SUBSET S : a[s] = b[{r[x] : x \in s}]}
      PROVE  SUBSET S \subseteq W
  <2>1. ASSUME NEW s \in SUBSET S, \A x \in s : s \ {x} \in W
        PROVE  s \in W
    <3>1. CASE s = {}
      <4>1. {r[x] : x \in s} = {}
        BY <3>1
      <4>2. a[{}] = 0 /\ b[{}] = 0
        BY <1>4 DEF IsIntSums
      <4> QED
        BY <1>5, <3>1, <4>1, <4>2
    <3>2. CASE s # {}
      <4>1. PICK x \in s : TRUE
        BY <3>2
      <4>2. a[s] = f[x] + a[s \ {x}]
        BY <1>4 DEF IsIntSums
      <4>3. a[s \ {x}] = b[{r[y] : y \in s \ {x}}]
        BY <1>5, <2>1
      <4>4. {r[y] : y \in s} \in SUBSET T /\ r[x] \in {r[y] : y \in s}
        OBVIOUS
      <4>5. {r[y] : y \in s \ {x}} = {r[y] : y \in s} \ {r[x]}
        OBVIOUS
      <4>6. b[{r[y] : y \in s}] = g[r[x]] + b[{r[y] : y \in s} \ {r[x]}]
        BY <1>4, <4>4 DEF IsIntSums
      <4> QED
        BY <1>5, <4>2, <4>3, <4>5, <4>6
    <3> QED
      BY <3>1, <3>2
  <2>2. Inductive(S, W)
    BY <2>1 DEF Inductive
  <2> QED
    BY <2>2, PartInduction
<1>6. PICK W : W = {s \in SUBSET S : a[s] = b[{r[x] : x \in s}]}
  OBVIOUS
<1>7. S \in W
  BY <1>5, <1>6
<1>8. {r[x] : x \in S} = T
  OBVIOUS
<1> QED
  BY <1>2, <1>4, <1>6, <1>7, <1>8

\* One term changes.
ChangesAt(x, S, f, g) ==
  /\ IsFiniteSet(S) /\ f \in [S -> Int] /\ g \in [S -> Int]
  /\ x \in S /\ \A y \in S : y # x => g[y] = f[y]

LEMMA IntSumChanged ==
  ASSUME NEW S, NEW f, NEW g, NEW x, ChangesAt(x, S, f, g)
  PROVE  SumOf(g) = SumOf(f) + (g[x] - f[x])
<1> /\ IsFiniteSet(S) /\ f \in [S -> Int] /\ g \in [S -> Int]
    /\ x \in S /\ \A y \in S : y # x => g[y] = f[y]
  BY DEF ChangesAt
<1>1. PICK d : d = [y \in S |-> g[y] - f[y]]
  OBVIOUS
<1>2. d \in [S -> Int] /\ \A y \in S : d[y] = g[y] - f[y]
  BY <1>1
<1>3. \A y \in S : f[y] \in Int /\ g[y] \in Int
  OBVIOUS
<1>4. \A y \in S : g[y] = f[y] + d[y]
  BY <1>2, <1>3
<1>5. SumOf(g) = SumOf(f) + SumOf(d)
  BY <1>2, <1>4, IntSumAdds
<1>6. \A y \in S : y # x => d[y] = 0
  BY <1>2, <1>3
<1>7. SumOf(d) = d[x]
  BY <1>2, <1>6, IntSumOfOne
<1> QED
  BY <1>2, <1>5, <1>7

(***************************************************************************)
(* Least and greatest.                                                     *)
(***************************************************************************)
LEMMA LeastOfSet ==
  ASSUME NEW V \in SUBSET Int, IsFiniteSet(V), V # {}
  PROVE  Min(V) \in V /\ \A v \in V : Min(V) <= v
<1>1. PICK f : f = [v \in V |-> v]
  OBVIOUS
<1>2. f \in [V -> Int]
  BY <1>1
<1>3. \E e \in V : \A v \in V : f[e] <= f[v]
  BY <1>2, LeastMember
<1>4. \E e \in V : \A v \in V : e <= v
  BY <1>1, <1>3
<1> QED
  BY <1>4 DEF Min

LEMMA ImageFinite ==
  ASSUME NEW S, IsFiniteSet(S), NEW f, DOMAIN f = S, f = [x \in S |-> f[x]]
  PROVE  IsFiniteSet(Range(f))
<1>1. f \in Surjection(S, Range(f))
  BY DEF Surjection, Range
<1> QED
  BY <1>1, FS_Surjection

LEMMA MaxOfTwo ==
  ASSUME NEW a \in Nat, NEW b \in Nat
  PROVE  Max({a, b}) = IF a >= b THEN a ELSE b
<1>1. \E y \in {a, b} : \A z \in {a, b} : y >= z
  OBVIOUS
<1>2. Max({a, b}) \in {a, b} /\ Max({a, b}) >= a /\ Max({a, b}) >= b
  BY <1>1 DEF Max
<1> QED
  BY <1>2

LEMMA GreatestIs ==
  ASSUME NEW T, NEW m \in T, m \in Nat, \A x \in T : x \in Nat /\ x <= m
  PROVE  Max(T) = m
<1>1. \E y \in T : \A z \in T : y >= z
  OBVIOUS
<1>2. Max(T) \in T /\ \A z \in T : Max(T) >= z
  BY <1>1 DEF Max
<1>3. PICK x : x = Max(T)
  OBVIOUS
<1>4. x \in Nat /\ x >= m /\ x <= m
  BY <1>2, <1>3
<1>5. x = m
  BY <1>4
<1> QED
  BY <1>3, <1>5

(***************************************************************************)
(* A sequence that is appended to, and one without its head.               *)
(***************************************************************************)
LEMMA Appended ==
  ASSUME NEW S, NEW q \in Seq(S), NEW out \in Seq(S)
  PROVE  /\ q \o out \in Seq(S)
         /\ \A n \in DOMAIN (q \o out) : \/ \E m \in DOMAIN q : (q \o out)[n] = q[m]
                                         \/ \E m \in DOMAIN out : (q \o out)[n] = out[m]
         /\ \A m \in DOMAIN q : m \in DOMAIN (q \o out) /\ (q \o out)[m] = q[m]
         /\ \A m \in DOMAIN out : /\ Len(q) + m \in DOMAIN (q \o out)
                                  /\ (q \o out)[Len(q) + m] = out[m]
<1>1. PICK a \in Nat, b \in Nat :
        a = Len(q) /\ b = Len(out) /\ DOMAIN q = 1..a /\ DOMAIN out = 1..b
  OBVIOUS
<1>2. PICK r : r = q \o out
  OBVIOUS
<1>3. r \in Seq(S) /\ DOMAIN r = 1..(a + b)
  BY <1>1, <1>2
<1>4. \A n \in 1..(a + b) : r[n] = IF n <= a THEN q[n] ELSE out[n - a]
  BY <1>1, <1>2
<1>5. ASSUME NEW n \in DOMAIN r
      PROVE  (\E m \in DOMAIN q : r[n] = q[m]) \/ (\E m \in DOMAIN out : r[n] = out[m])
  <2>1. CASE n <= a
    <3>1. n \in 1..a /\ r[n] = q[n]
      BY <1>3, <1>4, <2>1
    <3> QED
      BY <1>1, <3>1
  <2>2. CASE ~ (n <= a)
    <3>1. n - a \in 1..b /\ r[n] = out[n - a]
      BY <1>3, <1>4, <2>2
    <3> QED
      BY <1>1, <3>1
  <2> QED
    BY <2>1, <2>2
<1>6. ASSUME NEW m \in DOMAIN q
      PROVE  m \in DOMAIN r /\ r[m] = q[m]
  BY <1>1, <1>3, <1>4
<1>7. ASSUME NEW m \in DOMAIN out
      PROVE  a + m \in DOMAIN r /\ r[a + m] = out[m]
  <2>1. m \in 1..b /\ a + m \in 1..(a + b) /\ ~ (a + m <= a) /\ (a + m) - a = m
    BY <1>1
  <2> QED
    BY <1>3, <1>4, <2>1
<1> QED
  BY <1>1, <1>2, <1>3, <1>5, <1>6, <1>7

LEMMA Shortened ==
  ASSUME NEW S, NEW q \in Seq(S), q # <<>>
  PROVE  /\ Tail(q) \in Seq(S) /\ Head(q) \in S
         /\ 1 \in DOMAIN q /\ Head(q) = q[1]
         /\ \A n \in DOMAIN Tail(q) : n + 1 \in DOMAIN q /\ Tail(q)[n] = q[n + 1]
         /\ \A n \in DOMAIN q : n = 1 \/ (n - 1 \in DOMAIN Tail(q) /\ Tail(q)[n - 1] = q[n])
<1>1. PICK a \in Nat : a = Len(q) /\ DOMAIN q = 1..a /\ a # 0
  OBVIOUS
<1>2. PICK r : r = Tail(q)
  OBVIOUS
<1>3. r \in Seq(S) /\ DOMAIN r = 1..(a - 1) /\ \A n \in 1..(a - 1) : r[n] = q[n + 1]
  BY <1>1, <1>2
<1>4. \A n \in 1..a : n = 1 \/ (n - 1 \in 1..(a - 1) /\ (n - 1) + 1 = n)
  BY <1>1
<1>5. \A n \in 1..(a - 1) : n + 1 \in 1..a
  BY <1>1
<1>6. Head(q) = q[1] /\ 1 \in 1..a /\ q[1] \in S
  BY <1>1
<1>7. \A n \in DOMAIN q : n = 1 \/ (n - 1 \in DOMAIN r /\ r[n - 1] = q[n])
  BY <1>1, <1>3, <1>4
<1> QED
  BY <1>1, <1>2, <1>3, <1>5, <1>6, <1>7

Between(low, m, high) == <<low>> \o m \o <<high>>

LEMMA ToldIs ==
  ASSUME NEW low \in Nat, NEW high \in Nat, NEW m \in Seq(Nat)
  PROVE  /\ DOMAIN Between(low, m, high) = 1..(Len(m) + 2)
         /\ Between(low, m, high)[1] = low /\ Between(low, m, high)[Len(m) + 2] = high
         /\ \A x \in 1..Len(m) : Between(low, m, high)[x + 1] = m[x]
<1>1. PICK a \in Seq(Nat), c \in Seq(Nat) :
        a = <<low>> /\ Len(a) = 1 /\ a[1] = low /\ c = <<high>> /\ Len(c) = 1 /\ c[1] = high
  <2>1. <<low>> \in Seq(Nat) /\ Len(<<low>>) = 1 /\ <<low>>[1] = low
    OBVIOUS
  <2>2. <<high>> \in Seq(Nat) /\ Len(<<high>>) = 1 /\ <<high>>[1] = high
    OBVIOUS
  <2> QED
    BY <2>1, <2>2
<1>2. PICK n \in Nat : n = Len(m)
  OBVIOUS
<1>3. PICK b \in Seq(Nat) : b = a \o m
  <2>1. a \o m \in Seq(Nat)
    BY ConcatRow
  <2> QED
    BY <2>1
<1>4. /\ Len(b) = Len(a) + Len(m)
      /\ \A x \in 1..Len(a) : b[x] = a[x]
      /\ \A x \in (Len(a) + 1)..(Len(a) + Len(m)) : b[x] = m[x - Len(a)]
  BY <1>3, ConcatRow
<1>5. PICK told : told = b \o c
  OBVIOUS
<1>6. /\ told \in Seq(Nat) /\ Len(told) = Len(b) + Len(c)
      /\ \A x \in 1..Len(b) : told[x] = b[x]
      /\ \A x \in (Len(b) + 1)..(Len(b) + Len(c)) : told[x] = c[x - Len(b)]
  BY <1>5, ConcatRow
<1>7. Len(b) = n + 1 /\ Len(told) = n + 2 /\ DOMAIN told = 1..Len(told)
  BY <1>1, <1>2, <1>4, <1>6
<1>8. 1 \in 1..Len(a) /\ 1 \in 1..Len(b)
      /\ n + 2 \in (Len(b) + 1)..(Len(b) + Len(c)) /\ (n + 2) - Len(b) = 1
  BY <1>1, <1>7
<1>9. told[1] = low /\ told[n + 2] = high
  BY <1>1, <1>4, <1>6, <1>8
<1>10. ASSUME NEW x \in 1..n
       PROVE  told[x + 1] = m[x]
  <2>1. x + 1 \in 1..Len(b) /\ x + 1 \in (Len(a) + 1)..(Len(a) + Len(m)) /\ (x + 1) - Len(a) = x
    BY <1>1, <1>2, <1>7
  <2> QED
    BY <1>4, <1>6, <2>1
<1>11. told = Between(low, m, high)
  BY <1>1, <1>3, <1>5 DEF Between
<1> QED
  BY <1>2, <1>7, <1>9, <1>10, <1>11

Rises(low, m, high) ==
  /\ low <= high
  /\ \A x \in 1..Len(m) : low <= m[x] /\ m[x] <= high
  /\ \A x, y \in 1..Len(m) : x <= y => m[x] <= m[y]

LEMMA ToldRises ==
  ASSUME NEW low \in Nat, NEW high \in Nat, NEW m \in Seq(Nat), Rises(low, m, high),
         NEW i \in DOMAIN Between(low, m, high), NEW j \in DOMAIN Between(low, m, high), i <= j
  PROVE  Between(low, m, high)[i] <= Between(low, m, high)[j]
<1>1. PICK n \in Nat : n = Len(m)
  OBVIOUS
<1>2. PICK told : told = Between(low, m, high)
  OBVIOUS
<1>3. /\ DOMAIN told = 1..(n + 2) /\ told[1] = low /\ told[n + 2] = high
      /\ \A x \in 1..n : told[x + 1] = m[x]
  <2>1. /\ DOMAIN Between(low, m, high) = 1..(Len(m) + 2)
        /\ Between(low, m, high)[1] = low /\ Between(low, m, high)[Len(m) + 2] = high
        /\ \A x \in 1..Len(m) : Between(low, m, high)[x + 1] = m[x]
    BY ToldIs
  <2> QED
    BY <1>1, <1>2, <2>1
<1>4. /\ low <= high /\ \A x \in 1..n : low <= m[x] /\ m[x] <= high
      /\ \A x, y \in 1..n : x <= y => m[x] <= m[y]
  BY <1>1 DEF Rises
<1>5. i \in 1..(n + 2) /\ j \in 1..(n + 2)
  BY <1>2, <1>3
<1>6. \A x \in 2..(n + 1) : x - 1 \in 1..n /\ told[x] = m[x - 1]
  <2> SUFFICES ASSUME NEW x \in 2..(n + 1)
               PROVE  x - 1 \in 1..n /\ told[x] = m[x - 1]
    OBVIOUS
  <2>1. x - 1 \in 1..n /\ (x - 1) + 1 = x
    OBVIOUS
  <2> QED
    BY <1>3, <2>1
<1>7. CASE i \in 2..(n + 1) /\ j \in 2..(n + 1)
  <2>1. i - 1 <= j - 1 /\ i - 1 \in 1..n /\ j - 1 \in 1..n
    BY <1>7
  <2>2. m[i - 1] <= m[j - 1]
    BY <1>4, <2>1
  <2> QED
    BY <1>2, <1>6, <1>7, <2>2
<1>8. CASE i = 1 \/ j = n + 2
  <2>1. \A x \in 1..(n + 2) : x = 1 \/ x = n + 2 \/ x \in 2..(n + 1)
    OBVIOUS
  <2>2. \A x \in 1..(n + 2) : low <= told[x] /\ told[x] <= high
    <3> SUFFICES ASSUME NEW x \in 1..(n + 2)
                 PROVE  low <= told[x] /\ told[x] <= high
      OBVIOUS
    <3>1. CASE x \in 2..(n + 1)
      BY <1>4, <1>6, <3>1
    <3>2. CASE x = 1 \/ x = n + 2
      BY <1>3, <1>4, <3>2
    <3> QED
      BY <2>1, <3>1, <3>2
  <2> QED
    BY <1>2, <1>3, <1>5, <1>8, <2>2
<1>9. (i \in 2..(n + 1) /\ j \in 2..(n + 1)) \/ i = 1 \/ j = n + 2
  BY <1>5
<1> QED
  BY <1>7, <1>8, <1>9

(***************************************************************************)
(* Sums over the members of a queue that belong.                           *)
(***************************************************************************)
\* A part of an array whose members lose what is added elsewhere.
AddUp(S, f, g, h) ==
  /\ IsFiniteSet(S) /\ f \in [S -> Int] /\ g \in [S -> Int] /\ h \in [S -> Int]
  /\ \A x \in S : h[x] = f[x] + g[x]

LEMMA SumOfShares ==
  ASSUME NEW S, NEW f, NEW g, NEW h, AddUp(S, f, g, h)
  PROVE  /\ SumOf(h) = SumOf(f) + SumOf(g)
         /\ SumOf(f) \in Int /\ SumOf(g) \in Int /\ SumOf(h) \in Int
BY IntSumAdds, IntSumFacts DEF AddUp

At(q, D) == {i \in DOMAIN q : q[i] \in D}
OnWay(q, D) == SumOf([i \in At(q, D) |-> q[i].value])

LEMMA AtFacts ==
  ASSUME NEW S, \A d \in S : d.value \in Int, NEW q \in Seq(S), NEW D
  PROVE  /\ IsFiniteSet(At(q, D))
         /\ [i \in At(q, D) |-> q[i].value] \in [At(q, D) -> Int]
         /\ OnWay(q, D) \in Int
<1>1. PICK n \in Nat : n = Len(q) /\ DOMAIN q = 1..n
  OBVIOUS
<1>2. At(q, D) \in SUBSET (1..n) /\ IsFiniteSet(1..n)
  BY <1>1, FS_Interval DEF At
<1>3. IsFiniteSet(At(q, D))
  BY <1>2, FS_Subset
<1>4. \A i \in At(q, D) : q[i].value \in Int
  BY <1>1, <1>2
<1>5. PICK T : T = At(q, D)
  OBVIOUS
<1>6. PICK f : f = [i \in T |-> q[i].value]
  OBVIOUS
<1>7. f \in [T -> Int]
  BY <1>4, <1>5, <1>6
<1>8. SumOf(f) \in Int
  BY <1>3, <1>5, <1>7, IntSumFacts
<1> QED
  BY <1>3, <1>5, <1>6, <1>7, <1>8 DEF OnWay

LEMMA OnWayAppended ==
  ASSUME NEW S, \A d \in S : d.value \in Int, NEW q \in Seq(S), NEW out \in Seq(S), NEW D
  PROVE  OnWay(q \o out, D) = OnWay(q, D) + OnWay(out, D)
<1>1. PICK a \in Nat, b \in Nat :
        a = Len(q) /\ b = Len(out) /\ DOMAIN q = 1..a /\ DOMAIN out = 1..b
  OBVIOUS
<1>2. PICK r : r = q \o out
  OBVIOUS
<1>3. r \in Seq(S) /\ DOMAIN r = 1..(a + b)
  BY <1>1, <1>2
<1>4. \A n \in 1..(a + b) : r[n] = IF n <= a THEN q[n] ELSE out[n - a]
  BY <1>1, <1>2
<1>5. PICK R, Q, O : R = At(r, D) /\ Q = At(q, D) /\ O = At(out, D)
  OBVIOUS
<1>6. PICK f, g, h : /\ f = [i \in R |-> r[i].value]
                     /\ g = [i \in Q |-> q[i].value]
                     /\ h = [i \in O |-> out[i].value]
  OBVIOUS
<1>7. /\ IsFiniteSet(R) /\ IsFiniteSet(Q) /\ IsFiniteSet(O)
      /\ f \in [R -> Int] /\ g \in [Q -> Int] /\ h \in [O -> Int]
  BY <1>3, <1>5, <1>6, AtFacts
<1>8. Q \in SUBSET R /\ \A i \in Q : g[i] = f[i]
  <2>1. \A i \in Q : i \in 1..a /\ i \in 1..(a + b) /\ i <= a /\ q[i] \in D
    BY <1>1, <1>5 DEF At
  <2>2. \A i \in Q : r[i] = q[i]
    BY <1>4, <2>1
  <2>3. \A i \in Q : i \in R
    BY <1>3, <1>5, <2>1, <2>2 DEF At
  <2> QED
    BY <1>6, <2>2, <2>3
<1>10. PICK U, rest : U = R \ Q /\ rest = [i \in U |-> f[i]]
  OBVIOUS
<1>11. SumOf(f) = SumOf(g) + SumOf(rest)
  <2>1. IsFiniteSet(R) /\ f \in [R -> Int]
    BY <1>7
  <2>2. Q \in SUBSET R /\ g \in [Q -> Int] /\ \A i \in Q : g[i] = f[i]
    BY <1>7, <1>8
  <2>3. rest \in [U -> Int] /\ \A i \in U : rest[i] = f[i]
    BY <1>7, <1>10
  <2>4. Parted(R, f, Q, g, U, rest)
    BY <1>10, <2>1, <2>2, <2>3 DEF Parted
  <2> QED
    BY <2>4, IntSumSplit
<1>12. PICK shift : shift = [i \in O |-> a + i]
  OBVIOUS
<1>13. \A i \in O : i \in 1..b /\ out[i] \in D
  BY <1>1, <1>5 DEF At
<1>14. ASSUME NEW i \in O
       PROVE  a + i \in U /\ rest[a + i] = h[i]
  <2>1. a + i \in 1..(a + b) /\ ~ (a + i <= a) /\ (a + i) - a = i
    BY <1>13
  <2>2. r[a + i] = out[i]
    BY <1>4, <2>1
  <2>3. a + i \in R
    BY <1>3, <1>5, <1>13, <2>1, <2>2 DEF At
  <2>4. a + i \notin Q
    BY <1>1, <1>5, <2>1 DEF At
  <2> QED
    BY <1>6, <1>10, <2>2, <2>3, <2>4
<1>15. ASSUME NEW j \in U
       PROVE  \E i \in O : shift[i] = j
  <2>1. j \in 1..(a + b) /\ r[j] \in D
    BY <1>3, <1>5, <1>10 DEF At
  <2>2. ~ (j <= a)
    <3>1. CASE j <= a
      <4>1. j \in 1..a /\ r[j] = q[j]
        BY <1>4, <2>1, <3>1
      <4> QED
        BY <1>1, <1>5, <1>10, <2>1, <4>1 DEF At
    <3> QED
      BY <3>1
  <2>3. j - a \in 1..b /\ r[j] = out[j - a] /\ a + (j - a) = j
    BY <1>4, <2>1, <2>2
  <2>4. j - a \in O
    BY <1>1, <1>5, <2>1, <2>3 DEF At
  <2> QED
    BY <1>12, <2>3, <2>4
<1>16. rest \in [U -> Int]
  BY <1>7, <1>10
<1>17. shift \in [O -> U] /\ \A i \in O : shift[i] = a + i
  BY <1>12, <1>14
<1>18. \A i, j \in O : shift[i] = shift[j] => i = j
  BY <1>13, <1>17
<1>19. \A i \in O : h[i] = rest[shift[i]]
  BY <1>14, <1>17
<1>20. SumOf(h) = SumOf(rest)
  <2>1. IsFiniteSet(O) /\ h \in [O -> Int]
    BY <1>7
  <2>2. shift \in [O -> U]
    BY <1>17
  <2>3. \A j \in U : \E i \in O : shift[i] = j
    BY <1>15
  <2>4. Renames(shift, O, h, U, rest)
    BY <1>16, <1>18, <1>19, <2>1, <2>2, <2>3 DEF Renames
  <2> QED
    BY <2>4, IntSumRenamed
<1> QED
  BY <1>2, <1>5, <1>6, <1>11, <1>20 DEF OnWay

LEMMA OnWayOfOne ==
  ASSUME NEW S, \A d \in S : d.value \in Int, NEW d \in S, NEW D
  PROVE  OnWay(<<d>>, D) = IF d \in D THEN d.value ELSE 0
<1>1. PICK q \in Seq(S) : q = <<d>> /\ DOMAIN q = {1} /\ q[1] = d
  <2>1. <<d>> \in Seq(S) /\ DOMAIN <<d>> = {1} /\ <<d>>[1] = d
    OBVIOUS
  <2> QED
    BY <2>1
<1>2. PICK T : T = At(q, D)
  OBVIOUS
<1>3. PICK f : f = [i \in T |-> q[i].value]
  OBVIOUS
<1>4. IsFiniteSet(T) /\ f \in [T -> Int]
  BY <1>2, <1>3, AtFacts
<1>5. OnWay(<<d>>, D) = SumOf(f)
  BY <1>1, <1>2, <1>3 DEF OnWay
<1>6. CASE d \in D
  <2>1. T = {1} /\ f[1] = d.value
    BY <1>1, <1>2, <1>3, <1>6 DEF At
  <2>2. SumOf(f) = f[1]
    BY <1>4, <2>1, IntSumOfOne
  <2> QED
    BY <1>5, <1>6, <2>1, <2>2
<1>7. CASE d \notin D
  <2>1. T = {}
    BY <1>1, <1>2, <1>7 DEF At
  <2>2. SumOf(f) = 0
    BY <1>4, <2>1, IntSumOfNothing
  <2> QED
    BY <1>5, <1>7, <2>2
<1> QED
  BY <1>6, <1>7

LEMMA OnWayOfNone ==
  ASSUME NEW S, \A d \in S : d.value \in Int, NEW q \in Seq(S), NEW D,
         \A i \in DOMAIN q : q[i] \notin D
  PROVE  OnWay(q, D) = 0
<1>1. PICK T : T = At(q, D)
  OBVIOUS
<1>2. PICK f : f = [i \in T |-> q[i].value]
  OBVIOUS
<1>3. IsFiniteSet(T) /\ f \in [T -> Int] /\ T = {}
  BY <1>1, <1>2, AtFacts DEF At
<1>4. SumOf(f) = 0
  BY <1>3, IntSumOfNothing
<1> QED
  BY <1>1, <1>2, <1>4 DEF OnWay

LEMMA OnWayTaken ==
  ASSUME NEW S, \A d \in S : d.value \in Int, NEW q \in Seq(S), q # <<>>, NEW D
  PROVE  OnWay(q, D) = (IF Head(q) \in D THEN Head(q).value ELSE 0) + OnWay(Tail(q), D)
<1>1. PICK d \in S, t \in Seq(S) : d = Head(q) /\ t = Tail(q) /\ q = <<d>> \o t
  <2>1. Head(q) \in S /\ Tail(q) \in Seq(S)
    OBVIOUS
  <2>2. q = <<Head(q)>> \o Tail(q)
    OBVIOUS
  <2> QED
    BY <2>1, <2>2
<1>2. <<d>> \in Seq(S)
  OBVIOUS
<1>3. OnWay(<<d>> \o t, D) = OnWay(<<d>>, D) + OnWay(t, D)
  <2>1. PICK o \in Seq(S) : o = <<d>>
    BY <1>2
  <2>2. OnWay(o \o t, D) = OnWay(o, D) + OnWay(t, D)
    BY OnWayAppended
  <2> QED
    BY <2>1, <2>2
<1>4. OnWay(<<d>>, D) = IF d \in D THEN d.value ELSE 0
  BY OnWayOfOne
<1> QED
  BY <1>1, <1>3, <1>4

(***************************************************************************)
(* The powers of two.                                                      *)
(***************************************************************************)
Doubles(g, n) == g \in [0..n -> Nat \ {0}] /\ g[0] = 1 /\ \A i \in 1..n : g[i] = 2 * g[i - 1]

LEMMA DoublesExist == \A n \in Nat : \E g : Doubles(g, n)
<1> DEFINE Bad == {n \in Nat : ~ \E g : Doubles(g, n)}
<1>1. SUFFICES ASSUME Bad # {}
               PROVE  FALSE
  OBVIOUS
<1>2. PICK n \in Bad : \A m \in Bad : n <= m
  BY <1>1, LeastNumber
<1>3. CASE n = 0
  <2>1. PICK g : g = [i \in 0..0 |-> 1]
    OBVIOUS
  <2>2. Doubles(g, 0)
    BY <2>1 DEF Doubles
  <2> QED
    BY <1>2, <1>3, <2>2
<1>4. CASE n # 0
  <2>1. n \in Nat /\ n - 1 \in Nat /\ ~ (n <= n - 1)
    BY <1>2, <1>4
  <2>2. PICK g : Doubles(g, n - 1)
    BY <1>2, <2>1
  <2>3. PICK h : h = [i \in 0..n |-> IF i = n THEN 2 * g[n - 1] ELSE g[i]]
    OBVIOUS
  <2>4. /\ \A i \in 0..(n - 1) : h[i] = g[i] /\ g[i] \in Nat \ {0}
        /\ h[n] = 2 * g[n - 1] /\ n - 1 \in 0..(n - 1)
    BY <2>1, <2>2, <2>3 DEF Doubles
  <2>5. h \in [0..n -> Nat \ {0}]
    <3>1. \A i \in 0..n : i = n \/ i \in 0..(n - 1)
      BY <2>1
    <3>2. h[n] \in Nat \ {0}
      BY <2>4
    <3>3. \A i \in 0..n : h[i] \in Nat \ {0}
      BY <2>4, <3>1, <3>2
    <3> QED
      BY <2>3, <3>3
  <2>6. \A i \in 1..n : h[i] = 2 * h[i - 1]
    <3> SUFFICES ASSUME NEW i \in 1..n
                 PROVE  h[i] = 2 * h[i - 1]
      OBVIOUS
    <3>1. i - 1 \in 0..(n - 1)
      BY <2>1
    <3>2. CASE i = n
      BY <2>4, <3>1, <3>2
    <3>3. CASE i # n
      <4>1. i \in 1..(n - 1) /\ i \in 0..(n - 1)
        BY <2>1, <3>3
      <4> QED
        BY <2>2, <2>4, <3>1, <4>1 DEF Doubles
    <3> QED
      BY <3>2, <3>3
  <2>7. h[0] = 1
    BY <2>1, <2>2, <2>4 DEF Doubles
  <2>8. Doubles(h, n)
    BY <2>5, <2>6, <2>7 DEF Doubles
  <2> QED
    BY <1>2, <2>8
<1> QED
  BY <1>3, <1>4

LEMMA DoublesAgree ==
  ASSUME NEW m \in Nat, NEW n \in Nat, m <= n, NEW g, Doubles(g, m), NEW h, Doubles(h, n)
  PROVE  \A i \in 0..m : g[i] = h[i]
<1> DEFINE Bad == {i \in 0..m : g[i] # h[i]}
<1>1. SUFFICES ASSUME Bad # {}
               PROVE  FALSE
  OBVIOUS
<1>2. PICK i \in Bad : \A j \in Bad : i <= j
  <2>1. Bad \in SUBSET Nat
    OBVIOUS
  <2> HIDE DEF Bad
  <2> QED
    BY <1>1, <2>1, LeastNumber
<1>3. i \in Nat /\ i # 0 /\ i \in 1..m /\ i \in 1..n /\ i - 1 \in 0..m /\ ~ (i <= i - 1)
  BY <1>2 DEF Doubles
<1>4. g[i - 1] = h[i - 1]
  BY <1>2, <1>3
<1>5. g[i] = 2 * g[i - 1] /\ h[i] = 2 * h[i - 1]
  BY <1>3 DEF Doubles
<1> QED
  BY <1>2, <1>4, <1>5

=============================================================================

------------------------------- MODULE Basics -------------------------------
(* Facts about numbers, sequences, sums and folds that the proofs share. *)
EXTENDS Integers, Sequences, FiniteSetTheorems, WellFoundedInduction, TLAPS

\* A set of numbers that is not empty has a least member.
LEMMA LeastMember ==
  ASSUME NEW S \in SUBSET Nat, NEW k \in S
  PROVE  \E n \in S : \A m \in S : n <= m
<1> DEFINE R == OpToRel(<, Nat)
<1>1. IsWellFoundedOn(R, Nat)
  BY NatLessThanWellFounded
<1>2. \A x, y \in Nat : x < y => <<x, y>> \in R
  BY DEF OpToRel
<1> HIDE DEF R
<1>3. PICK x \in S : \A y \in S : ~ (<<y, x>> \in R)
  BY <1>1, WFMin
<1>4. ASSUME NEW y \in S PROVE x <= y
  <2>1. ~ (y < x)
    BY <1>2, <1>3
  <2> QED
    BY <2>1
<1> QED
  BY <1>4

\* What a sequence is after Append.
LEMMA AppendAt ==
  ASSUME NEW S, NEW q \in Seq(S), NEW e \in S
  PROVE  /\ Append(q, e) \in Seq(S) /\ Len(Append(q, e)) = Len(q) + 1
         /\ DOMAIN Append(q, e) = 1..(Len(q) + 1) /\ Append(q, e)[Len(q) + 1] = e
         /\ \A i \in 1..Len(q) : Append(q, e)[i] = q[i]
  OBVIOUS

LEMMA SubSeqAt ==
  ASSUME NEW S, NEW s \in Seq(S), NEW k \in 1..Len(s), NEW i \in 1..(Len(s) - k + 1)
  PROVE  SubSeq(s, k, Len(s))[i] = s[k + i - 1]
<1> DEFINE n == Len(s)
<1>1. n \in Nat /\ k \in 1..n /\ i \in 1..(n - k + 1)
  OBVIOUS
<1>2. k + i - 1 \in 1..n /\ i \in 1..((n + 1) - k)
  BY <1>1
<1> QED
  BY <1>1, <1>2

-----------------------------------------------------------------------------
(* Picking from a sequence what stands in some places *)

\* How many places of D are up to i; the k-th place of D; what stands in s there.
UpTo(D, i) == {j \in D : j <= i}
Place(D, k) == CHOOSE i \in D : Cardinality(UpTo(D, i)) = k
Picked(s, D) == [k \in 1..Cardinality(D) |-> s[Place(D, k)]]

LEMMA PlacesCount ==
  ASSUME NEW n \in Nat, NEW D \in SUBSET (1..n)
  PROVE  /\ IsFiniteSet(D) /\ Cardinality(D) \in Nat
         /\ \A i \in Nat : IsFiniteSet(UpTo(D, i)) /\ Cardinality(UpTo(D, i)) \in Nat
         /\ UpTo(D, n) = D /\ Cardinality(UpTo(D, 0)) = 0
         /\ \A i \in D : Cardinality(UpTo(D, i)) = Cardinality(UpTo(D, i - 1)) + 1
         /\ \A i \in (1..n) \ D : UpTo(D, i) = UpTo(D, i - 1)
<1>0. \A m \in D : m \in 1..n /\ m \in Nat /\ m >= 1 /\ m <= n
  OBVIOUS
<1>1. IsFiniteSet(1..n)
  BY <1>0, FS_Interval
<1>2. \A E \in SUBSET (1..n) : IsFiniteSet(E) /\ Cardinality(E) \in Nat
  BY <1>0, <1>1, FS_Subset, FS_CardinalityType
<1>3. \A i : UpTo(D, i) \in SUBSET (1..n)
  BY <1>0 DEF UpTo
<1>4. UpTo(D, n) = D /\ UpTo(D, 0) = {}
  <2>1. \A j \in D : j <= n /\ ~ (j <= 0)
    BY <1>0
  <2> QED
    BY <2>1 DEF UpTo
<1>5. ASSUME NEW i \in D PROVE Cardinality(UpTo(D, i)) = Cardinality(UpTo(D, i - 1)) + 1
  <2>1. i \in 1..n /\ i - 1 \in Nat /\ ~ (i <= i - 1)
    BY <1>0
  <2>4. \A j \in D : j <= i <=> (j <= i - 1 \/ j = i)
    BY <1>0
  <2>2. UpTo(D, i) = UpTo(D, i - 1) \union {i} /\ i \notin UpTo(D, i - 1)
    BY <2>1, <2>4 DEF UpTo
  <2>3. IsFiniteSet(UpTo(D, i - 1))
    BY <1>0, <1>2, <1>3, <2>1
  <2> QED
    BY <1>0, <2>2, <2>3, FS_AddElement
<1>6. ASSUME NEW i \in (1..n) \ D PROVE UpTo(D, i) = UpTo(D, i - 1)
  <2>1. \A j \in D : j # i /\ (j <= i <=> j <= i - 1)
    BY <1>0
  <2> QED
    BY <2>1 DEF UpTo
<1> QED
  BY <1>0, <1>2, <1>3, <1>4, <1>5, <1>6, FS_EmptySet

LEMMA PlacesRise ==
  ASSUME NEW n \in Nat, NEW D \in SUBSET (1..n), NEW i \in D, NEW j \in D, i < j
  PROVE  Cardinality(UpTo(D, i)) < Cardinality(UpTo(D, j))
<1>0. \A m \in D : m \in 1..n /\ m \in Nat /\ m >= 1 /\ m <= n
  OBVIOUS
<1>1. i \in 1..n /\ j \in 1..n /\ j - 1 \in Nat
  BY <1>0
<1>2. UpTo(D, i) \subseteq UpTo(D, j - 1)
  <2>1. \A u \in D : u <= i => u <= j - 1
    BY <1>0, <1>1
  <2> QED
    BY <2>1 DEF UpTo
<1>3. IsFiniteSet(UpTo(D, j - 1)) /\ Cardinality(UpTo(D, j - 1)) \in Nat
      /\ Cardinality(UpTo(D, i)) \in Nat
      /\ Cardinality(UpTo(D, j)) = Cardinality(UpTo(D, j - 1)) + 1
  BY <1>0, <1>1, PlacesCount
<1>4. Cardinality(UpTo(D, i)) <= Cardinality(UpTo(D, j - 1))
  BY <1>0, <1>2, <1>3, FS_Subset
<1> QED
  BY <1>0, <1>3, <1>4

LEMMA PlaceIs ==
  ASSUME NEW n \in Nat, NEW D \in SUBSET (1..n), NEW k \in 1..Cardinality(D)
  PROVE  Place(D, k) \in D /\ Cardinality(UpTo(D, Place(D, k))) = k
<1>0. \A m \in D : m \in 1..n /\ m \in Nat /\ m >= 1 /\ m <= n
  OBVIOUS
<1> DEFINE Enough == {i \in 0..n : Cardinality(UpTo(D, i)) >= k}
<1>1. Cardinality(D) \in Nat /\ k \in Nat /\ k >= 1 /\ k <= Cardinality(D)
  BY <1>0, PlacesCount
<1>2. n \in Enough
  BY <1>0, <1>1, PlacesCount
<1>3. PICK i \in Enough : \A m \in Enough : i <= m
  <2>1. Enough \in SUBSET Nat
    BY <1>0
  <2> HIDE DEF Enough
  <2> QED
    BY <1>0, <1>2, <2>1, LeastMember
<1>4. /\ \A m \in Nat : Cardinality(UpTo(D, m)) \in Nat
      /\ Cardinality(UpTo(D, 0)) = 0
      /\ \A m \in D : Cardinality(UpTo(D, m)) = Cardinality(UpTo(D, m - 1)) + 1
      /\ \A m \in (1..n) \ D : UpTo(D, m) = UpTo(D, m - 1)
  BY PlacesCount
<1>5. i \in Nat /\ i <= n /\ Cardinality(UpTo(D, i)) >= k
  OBVIOUS
<1>6. i # 0
  BY <1>1, <1>4, <1>5
<1>7. i - 1 \in Nat /\ i - 1 \in 0..n /\ i \in 1..n /\ ~ (i <= i - 1)
  BY <1>5, <1>6
<1>8. Cardinality(UpTo(D, i - 1)) < k
  <2>1. ~ (Cardinality(UpTo(D, i - 1)) >= k)
    BY <1>3, <1>7
  <2>2. Cardinality(UpTo(D, i - 1)) \in Nat
    BY <1>4, <1>7
  <2> QED
    BY <1>1, <2>1, <2>2
<1>9. i \in D
  <2>1. ASSUME i \notin D PROVE FALSE
    <3>1. UpTo(D, i) = UpTo(D, i - 1) /\ Cardinality(UpTo(D, i - 1)) \in Nat
      BY <1>4, <1>7, <2>1
    <3> QED
      BY <1>1, <1>5, <1>8, <3>1
  <2> QED
    BY <2>1
<1>10. Cardinality(UpTo(D, i)) = k
  <2>1. Cardinality(UpTo(D, i)) = Cardinality(UpTo(D, i - 1)) + 1
        /\ Cardinality(UpTo(D, i - 1)) \in Nat
    BY <1>4, <1>7, <1>9
  <2> QED
    BY <1>1, <1>5, <1>8, <2>1
<1> QED
  BY <1>9, <1>10 DEF Place

LEMMA PlaceOnly ==
  ASSUME NEW n \in Nat, NEW D \in SUBSET (1..n), NEW i \in D, NEW j \in D,
         Cardinality(UpTo(D, i)) = Cardinality(UpTo(D, j))
  PROVE  i = j
<1>0. \A m \in D : m \in 1..n /\ m \in Nat /\ m >= 1 /\ m <= n
  OBVIOUS
<1>1. i \in Nat /\ j \in Nat /\ Cardinality(UpTo(D, i)) \in Nat
  BY <1>0, PlacesCount
<1>2. ASSUME i < j PROVE FALSE
  <2>1. Cardinality(UpTo(D, i)) < Cardinality(UpTo(D, j))
    BY <1>2, PlacesRise
  <2> QED
    BY <1>1, <2>1
<1>3. ASSUME j < i PROVE FALSE
  <2>1. Cardinality(UpTo(D, j)) < Cardinality(UpTo(D, i))
    BY <1>3, PlacesRise
  <2> QED
    BY <1>1, <2>1
<1> QED
  BY <1>1, <1>2, <1>3

LEMMA PickedIs ==
  ASSUME NEW S, NEW s \in Seq(S), NEW D \in SUBSET (1..Len(s))
  PROVE  /\ Picked(s, D) \in Seq(S) /\ Len(Picked(s, D)) = Cardinality(D)
         /\ \A k \in 1..Cardinality(D) : Picked(s, D)[k] = s[Place(D, k)] /\ Place(D, k) \in D
<1>1. Len(s) \in Nat /\ Cardinality(D) \in Nat
  BY PlacesCount
<1>2. \A k \in 1..Cardinality(D) : Place(D, k) \in D
  BY <1>1, PlaceIs
<1>3. \A k \in 1..Cardinality(D) : s[Place(D, k)] \in S
  <2>1. \A i \in D : s[i] \in S
    <3>1. \A i \in D : i \in 1..Len(s)
      OBVIOUS
    <3> QED
      BY <3>1
  <2> QED
    BY <1>2, <2>1
<1> QED
  BY <1>1, <1>2, <1>3 DEF Picked

\* t is s and one item more.
Grows(s, t) == Len(t) = Len(s) + 1 /\ \A i \in 1..Len(s) : t[i] = s[i]

\* One item more: what was picked stays,
LEMMA PickedStays ==
  ASSUME NEW S, NEW s \in Seq(S), NEW D \in SUBSET (1..Len(s)), NEW t \in Seq(S), Grows(s, t)
  PROVE  Picked(t, D) = Picked(s, D)
<1>0. Len(s) \in Nat
  OBVIOUS
<1>1. \A k \in 1..Cardinality(D) : Place(D, k) \in D
  BY <1>0, PlaceIs
<1>2. \A i \in D : i \in 1..Len(s)
  OBVIOUS
<1>3. \A k \in 1..Cardinality(D) : t[Place(D, k)] = s[Place(D, k)]
  BY <1>1, <1>2 DEF Grows
<1> QED
  BY <1>3 DEF Picked

\* and the new item is picked last if it is.
LEMMA PickedGrows ==
  ASSUME NEW S, NEW s \in Seq(S), NEW D \in SUBSET (1..Len(s)), NEW t \in Seq(S), Grows(s, t)
  PROVE  Picked(t, D \union {Len(t)}) = Append(Picked(s, D), t[Len(t)])
<1> DEFINE n == Len(s)
           m == Len(t)
           E == D \union {m}
           c == Cardinality(D)
<1>1. /\ n \in Nat /\ m = n + 1 /\ m \in 1..m /\ c \in Nat /\ m \in Nat
      /\ D \in SUBSET (1..m) /\ E \in SUBSET (1..m)
      /\ m \notin D /\ IsFiniteSet(D) /\ E = D \union {m} /\ D \in SUBSET (1..n)
      /\ c = Cardinality(D)
  <2>1. \A i \in D : i \in 1..n
    OBVIOUS
  <2>2. n \in Nat /\ m = n + 1
    BY DEF Grows
  <2>3. \A i \in 1..n : i \in 1..m /\ i # m
    BY <2>2
  <2>4. m \in 1..m
    BY <2>2
  <2>5. IsFiniteSet(D) /\ c \in Nat
    BY PlacesCount
  <2>6. D \in SUBSET (1..m) /\ E \in SUBSET (1..m)
    <3> HIDE DEF n, m
    <3> QED
      BY <2>1, <2>3, <2>4
  <2>7. m \notin D /\ m \in Nat
    <3>1. m \notin 1..n /\ m \in Nat
      BY <2>2
    <3> QED
      BY <2>1, <3>1
  <2> QED
    BY <2>2, <2>4, <2>5, <2>6, <2>7
<1>0. \A i \in 1..n : t[i] = s[i]
  BY DEF Grows
<1> HIDE DEF n, m, E, c
<1>3. Cardinality(E) = c + 1
  BY <1>1, FS_AddElement
<1>4. ASSUME NEW k \in 1..c PROVE Place(E, k) = Place(D, k) /\ Place(D, k) \in D
  <2>1. Place(D, k) \in D /\ Cardinality(UpTo(D, Place(D, k))) = k
    BY <1>1, PlaceIs
  <2>2. UpTo(E, Place(D, k)) = UpTo(D, Place(D, k))
    <3>1. Place(D, k) \in 1..n
      BY <1>1, <2>1
    <3>2. ~ (m <= Place(D, k))
      BY <1>1, <3>1
    <3> QED
      BY <1>1, <3>2 DEF UpTo
  <2>3. k \in 1..Cardinality(E)
    BY <1>1, <1>3
  <2>4. Place(E, k) \in E /\ Cardinality(UpTo(E, Place(E, k))) = k
    BY <1>1, <2>3, PlaceIs
  <2>5. Place(D, k) \in E /\ Cardinality(UpTo(E, Place(D, k))) = k
    BY <1>1, <2>1, <2>2
  <2>6. Place(E, k) = Place(D, k)
    BY <1>1, <2>4, <2>5, PlaceOnly
  <2> QED
    BY <2>1, <2>6
<1>5. Place(E, c + 1) = m
  <2>1. c + 1 \in 1..Cardinality(E)
    BY <1>1, <1>3
  <2>2. Place(E, c + 1) \in E /\ Cardinality(UpTo(E, Place(E, c + 1))) = c + 1
    BY <1>1, <2>1, PlaceIs
  <2>3. m \in E /\ UpTo(E, m) = E
    BY <1>1, PlacesCount
  <2>4. Cardinality(UpTo(E, m)) = c + 1
    BY <1>3, <2>3
  <2> DEFINE p == Place(E, c + 1)
  <2>5. p \in E /\ m \in E /\ Cardinality(UpTo(E, p)) = Cardinality(UpTo(E, m))
    BY <2>2, <2>3, <2>4
  <2> HIDE DEF p
  <2>6. p = m
    BY <1>1, <2>5, PlaceOnly
  <2> QED
    BY <2>6 DEF p
<1>6. Picked(s, D) \in Seq(S) /\ Len(Picked(s, D)) = c
  BY <1>1, PickedIs DEF n
<1>7. Picked(s, D) = [k \in 1..c |-> s[Place(D, k)]]
  BY <1>1 DEF Picked
<1>8. t[m] \in S
  BY <1>1 DEF m
<1>9. Picked(t, E) = [k \in 1..(c + 1) |-> t[Place(E, k)]]
  BY <1>3 DEF Picked
<1>10. \A k \in 1..c : t[Place(E, k)] = s[Place(D, k)]
  <2>1. \A k \in 1..c : Place(D, k) \in 1..n
    BY <1>1, <1>4
  <2> QED
    BY <1>0, <1>4, <2>1
<1>11. Append(Picked(s, D), t[m]) = [k \in 1..(c + 1) |-> IF k = c + 1 THEN t[m] ELSE s[Place(D, k)]]
  BY <1>1, <1>6, <1>7, <1>8
<1>12. Picked(t, E) = Append(Picked(s, D), t[m])
  <2>1. \A k \in 1..(c + 1) : k = c + 1 \/ k \in 1..c
    BY <1>1
  <2>2. \A k \in 1..(c + 1) : t[Place(E, k)] = IF k = c + 1 THEN t[m] ELSE s[Place(D, k)]
    BY <1>5, <1>10, <2>1
  <2> QED
    BY <1>9, <1>11, <2>2
<1> QED
  BY <1>12 DEF E, m

-----------------------------------------------------------------------------
(* Sums over finite sets *)

\* A family of subsets of a finite set has a member that no other is one element short of.
LEMMA LeastSet ==
  ASSUME NEW S, IsFiniteSet(S), NEW C \in SUBSET (SUBSET S), NEW s \in C
  PROVE  \E u \in C : \A x \in u : u \ {x} \notin C
<1> DEFINE N == {Cardinality(u) : u \in C}
<1>1. \A u \in C : IsFiniteSet(u) /\ Cardinality(u) \in Nat
  BY FS_Subset, FS_CardinalityType
<1>2. N \in SUBSET Nat /\ Cardinality(s) \in N
  BY <1>1
<1>3. PICK n \in N : \A m \in N : n <= m
  BY <1>2, LeastMember
<1>4. PICK u \in C : n = Cardinality(u)
  BY <1>3
<1>5. ASSUME NEW x \in u, u \ {x} \in C PROVE FALSE
  <2>1. IsFiniteSet(u) /\ Cardinality(u) \in Nat
    BY <1>1
  <2>2. Cardinality(u \ {x}) = Cardinality(u) - 1
    BY <2>1, FS_RemoveElement
  <2>3. Cardinality(u \ {x}) \in N
    BY <1>5
  <2>4. Cardinality(u) <= Cardinality(u \ {x})
    BY <2>3, <1>3, <1>4
  <2> QED
    BY <2>1, <2>2, <2>4
<1> QED
  BY <1>4, <1>5

\* Who is counted first in a set; what one step of the sum over s is, and the sums over all
\* subsets of S.
FirstOf(s) == CHOOSE x \in s : TRUE
AddUp(g, f, s) == IF s = {} THEN 0 ELSE f[FirstOf(s)] + g[s \ {FirstOf(s)}]
AreSums(g, f, S) == g = [s \in SUBSET S |-> AddUp(g, f, s)]
Sums(f, S) == CHOOSE g : AreSums(g, f, S)
SumOver(f, S) == Sums(f, S)[S]

LEMMA FirstIn == ASSUME NEW s, s # {} PROVE FirstOf(s) \in s
  BY DEF FirstOf

LEMMA SumsExist ==
  ASSUME NEW S, IsFiniteSet(S), NEW f, \A x \in S : f[x] \in Int
  PROVE  \E g \in [SUBSET S -> Int] : AreSums(g, f, S)
<1> DEFINE Upto(g, n) == \A s \in SUBSET S : Cardinality(s) <= n => g[s] = AddUp(g, f, s)
           Bad == {n \in Nat : ~ \E g \in [SUBSET S -> Int] : Upto(g, n)}
<1>1. \A s \in SUBSET S : IsFiniteSet(s) /\ Cardinality(s) \in Nat /\ (Cardinality(s) = 0 <=> s = {})
  BY FS_Subset, FS_CardinalityType, FS_EmptySet
<1>2. \A s \in SUBSET S : s # {} => /\ FirstOf(s) \in s /\ s \ {FirstOf(s)} \in SUBSET S
                                    /\ Cardinality(s \ {FirstOf(s)}) = Cardinality(s) - 1
  BY <1>1, FirstIn, FS_RemoveElement
<1>3. \A g \in [SUBSET S -> Int], s \in SUBSET S : AddUp(g, f, s) \in Int
  <2> SUFFICES ASSUME NEW g \in [SUBSET S -> Int], NEW s \in SUBSET S, s # {}
               PROVE  f[FirstOf(s)] + g[s \ {FirstOf(s)}] \in Int
    BY DEF AddUp
  <2>1. f[FirstOf(s)] \in Int /\ g[s \ {FirstOf(s)}] \in Int
    BY <1>2
  <2> QED
    BY <2>1
<1>4. Bad = {}
  <2> SUFFICES ASSUME Bad # {} PROVE FALSE
    OBVIOUS
  <2>1. PICK m \in Bad : \A n \in Bad : m <= n
    <3>1. PICK k : k \in Bad
      OBVIOUS
    <3>2. Bad \in SUBSET Nat
      OBVIOUS
    <3> HIDE DEF Bad
    <3> QED
      BY <3>1, <3>2, LeastMember
  <2>2. m # 0
    <3> SUFFICES ASSUME m = 0 PROVE FALSE
      OBVIOUS
    <3> DEFINE z == [s \in SUBSET S |-> 0]
    <3>1. z \in [SUBSET S -> Int]
      OBVIOUS
    <3>2. ASSUME NEW s \in SUBSET S, Cardinality(s) <= m PROVE z[s] = AddUp(z, f, s)
      <4>1. s = {}
        BY <1>1, <3>2
      <4> QED
        BY <4>1 DEF AddUp
    <3> HIDE DEF z
    <3>3. Upto(z, m)
      BY <3>2
    <3> QED
      BY <3>1, <3>3, <2>1
  <2>3. m - 1 \in Nat /\ m - 1 \notin Bad
    <3>1. m \in Nat
      BY <2>1
    <3>2. m - 1 \in Nat /\ ~ (m <= m - 1)
      BY <3>1, <2>2
    <3> HIDE DEF Bad
    <3> QED
      BY <3>2, <2>1
  <2>4. PICK g \in [SUBSET S -> Int] : Upto(g, m - 1)
    BY <2>3
  <2> DEFINE h == [s \in SUBSET S |-> AddUp(g, f, s)]
  <2>5. h \in [SUBSET S -> Int]
    BY <1>3
  <2>6. \A s \in SUBSET S : h[s] = AddUp(g, f, s)
    OBVIOUS
  <2> HIDE DEF h
  <2>7. \A s \in SUBSET S : Cardinality(s) <= m - 1 => h[s] = g[s]
    BY <2>4, <2>6
  <2>8. ASSUME NEW s \in SUBSET S, Cardinality(s) <= m PROVE h[s] = AddUp(h, f, s)
    <3>1. CASE s = {}
      BY <3>1, <2>6 DEF AddUp
    <3>2. CASE s # {}
      <4>1. Cardinality(s \ {FirstOf(s)}) <= m - 1
        BY <1>1, <1>2, <2>1, <2>8, <3>2
      <4>2. h[s \ {FirstOf(s)}] = g[s \ {FirstOf(s)}]
        BY <4>1, <1>2, <2>7, <3>2
      <4> QED
        BY <4>2, <2>6 DEF AddUp
    <3> QED
      BY <3>1, <3>2
  <2>9. Upto(h, m)
    BY <2>8
  <2> QED
    BY <2>1, <2>5, <2>9
<1>5. Cardinality(S) \in Nat
  BY FS_CardinalityType
<1>6. PICK g \in [SUBSET S -> Int] : Upto(g, Cardinality(S))
  BY <1>4, <1>5
<1>7. \A s \in SUBSET S : Cardinality(s) <= Cardinality(S)
  BY FS_Subset
<1>8. \A s \in SUBSET S : g[s] = AddUp(g, f, s)
  BY <1>6, <1>7
<1>9. AreSums(g, f, S)
  BY <1>8 DEF AreSums
<1> QED
  BY <1>9

\* What the sums over the subsets of S are.
LEMMA SumsAre ==
  ASSUME NEW S, IsFiniteSet(S), NEW f, \A x \in S : f[x] \in Int
  PROVE  /\ \A s \in SUBSET S : Sums(f, S)[s] = AddUp(Sums(f, S), f, s)
         /\ \A s \in SUBSET S : Sums(f, S)[s] = SumOver(f, s)
<1>1. \E g : AreSums(g, f, S)
  BY SumsExist
<1>2. AreSums(Sums(f, S), f, S)
  BY <1>1 DEF Sums
<1>3. \A s \in SUBSET S : Sums(f, S)[s] = AddUp(Sums(f, S), f, s)
  BY <1>2 DEF AreSums
<1>4. ASSUME NEW T \in SUBSET S PROVE Sums(f, S)[T] = SumOver(f, T)
  <2>1. IsFiniteSet(T) /\ \A x \in T : f[x] \in Int
    BY FS_Subset
  <2>2. \E g : AreSums(g, f, T)
    BY <2>1, SumsExist
  <2>3. AreSums(Sums(f, T), f, T)
    BY <2>2 DEF Sums
  <2>4. \A s \in SUBSET T : Sums(f, T)[s] = AddUp(Sums(f, T), f, s)
    BY <2>3 DEF AreSums
  <2> DEFINE C == {s \in SUBSET T : Sums(f, T)[s] # Sums(f, S)[s]}
  <2>5. C = {}
    <3> SUFFICES ASSUME C # {} PROVE FALSE
      OBVIOUS
    <3>1. C \in SUBSET (SUBSET T) /\ \E s : s \in C
      OBVIOUS
    <3> HIDE DEF C
    <3>2. PICK u \in C : \A x \in u : u \ {x} \notin C
      BY <3>1, <2>1, LeastSet
    <3> USE DEF C
    <3>3. u \in SUBSET T /\ u \in SUBSET S
      BY <3>1
    <3>4. CASE u = {}
      BY <3>4, <3>2, <3>3, <2>4, <1>3 DEF AddUp
    <3>5. CASE u # {}
      <4>1. FirstOf(u) \in u /\ u \ {FirstOf(u)} \in SUBSET T
        BY <3>3, <3>5, FirstIn
      <4>2. Sums(f, T)[u \ {FirstOf(u)}] = Sums(f, S)[u \ {FirstOf(u)}]
        BY <4>1, <3>2
      <4>3. AddUp(Sums(f, T), f, u) = AddUp(Sums(f, S), f, u)
        BY <4>2 DEF AddUp
      <4> QED
        BY <4>3, <3>2, <3>3, <2>4, <1>3
    <3> QED
      BY <3>4, <3>5
  <2>6. Sums(f, T)[T] = Sums(f, S)[T]
    BY <2>5
  <2> QED
    BY <2>6 DEF SumOver
<1> QED
  BY <1>3, <1>4

\* The sum over nothing; the sum over more, by whom is counted first.
LEMMA SumStep ==
  ASSUME NEW S, IsFiniteSet(S), NEW f, \A x \in S : f[x] \in Int
  PROVE  /\ SumOver(f, {}) = 0 /\ SumOver(f, S) \in Int
         /\ S # {} => SumOver(f, S) = f[FirstOf(S)] + SumOver(f, S \ {FirstOf(S)})
<1>1. \A s \in SUBSET S : SumOver(f, s) = AddUp(Sums(f, S), f, s)
  BY SumsAre
<1>2. SumOver(f, {}) = 0
  BY <1>1 DEF AddUp
<1>3. S # {} => SumOver(f, S) = f[FirstOf(S)] + SumOver(f, S \ {FirstOf(S)})
  <2>1. SumOver(f, S) = AddUp(Sums(f, S), f, S)
    BY <1>1
  <2>2. Sums(f, S)[S \ {FirstOf(S)}] = SumOver(f, S \ {FirstOf(S)})
    BY SumsAre
  <2> QED
    BY <2>1, <2>2 DEF AddUp
<1>4. SumOver(f, S) \in Int
  <2>1. PICK g \in [SUBSET S -> Int] : AreSums(g, f, S)
    BY SumsExist
  <2>3. AreSums(Sums(f, S), f, S)
    BY <2>1 DEF Sums
  <2> DEFINE C == {s \in SUBSET S : Sums(f, S)[s] # g[s]}
  <2>4. C = {}
    <3> SUFFICES ASSUME C # {} PROVE FALSE
      OBVIOUS
    <3>1. C \in SUBSET (SUBSET S) /\ \E s : s \in C
      OBVIOUS
    <3> HIDE DEF C
    <3>2. PICK u \in C : \A x \in u : u \ {x} \notin C
      BY <3>1, LeastSet
    <3> USE DEF C
    <3>3. u \in SUBSET S
      BY <3>1
    <3>4. Sums(f, S)[u] = AddUp(Sums(f, S), f, u) /\ g[u] = AddUp(g, f, u)
      BY <3>3, <2>1, <2>3 DEF AreSums
    <3>5. CASE u = {}
      BY <3>5, <3>2, <3>4 DEF AddUp
    <3>6. CASE u # {}
      <4>1. FirstOf(u) \in u /\ u \ {FirstOf(u)} \in SUBSET S
        BY <3>3, <3>6, FirstIn
      <4>2. Sums(f, S)[u \ {FirstOf(u)}] = g[u \ {FirstOf(u)}]
        BY <4>1, <3>2
      <4> QED
        BY <4>2, <3>2, <3>4 DEF AddUp
    <3> QED
      BY <3>5, <3>6
  <2>5. Sums(f, S)[S] = g[S]
    BY <2>4
  <2> QED
    BY <2>5 DEF SumOver
<1> QED
  BY <1>2, <1>3, <1>4

\* The order does not matter: anybody's number may be taken out.
LEMMA SumRemove ==
  ASSUME NEW S, IsFiniteSet(S), NEW f, \A x \in S : f[x] \in Int, NEW y \in S
  PROVE  SumOver(f, S) = f[y] + SumOver(f, S \ {y})
<1> DEFINE C == {s \in SUBSET S : \E z \in s : SumOver(f, s) # f[z] + SumOver(f, s \ {z})}
<1>1. \A s \in SUBSET S : IsFiniteSet(s) /\ \A x \in s : f[x] \in Int
  BY FS_Subset
<1>2. \A s \in SUBSET S : SumOver(f, s) \in Int
                          /\ (s # {} => SumOver(f, s) = f[FirstOf(s)] + SumOver(f, s \ {FirstOf(s)}))
  BY <1>1, SumStep
<1>3. C = {}
  <2> SUFFICES ASSUME C # {} PROVE FALSE
    OBVIOUS
  <2>1. C \in SUBSET (SUBSET S) /\ \E s : s \in C
    OBVIOUS
  <2> HIDE DEF C
  <2>2. PICK u \in C : \A x \in u : u \ {x} \notin C
    BY <2>1, LeastSet
  <2> USE DEF C
  <2>3. u \in SUBSET S
    BY <2>1
  <2>4. PICK z \in u : SumOver(f, u) # f[z] + SumOver(f, u \ {z})
    BY <2>2
  <2> DEFINE p == FirstOf(u)
  <2>5. p \in u /\ SumOver(f, u) = f[p] + SumOver(f, u \ {p})
    BY <2>3, <2>4, <1>2, FirstIn
  <2> HIDE DEF p
  <2>6. p # z
    BY <2>4, <2>5
  <2>7. z \in u \ {p} /\ p \in u \ {z} /\ u \ {p} \in SUBSET S /\ u \ {z} \in SUBSET S
        /\ (u \ {p}) \ {z} \in SUBSET S /\ (u \ {p}) \ {z} = (u \ {z}) \ {p}
    BY <2>3, <2>4, <2>5, <2>6
  <2>8. SumOver(f, u \ {p}) = f[z] + SumOver(f, (u \ {p}) \ {z})
    BY <2>2, <2>5, <2>7
  <2>9. SumOver(f, u \ {z}) = f[p] + SumOver(f, (u \ {z}) \ {p})
    BY <2>2, <2>4, <2>7
  <2>10. f[p] \in Int /\ f[z] \in Int /\ SumOver(f, (u \ {p}) \ {z}) \in Int
    BY <2>3, <2>5, <2>4, <2>7, <1>1, <1>2
  <2>11. SumOver(f, (u \ {p}) \ {z}) = SumOver(f, (u \ {z}) \ {p})
    BY <2>7, Zenon
  <2> DEFINE v == SumOver(f, (u \ {p}) \ {z})
  <2>12. /\ SumOver(f, u) = f[p] + SumOver(f, u \ {p}) /\ SumOver(f, u \ {p}) = f[z] + v
         /\ SumOver(f, u \ {z}) = f[p] + v /\ v \in Int
    BY <2>5, <2>8, <2>9, <2>10, <2>11, Zenon
  <2> HIDE DEF v
  <2> QED
    BY <2>4, <2>10, <2>12, SMTT(30)
<1> QED
  BY <1>3

\* Sums of numbers that agree are equal; so the sum of a function is that over its domain.
LEMMA SumEqual ==
  ASSUME NEW S, IsFiniteSet(S), NEW f, NEW h, \A x \in S : f[x] \in Int /\ h[x] = f[x]
  PROVE  SumOver(h, S) = SumOver(f, S)
<1> DEFINE C == {s \in SUBSET S : SumOver(h, s) # SumOver(f, s)}
<1>1. \A s \in SUBSET S : IsFiniteSet(s) /\ (\A x \in s : f[x] \in Int) /\ (\A x \in s : h[x] \in Int)
  BY FS_Subset
<1>2. C = {}
  <2> SUFFICES ASSUME C # {} PROVE FALSE
    OBVIOUS
  <2>1. C \in SUBSET (SUBSET S) /\ \E s : s \in C
    OBVIOUS
  <2> HIDE DEF C
  <2>2. PICK u \in C : \A x \in u : u \ {x} \notin C
    BY <2>1, LeastSet
  <2> USE DEF C
  <2>3. u \in SUBSET S /\ SumOver(h, u) # SumOver(f, u)
    BY <2>2
  <2>4. /\ SumOver(f, {}) = 0 /\ (u # {} => SumOver(f, u) = f[FirstOf(u)] + SumOver(f, u \ {FirstOf(u)}))
        /\ SumOver(h, {}) = 0 /\ (u # {} => SumOver(h, u) = h[FirstOf(u)] + SumOver(h, u \ {FirstOf(u)}))
    BY <2>3, <1>1, SumStep
  <2>5. u # {}
    <3> SUFFICES ASSUME u = {} PROVE FALSE
      OBVIOUS
    <3> QED
      BY <2>3, <2>4, Zenon
  <2>6. FirstOf(u) \in u /\ u \ {FirstOf(u)} \in SUBSET S
    BY <2>3, <2>5, FirstIn
  <2>7. SumOver(h, u \ {FirstOf(u)}) = SumOver(f, u \ {FirstOf(u)}) /\ h[FirstOf(u)] = f[FirstOf(u)]
    BY <2>2, <2>3, <2>6
  <2> QED
    BY <2>3, <2>4, <2>5, <2>7
<1> QED
  BY <1>2

\* The sum of the sums.
LEMMA SumPlus ==
  ASSUME NEW S, IsFiniteSet(S), NEW f, NEW g, NEW h,
         \A x \in S : f[x] \in Int /\ g[x] \in Int /\ h[x] = f[x] + g[x]
  PROVE  SumOver(h, S) = SumOver(f, S) + SumOver(g, S)
<1> DEFINE C == {s \in SUBSET S : SumOver(h, s) # SumOver(f, s) + SumOver(g, s)}
<1>1. \A s \in SUBSET S : /\ IsFiniteSet(s) /\ (\A x \in s : f[x] \in Int)
                          /\ (\A x \in s : g[x] \in Int) /\ (\A x \in s : h[x] \in Int)
  BY FS_Subset
<1>2. C = {}
  <2> SUFFICES ASSUME C # {} PROVE FALSE
    OBVIOUS
  <2>1. C \in SUBSET (SUBSET S) /\ \E s : s \in C
    OBVIOUS
  <2> HIDE DEF C
  <2>2. PICK u \in C : \A x \in u : u \ {x} \notin C
    BY <2>1, LeastSet
  <2> USE DEF C
  <2>3. u \in SUBSET S /\ SumOver(h, u) # SumOver(f, u) + SumOver(g, u)
    BY <2>2
  <2> DEFINE p == FirstOf(u)
             v == u \ {p}
  <2>4. /\ SumOver(f, {}) = 0 /\ (u # {} => SumOver(f, u) = f[p] + SumOver(f, v))
        /\ SumOver(g, {}) = 0 /\ (u # {} => SumOver(g, u) = g[p] + SumOver(g, v))
        /\ SumOver(h, {}) = 0 /\ (u # {} => SumOver(h, u) = h[p] + SumOver(h, v))
    BY <2>3, <1>1, SumStep
  <2>5. u # {}
    <3> SUFFICES ASSUME u = {} PROVE FALSE
      OBVIOUS
    <3>1. SumOver(f, u) = 0 /\ SumOver(g, u) = 0 /\ SumOver(h, u) = 0
      BY <2>4, Zenon
    <3> QED
      BY <2>3, <3>1
  <2>6. p \in u /\ v \in SUBSET S
    BY <2>3, <2>5, FirstIn
  <2>7. SumOver(h, v) = SumOver(f, v) + SumOver(g, v)
    BY <2>2, <2>6
  <2>8. SumOver(f, v) \in Int /\ SumOver(g, v) \in Int
    BY <2>6, <1>1, SumStep
  <2>9. f[p] \in Int /\ g[p] \in Int /\ h[p] = f[p] + g[p]
    BY <2>3, <2>6
  <2> HIDE DEF p, v
  <2> QED
    BY <2>3, <2>4, <2>5, <2>7, <2>8, <2>9, SMTT(30)
<1> QED
  BY <1>2

\* The sum over two sets that share nobody.
LEMMA SumUnion ==
  ASSUME NEW S, NEW T, IsFiniteSet(S), IsFiniteSet(T), S \intersect T = {},
         NEW f, \A x \in S \union T : f[x] \in Int
  PROVE  SumOver(f, S \union T) = SumOver(f, S) + SumOver(f, T)
<1> DEFINE C == {s \in SUBSET S : SumOver(f, s \union T) # SumOver(f, s) + SumOver(f, T)}
<1>1. \A s \in SUBSET S : /\ IsFiniteSet(s) /\ IsFiniteSet(s \union T)
                          /\ (\A x \in s : f[x] \in Int) /\ (\A x \in s \union T : f[x] \in Int)
  BY FS_Subset, FS_Union
<1>2. SumOver(f, {}) = 0 /\ SumOver(f, T) \in Int
  BY SumStep
<1>3. C = {}
  <2> SUFFICES ASSUME C # {} PROVE FALSE
    OBVIOUS
  <2>1. C \in SUBSET (SUBSET S) /\ \E s : s \in C
    OBVIOUS
  <2> HIDE DEF C
  <2>2. PICK u \in C : \A x \in u : u \ {x} \notin C
    BY <2>1, LeastSet
  <2> USE DEF C
  <2>3. u \in SUBSET S /\ SumOver(f, u \union T) # SumOver(f, u) + SumOver(f, T)
    BY <2>2
  <2>4. u # {}
    <3> SUFFICES ASSUME u = {} PROVE FALSE
      OBVIOUS
    <3>1. u \union T = T
      OBVIOUS
    <3> QED
      BY <3>1, <2>3, <1>2
  <2>5. PICK z : z \in u
    BY <2>4
  <2>6. /\ z \in u \union T /\ u \ {z} \in SUBSET S
        /\ (u \union T) \ {z} = (u \ {z}) \union T /\ f[z] \in Int
    BY <2>3, <2>5
  <2>7. SumOver(f, u) = f[z] + SumOver(f, u \ {z})
    BY <2>3, <2>5, <1>1, SumRemove
  <2>8. SumOver(f, u \union T) = f[z] + SumOver(f, (u \union T) \ {z})
    BY <2>3, <2>6, <1>1, SumRemove
  <2>9. SumOver(f, (u \ {z}) \union T) = SumOver(f, u \ {z}) + SumOver(f, T)
    BY <2>2, <2>5, <2>6
  <2>10. SumOver(f, u \ {z}) \in Int
    BY <2>6, <1>1, SumStep
  <2> QED
    <3>1. SumOver(f, u \union T) = f[z] + SumOver(f, (u \ {z}) \union T)
      BY <2>6, <2>8, Zenon
    <3> QED
      BY <2>3, <2>6, <2>7, <3>1, <2>9, <2>10, <1>2, SMTT(30)
<1> QED
  BY <1>3

\* F has, for each kind in M, the sum of f over those of S that are of that kind.
SumsOfKinds(F, M, f, S, k) == \A m \in M : F[m] = SumOver(f, {x \in S : k[x] = m})

\* A sum is the sum, over the kinds there are, of the sums of each kind.
LEMMA SumByKind ==
  ASSUME NEW S, IsFiniteSet(S), NEW f, \A x \in S : f[x] \in Int,
         NEW k, NEW M, IsFiniteSet(M), \A x \in S : k[x] \in M,
         NEW F, SumsOfKinds(F, M, f, S, k)
  PROVE  SumOver(F, M) = SumOver(f, S)
<1> DEFINE among(N) == {x \in S : k[x] \in N}
           C == {N \in SUBSET M : SumOver(F, N) # SumOver(f, among(N))}
<1>1. \A N : among(N) \in SUBSET S /\ IsFiniteSet(among(N)) /\ \A x \in among(N) : f[x] \in Int
  BY FS_Subset
<1>2. ASSUME NEW m \in M PROVE F[m] \in Int /\ F[m] = SumOver(f, among({m}))
  <2>1. among({m}) = {x \in S : k[x] = m}
    OBVIOUS
  <2>2. SumOver(f, among({m})) \in Int
    BY <1>1, SumStep
  <2>3. F[m] = SumOver(f, {x \in S : k[x] = m})
    BY DEF SumsOfKinds
  <2> HIDE DEF among
  <2> QED
    BY <2>1, <2>2, <2>3, Zenon
<1>3. \A N \in SUBSET M : IsFiniteSet(N) /\ \A m \in N : F[m] \in Int
  BY <1>2, FS_Subset
<1>4. C = {}
  <2> SUFFICES ASSUME C # {} PROVE FALSE
    OBVIOUS
  <2>1. C \in SUBSET (SUBSET M) /\ \E s : s \in C
    OBVIOUS
  <2> HIDE DEF C
  <2>2. PICK N \in C : \A m \in N : N \ {m} \notin C
    BY <2>1, LeastSet
  <2> USE DEF C
  <2>3. N \in SUBSET M /\ SumOver(F, N) # SumOver(f, among(N))
    BY <2>2
  <2>4. N # {}
    <3> SUFFICES ASSUME N = {} PROVE FALSE
      OBVIOUS
    <3>1. among(N) = {}
      OBVIOUS
    <3>2. SumOver(F, {}) = 0 /\ SumOver(f, {}) = 0
      BY <1>3, SumStep
    <3> HIDE DEF among
    <3> QED
      BY <3>1, <3>2, <2>3
  <2>5. PICK m : m \in N
    BY <2>4
  <2>6. m \in M /\ N \ {m} \in SUBSET M
    BY <2>3, <2>5
  <2>7. SumOver(F, N) = F[m] + SumOver(F, N \ {m})
    BY <2>3, <2>5, <1>3, SumRemove
  <2>8. SumOver(F, N \ {m}) = SumOver(f, among(N \ {m}))
    <3> HIDE DEF among
    <3> QED
      BY <2>2, <2>5, <2>6
  <2>9. among(N) = among({m}) \union among(N \ {m}) /\ among({m}) \intersect among(N \ {m}) = {}
    BY <2>5
  <2>10. SumOver(f, among(N)) = SumOver(f, among({m})) + SumOver(f, among(N \ {m}))
    <3>1. \A x \in among({m}) \union among(N \ {m}) : f[x] \in Int
      BY <1>1
    <3>2. IsFiniteSet(among({m})) /\ IsFiniteSet(among(N \ {m}))
      BY <1>1
    <3> DEFINE A == among({m})
               B == among(N \ {m})
    <3>3. IsFiniteSet(A) /\ IsFiniteSet(B) /\ A \intersect B = {} /\ \A x \in A \union B : f[x] \in Int
      BY <3>1, <3>2, <2>9
    <3>4. among(N) = A \union B
      BY <2>9
    <3> HIDE DEF among, A, B
    <3>5. SumOver(f, A \union B) = SumOver(f, A) + SumOver(f, B)
      BY <3>3, SumUnion
    <3> QED
      BY <3>4, <3>5, Zenon DEF A, B
  <2> HIDE DEF among
  <2> QED
    BY <2>3, <2>6, <2>7, <2>8, <2>10, <1>2
<1>5. SumOver(F, M) = SumOver(f, among(M))
  BY <1>4
<1>6. among(M) = S
  OBVIOUS
<1> HIDE DEF among
<1> QED
  BY <1>5, <1>6

LEMMA SumZero ==
  ASSUME NEW S, IsFiniteSet(S), NEW f, \A x \in S : f[x] = 0
  PROVE  SumOver(f, S) = 0
<1>1. \A x \in S : f[x] \in Int /\ f[x] = f[x] + f[x]
  OBVIOUS
<1>2. SumOver(f, S) = SumOver(f, S) + SumOver(f, S)
  BY <1>1, SumPlus
<1>3. SumOver(f, S) \in Int
  BY <1>1, SumStep
<1> DEFINE n == SumOver(f, S)
<1>4. n \in Int /\ n = n + n
  BY <1>2, <1>3, Zenon
<1> HIDE DEF n
<1>5. n = 0
  BY <1>4
<1> QED
  BY <1>5 DEF n

-----------------------------------------------------------------------------
(* What a fold over a finite set comes to *)

\* One step of a fold of v over s, from b, the folds over all subsets of S, and the fold over S:
\* v takes a member and what the others came to.
FoldStep(g, v, b, s) == IF s = {} THEN b ELSE v[<<FirstOf(s), g[s \ {FirstOf(s)}]>>]
IsFold(g, v, b, S) == g = [s \in SUBSET S |-> FoldStep(g, v, b, s)]
FoldOf(v, b, S) == CHOOSE g : IsFold(g, v, b, S)
Folded(v, b, S) == FoldOf(v, b, S)[S]

LEMMA FoldExists ==
  ASSUME NEW S, IsFiniteSet(S), NEW v, NEW b
  PROVE  \E g : IsFold(g, v, b, S)
<1> DEFINE Upto(g, n) == \A s \in SUBSET S : Cardinality(s) <= n => g[s] = FoldStep(g, v, b, s)
           Bad == {n \in Nat : ~ \E g : Upto(g, n)}
<1>1. \A s \in SUBSET S : IsFiniteSet(s) /\ Cardinality(s) \in Nat /\ (Cardinality(s) = 0 <=> s = {})
  BY FS_Subset, FS_CardinalityType, FS_EmptySet
<1>2. \A s \in SUBSET S : s # {} => /\ FirstOf(s) \in s /\ s \ {FirstOf(s)} \in SUBSET S
                                    /\ Cardinality(s \ {FirstOf(s)}) = Cardinality(s) - 1
  BY <1>1, FirstIn, FS_RemoveElement
<1>4. Bad = {}
  <2> SUFFICES ASSUME Bad # {} PROVE FALSE
    OBVIOUS
  <2>1. PICK m \in Bad : \A n \in Bad : m <= n
    <3>1. PICK k : k \in Bad
      OBVIOUS
    <3>2. Bad \in SUBSET Nat
      OBVIOUS
    <3> HIDE DEF Bad
    <3> QED
      BY <3>1, <3>2, LeastMember
  <2>2. m # 0
    <3> SUFFICES ASSUME m = 0 PROVE FALSE
      OBVIOUS
    <3> DEFINE z == [s \in SUBSET S |-> b]
    <3>2. ASSUME NEW s \in SUBSET S, Cardinality(s) <= m PROVE z[s] = FoldStep(z, v, b, s)
      <4>1. s = {}
        BY <1>1, <3>2
      <4> QED
        BY <4>1 DEF FoldStep
    <3> HIDE DEF z
    <3>3. Upto(z, m)
      BY <3>2
    <3> QED
      BY <3>3, <2>1
  <2>3. m - 1 \in Nat /\ m - 1 \notin Bad
    <3>1. m \in Nat
      BY <2>1
    <3>2. m - 1 \in Nat /\ ~ (m <= m - 1)
      BY <3>1, <2>2
    <3> HIDE DEF Bad
    <3> QED
      BY <3>2, <2>1
  <2>4. PICK g : Upto(g, m - 1)
    BY <2>3
  <2> DEFINE h == [s \in SUBSET S |-> FoldStep(g, v, b, s)]
  <2>6. \A s \in SUBSET S : h[s] = FoldStep(g, v, b, s)
    OBVIOUS
  <2> HIDE DEF h
  <2>7. \A s \in SUBSET S : Cardinality(s) <= m - 1 => h[s] = g[s]
    BY <2>4, <2>6
  <2>8. ASSUME NEW s \in SUBSET S, Cardinality(s) <= m PROVE h[s] = FoldStep(h, v, b, s)
    <3>1. CASE s = {}
      BY <3>1, <2>6 DEF FoldStep
    <3>2. CASE s # {}
      <4>1. Cardinality(s \ {FirstOf(s)}) <= m - 1
        BY <1>1, <1>2, <2>1, <2>8, <3>2
      <4>2. h[s \ {FirstOf(s)}] = g[s \ {FirstOf(s)}]
        BY <4>1, <1>2, <2>7, <3>2
      <4> QED
        BY <4>2, <2>6 DEF FoldStep
    <3> QED
      BY <3>1, <3>2
  <2>9. Upto(h, m)
    BY <2>8
  <2> QED
    BY <2>9, <2>1
<1>5. PICK g : Upto(g, Cardinality(S))
  BY <1>1, <1>4
<1>6. \A s \in SUBSET S : Cardinality(s) <= Cardinality(S)
  BY FS_Subset
<1> DEFINE h == [s \in SUBSET S |-> FoldStep(g, v, b, s)]
<1>7. \A s \in SUBSET S : h[s] = g[s]
  BY <1>5, <1>6
<1>8. ASSUME NEW s \in SUBSET S PROVE FoldStep(g, v, b, s) = FoldStep(h, v, b, s)
  <2> HIDE DEF h
  <2>1. CASE s = {}
    BY <2>1 DEF FoldStep
  <2>2. CASE s # {}
    <3>1. h[s \ {FirstOf(s)}] = g[s \ {FirstOf(s)}]
      BY <1>2, <1>7, <2>2
    <3> QED
      BY <3>1 DEF FoldStep
  <2> QED
    BY <2>1, <2>2
<1>9. IsFold(h, v, b, S)
  BY <1>8, Zenon DEF IsFold
<1> QED
  BY <1>9

LEMMA FoldAt ==
  ASSUME NEW S, IsFiniteSet(S), NEW v, NEW b, NEW s \in SUBSET S
  PROVE  FoldOf(v, b, S)[s] = FoldStep(FoldOf(v, b, S), v, b, s)
<1> DEFINE g == FoldOf(v, b, S)
<1>1. IsFold(g, v, b, S)
  BY FoldExists DEF FoldOf
<1> HIDE DEF g
<1>2. g[s] = FoldStep(g, v, b, s)
  BY <1>1 DEF IsFold
<1> QED
  BY <1>2 DEF g

\* What holds at the start of a fold, and is kept by each member, holds at its end. P[s] is what
\* there may be after the members of s.
LEMMA FoldKeeps ==
  ASSUME NEW S, IsFiniteSet(S), NEW v, NEW b, NEW P, b \in P[{}],
         \A s \in SUBSET S : \A d \in s : \A a \in P[s \ {d}] : v[<<d, a>>] \in P[s]
  PROVE  Folded(v, b, S) \in P[S]
<1> DEFINE g == FoldOf(v, b, S)
           C == {s \in SUBSET S : g[s] \notin P[s]}
<1>1. \A s \in SUBSET S : g[s] = FoldStep(g, v, b, s)
  BY FoldAt
<1> HIDE DEF g
<1>2. SUFFICES ASSUME S \in C PROVE FALSE
  BY DEF Folded, g
<1>3. C \in SUBSET (SUBSET S)
  OBVIOUS
<1>4. PICK u \in C : \A x \in u : u \ {x} \notin C
  <2> HIDE DEF C
  <2> QED
    BY <1>2, <1>3, LeastSet
<1>5. u \in SUBSET S /\ g[u] \notin P[u]
  BY <1>4
<1>6. CASE u = {}
  BY <1>6, <1>1, <1>5 DEF FoldStep
<1>7. CASE u # {}
  <2>1. FirstOf(u) \in u /\ u \ {FirstOf(u)} \in SUBSET S
    BY <1>5, <1>7, FirstIn
  <2>2. g[u \ {FirstOf(u)}] \in P[u \ {FirstOf(u)}]
    BY <2>1, <1>4
  <2>3. v[<<FirstOf(u), g[u \ {FirstOf(u)}]>>] \in P[u]
    BY <2>1, <2>2, <1>5
  <2>4. g[u] = v[<<FirstOf(u), g[u \ {FirstOf(u)}]>>]
    BY <1>1, <1>5, <1>7 DEF FoldStep
  <2> QED
    BY <2>3, <2>4, <1>5
<1> QED
  BY <1>6, <1>7

\* Functions that agree on what a fold meets fold to the same.
LEMMA FoldSame ==
  ASSUME NEW S, IsFiniteSet(S), NEW v, NEW w, NEW b, NEW G, b \in G,
         \A d \in S, a \in G : v[<<d, a>>] = w[<<d, a>>] /\ v[<<d, a>>] \in G
  PROVE  Folded(v, b, S) = Folded(w, b, S)
<1> DEFINE g == FoldOf(v, b, S)
           h == FoldOf(w, b, S)
           C == {s \in SUBSET S : ~ (g[s] = h[s] /\ g[s] \in G)}
<1>1. \A s \in SUBSET S : g[s] = FoldStep(g, v, b, s) /\ h[s] = FoldStep(h, w, b, s)
  BY FoldAt
<1> HIDE DEF g, h
<1>2. SUFFICES ASSUME S \in C PROVE FALSE
  BY DEF Folded, g, h
<1>3. C \in SUBSET (SUBSET S)
  OBVIOUS
<1>4. PICK u \in C : \A x \in u : u \ {x} \notin C
  <2> HIDE DEF C
  <2> QED
    BY <1>2, <1>3, LeastSet
<1>5. u \in SUBSET S /\ ~ (g[u] = h[u] /\ g[u] \in G)
  BY <1>4
<1>6. CASE u = {}
  BY <1>6, <1>1, <1>5 DEF FoldStep
<1>7. CASE u # {}
  <2>1. FirstOf(u) \in u /\ FirstOf(u) \in S /\ u \ {FirstOf(u)} \in SUBSET S
    BY <1>5, <1>7, FirstIn
  <2>2. g[u \ {FirstOf(u)}] = h[u \ {FirstOf(u)}] /\ g[u \ {FirstOf(u)}] \in G
    BY <2>1, <1>4
  <2>3. /\ g[u] = v[<<FirstOf(u), g[u \ {FirstOf(u)}]>>]
        /\ h[u] = w[<<FirstOf(u), h[u \ {FirstOf(u)}]>>]
    BY <1>1, <1>5, <1>7 DEF FoldStep
  <2> QED
    BY <2>1, <2>2, <2>3, <1>5
<1> QED
  BY <1>6, <1>7
=============================================================================

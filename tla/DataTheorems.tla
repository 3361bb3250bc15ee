------------------------------ MODULE DataTheorems -----------------------------
(***************************************************************************)
(* What proofs about the queues, buffers and tables of the system keep     *)
(* needing: the least element of a set of numbers, which stands in for     *)
(* induction, and sequences that are put together and taken apart.         *)
(***************************************************************************)
EXTENDS Integers, Sequences, FiniteSetsExt, Functions, Selection, FiniteSetTheorems,
        SequenceTheorems, WellFoundedInduction, TLAPS

(* The intervals up to the elements of a set of numbers are well-founded.  *)
LEMMA Smallest ==
  ASSUME NEW T \in SUBSET Nat, T # {}
  PROVE  \E x \in T : \A y \in T : x <= y
<1> DEFINE R == StrictSubsetOrdering(Nat)
           F == {0..n : n \in T}
<1>1. \A n \in T : 0..n \in FiniteSubsetsOf(Nat)
  BY FS_Interval DEF FiniteSubsetsOf
<1>2. F \subseteq FiniteSubsetsOf(Nat) /\ F # {}
  BY <1>1
<1>3. IsWellFoundedOn(R, FiniteSubsetsOf(Nat))
  BY FS_StrictSubsetOrderingWellFounded
<1>4. \E X \in F : \A Y \in F : <<Y, X>> \notin R
  <2> HIDE DEF F, R
  <2> QED
    BY <1>2, <1>3, WFMin
<1>5. PICK x \in T : \A y \in T : <<0..y, 0..x>> \notin R
  BY <1>4
<1>6. ASSUME NEW y \in T, y < x
      PROVE  <<0..y, 0..x>> \in R
  <2>1. 0..y \subseteq 0..x /\ x \in 0..x /\ x \notin 0..y /\ 0..x \subseteq Nat
    BY <1>6
  <2> QED
    BY <2>1 DEF StrictSubsetOrdering
<1>7. \A y \in T : x <= y
  <2> SUFFICES ASSUME NEW y \in T, ~(x <= y) PROVE FALSE
    OBVIOUS
  <2>1. x \in Nat /\ y \in Nat
    OBVIOUS
  <2>2. y < x
    BY ONLY <2>1, ~(x <= y)
  <2> HIDE DEF R
  <2> QED
    BY <1>5, <1>6, <2>2
<1> QED
  BY <1>7

LEMMA MinOf ==
  ASSUME NEW T \in SUBSET Nat, T # {}
  PROVE  Min(T) \in T /\ \A y \in T : Min(T) <= y
BY Smallest DEF Min

(* What holds at 0 and on from each number to the next holds up to any.    *)
LEMMA Stepwise ==
  ASSUME NEW n \in Nat, NEW P, 0 \in P, \A i \in 1..n : i - 1 \in P => i \in P
  PROVE  \A i \in 0..n : i \in P
<1> DEFINE T == {i \in 0..n : i \notin P}
<1> SUFFICES ASSUME T # {} PROVE FALSE
  OBVIOUS
<1>1. PICK i \in T : \A k \in T : i <= k
  <2>1. T \in SUBSET Nat
    OBVIOUS
  <2> HIDE DEF T
  <2> QED
    BY <2>1, Smallest
<1>2. i \in 1..n /\ i - 1 \in 0..n /\ ~(i <= i - 1)
  OBVIOUS
<1>3. i - 1 \in P
  BY <1>1, <1>2
<1> QED
  BY <1>2, <1>3

(* A step that can be taken from everywhere can be taken again and again.  *)
Iterates(d, s, g, n) == d = [i \in 0..n |-> IF i = 0 THEN s ELSE g[<<i, d[i - 1]>>]]

LEMMA Iterated ==
  ASSUME NEW S, NEW s \in S, NEW n \in Nat, NEW g \in [(1..n) \X S -> S]
  PROVE  \E d \in [0..n -> S] : Iterates(d, s, g, n)
<1> DEFINE P == {m \in 0..n : \E d \in [0..m -> S] : Iterates(d, s, g, m)}
<1>1. 0 \in P
  <2> DEFINE d == [i \in 0..0 |-> s]
  <2>1. d \in [0..0 -> S] /\ Iterates(d, s, g, 0)
    BY DEF Iterates
  <2> HIDE DEF d
  <2> QED
    BY <2>1
<1>2. ASSUME NEW m \in 1..n, m - 1 \in P PROVE m \in P
  <2>1. PICK d \in [0..(m - 1) -> S] : Iterates(d, s, g, m - 1)
    BY <1>2
  <2> DEFINE x == g[<<m, d[m - 1]>>]
             e == [i \in 0..m |-> IF i = m THEN x ELSE d[i]]
             h == [i \in 0..m |-> IF i = 0 THEN s ELSE g[<<i, e[i - 1]>>]]
  <2>2. \A i \in 0..(m - 1) : d[i] = IF i = 0 THEN s ELSE g[<<i, d[i - 1]>>]
    BY <2>1 DEF Iterates
  <2>3. x \in S
    BY <2>1
  <2> HIDE DEF x
  <2>4. e \in [0..m -> S]
    BY <2>1, <2>3
  <2>5. /\ \A i \in 0..m : e[i] = IF i = m THEN x ELSE d[i]
        /\ \A i \in 0..m : h[i] = IF i = 0 THEN s ELSE g[<<i, e[i - 1]>>]
    OBVIOUS
  <2>6. e = [i \in 0..m |-> e[i]] /\ h = [i \in 0..m |-> h[i]]
    OBVIOUS
  <2> HIDE DEF e, h
  <2>7. ASSUME NEW i \in 0..m PROVE e[i] = h[i]
    <3>1. CASE i = 0
      <4>1. i \in 0..(m - 1) /\ i # m
        BY <3>1
      <4> QED
        BY <2>2, <2>5, <3>1, <4>1
    <3>2. CASE i # 0
      <4>1. i - 1 \in 0..m /\ i - 1 # m /\ (i # m => i \in 0..(m - 1))
        BY <3>2
      <4>2. e[i - 1] = d[i - 1]
        BY <2>5, <4>1
      <4>3. h[i] = g[<<i, d[i - 1]>>]
        BY <2>5, <3>2, <4>2
      <4>4. i = m => e[i] = g[<<i, d[i - 1]>>]
        BY <2>5 DEF x
      <4>5. i # m => e[i] = g[<<i, d[i - 1]>>]
        BY <2>2, <2>5, <3>2, <4>1
      <4> QED
        BY <4>3, <4>4, <4>5
    <3> QED
      BY <3>1, <3>2
  <2>8. e = h
    BY <2>6, <2>7
  <2>9. Iterates(e, s, g, m)
    BY <2>8 DEF Iterates, h
  <2> QED
    BY <2>4, <2>9
<1>3. \A i \in 0..n : i \in P
  <2> HIDE DEF P
  <2> QED
    BY <1>1, <1>2, Stepwise
<1>4. n \in P
  <2> HIDE DEF P
  <2> QED
    BY <1>3
<1> QED
  BY <1>4

LEMMA MaxOf ==
  ASSUME NEW m \in Nat, NEW T \in SUBSET (1..m), T # {}
  PROVE  Max(T) \in T /\ \A y \in T : y <= Max(T)
<1> DEFINE U == {m - x : x \in T}
<1>0. \A x \in T : x \in 1..m /\ m - x \in Nat
  OBVIOUS
<1>1. U \in SUBSET Nat /\ U # {}
  BY <1>0
<1>2. PICK u \in U : \A v \in U : u <= v
  BY <1>1, Smallest
<1>3. \E x \in T : \A y \in T : x >= y
  <2>1. PICK x \in T : u = m - x
    OBVIOUS
  <2>2. \A y \in T : m - x <= m - y
    BY <1>2, <2>1
  <2>3. \A y \in T : x >= y
    BY <1>0, <2>2
  <2> QED
    BY <2>3
<1> QED
  BY <1>3 DEF Max

(* The elements of a finite set of numbers, counted from the least.        *)
LEMMA Ranked ==
  ASSUME NEW m \in Nat, NEW P \in SUBSET (1..m)
  PROVE  /\ Cardinality(P) \in Nat
         /\ \A k \in P : Cardinality(P \cap (1..k)) \in 1..Cardinality(P)
         /\ \A j, k \in P : j < k => Cardinality(P \cap (1..j)) < Cardinality(P \cap (1..k))
         /\ \A n \in 1..Cardinality(P) : \E k \in P : Cardinality(P \cap (1..k)) = n
         /\ \A k \in P : Cardinality(P \cap (1..k)) <= k
<1> DEFINE Upto(k) == P \cap (1..k)
           f == [k \in P |-> Cardinality(Upto(k))]
<1>1. IsFiniteSet(P) /\ Cardinality(P) \in Nat
  <2>1. IsFiniteSet(1..m)
    BY FS_Interval
  <2> QED
    BY <2>1, FS_Subset, FS_CardinalityType
<1>2. ASSUME NEW k \in P
      PROVE  /\ IsFiniteSet(Upto(k)) /\ Cardinality(Upto(k)) \in 1..Cardinality(P)
  <2>1. IsFiniteSet(Upto(k)) /\ Cardinality(Upto(k)) <= Cardinality(P)
    BY <1>1, FS_Subset
  <2>2. Upto(k) # {}
    OBVIOUS
  <2>3. Cardinality(Upto(k)) \in Nat /\ Cardinality(Upto(k)) # 0
    BY <2>1, <2>2, FS_CardinalityType, FS_EmptySet
  <2> QED
    BY <1>1, <2>1, <2>3
<1>3. ASSUME NEW j \in P, NEW k \in P, j < k
      PROVE  Cardinality(Upto(j)) < Cardinality(Upto(k))
  <2>1. Upto(j) \in SUBSET Upto(k) /\ k \in Upto(k) /\ k \notin Upto(j)
    BY <1>3
  <2>2. /\ Cardinality(Upto(j)) <= Cardinality(Upto(k))
        /\ Cardinality(Upto(j)) # Cardinality(Upto(k))
    <3> HIDE DEF Upto
    <3> QED
      BY <1>2, <2>1, FS_Subset
  <2> QED
    BY <1>2, <2>2
<1>4. f \in Injection(P, 1..Cardinality(P))
  <2>1. f \in [P -> 1..Cardinality(P)]
    BY <1>2
  <2>2. ASSUME NEW j \in P, NEW k \in P, f[j] = f[k] PROVE j = k
    <3>1. ~(j < k) /\ ~(k < j)
      BY <1>2, <1>3, <2>2
    <3> QED
      BY <3>1
  <2> HIDE DEF f
  <2> QED
    BY <2>1, <2>2 DEF Injection, IsInjective
<1>5. f \in Surjection(P, 1..Cardinality(P))
  <2>1. /\ IsFiniteSet(1..Cardinality(P))
        /\ Cardinality(1..Cardinality(P)) = Cardinality(P)
    BY <1>1, FS_Interval
  <2> HIDE DEF f
  <2> QED
    BY <1>4, <2>1, FS_Injection
<1>6. \A n \in 1..Cardinality(P) : \E k \in P : Cardinality(Upto(k)) = n
  BY <1>5 DEF Surjection
<1>7. ASSUME NEW k \in P
      PROVE  Cardinality(Upto(k)) <= k
  <2>1. k \in Nat /\ IsFiniteSet(1..k) /\ Cardinality(1..k) = k
    BY FS_Interval
  <2>2. Upto(k) \subseteq 1..k
    OBVIOUS
  <2> HIDE DEF Upto
  <2> QED
    BY <2>1, <2>2, FS_Subset
<1> QED
  BY <1>1, <1>2, <1>3, <1>6, <1>7

-------------------------------------------------------------------------------
LEMMA ShortSequences ==
  ASSUME NEW x, NEW y
  PROVE  /\ Head(<<x>>) = x /\ Tail(<<x>>) = <<>> /\ Head(<<x, y>>) = x /\ Tail(<<x, y>>) = <<y>>
         /\ Append(<<>>, x) = <<x>> /\ Append(<<x>>, y) = <<x, y>>
<1>1. Head(<<x>>) = x /\ Tail(<<x>>) = <<>> /\ Append(<<>>, x) = <<x>>
  OBVIOUS
<1>2. Head(<<x, y>>) = x /\ Tail(<<x, y>>) = <<y>>
  OBVIOUS
<1> DEFINE S == {x, y}
           s == Append(<<x>>, y)
           t == <<x, y>>
<1>3. s \in Seq(S) /\ t \in Seq(S) /\ Len(s) = 2 /\ Len(t) = 2
  OBVIOUS
<1>4. s[1] = x /\ s[2] = y
  OBVIOUS
<1>5. t[1] = x /\ t[2] = y
  OBVIOUS
<1>6. s = t
  <2> HIDE DEF S, s, t
  <2>1. \A i \in 1..Len(s) : s[i] = t[i]
    BY <1>3, <1>4, <1>5
  <2> QED
    BY <1>3, <2>1, SeqEqual
<1> QED
  BY <1>1, <1>2, <1>6

(* What stands where in two or three sequences that were put together.     *)
LEMMA Places ==
  ASSUME NEW S, NEW a \in Seq(S), NEW b \in Seq(S)
  PROVE  /\ a \o b \in Seq(S) /\ Len(a \o b) = Len(a) + Len(b)
         /\ Len(a) \in Nat /\ Len(b) \in Nat
         /\ \A k \in 1..Len(a) : (a \o b)[k] = a[k]
         /\ \A k \in 1..Len(b) : (a \o b)[Len(a) + k] = b[k]
OBVIOUS

LEMMA Regrouped ==
  ASSUME NEW S
  PROVE  \A a, b, c \in Seq(S) : (a \o b) \o c = a \o (b \o c)
<1> TAKE a, b, c \in Seq(S)
<1> QED
  BY ConcatAssociative

(* What is taken out of a sequence is there once each and in its order.    *)
LEMMA PlacesInOrder ==
  ASSUME NEW S, NEW s \in Seq(S), NEW places \in SUBSET DOMAIN s
  PROVE  /\ AtPlaces(s, places) \in Seq(S) /\ Cardinality(places) \in Nat
         /\ Len(AtPlaces(s, places)) = Cardinality(places)
         /\ \E at \in [1..Cardinality(places) -> places] :
              /\ \A n \in 1..Cardinality(places) : AtPlaces(s, places)[n] = s[at[n]]
              /\ \A m, n \in 1..Cardinality(places) : m < n => at[m] < at[n]
              /\ \A k \in places : \E n \in 1..Cardinality(places) : at[n] = k
              /\ \A n \in 1..Cardinality(places) : n <= at[n]
<1>1. Len(s) \in Nat /\ places \in SUBSET (1..Len(s))
  OBVIOUS
<1> DEFINE Rank(k) == Cardinality(places \cap (1..k))
           place(n) == CHOOSE k \in places : Rank(k) = n
<1>2. /\ Cardinality(places) \in Nat
      /\ \A k \in places : Rank(k) \in 1..Cardinality(places)
      /\ \A j, k \in places : j < k => Rank(j) < Rank(k)
      /\ \A n \in 1..Cardinality(places) : \E k \in places : Rank(k) = n
      /\ \A k \in places : Rank(k) <= k
  BY <1>1, Ranked
<1>3. AtPlaces(s, places) = [n \in 1..Cardinality(places) |-> s[place(n)]]
  BY DEF AtPlaces
<1> HIDE DEF Rank
<1>4. \A n \in 1..Cardinality(places) : place(n) \in places /\ Rank(place(n)) = n
  BY <1>2
<1>5. \A k \in places : place(Rank(k)) = k
  <2> SUFFICES ASSUME NEW k \in places PROVE place(Rank(k)) = k
    OBVIOUS
  <2>1. place(Rank(k)) \in places /\ Rank(place(Rank(k))) = Rank(k)
    BY <1>2, <1>4
  <2> HIDE DEF place
  <2>2. ~(place(Rank(k)) < k) /\ ~(k < place(Rank(k)))
    BY <1>2, <2>1
  <2>3. place(Rank(k)) \in Nat /\ k \in Nat
    BY <1>1, <2>1
  <2> QED
    BY <2>2, <2>3
<1>6. \A m, n \in 1..Cardinality(places) : m < n => place(m) < place(n)
  <2> SUFFICES ASSUME NEW m \in 1..Cardinality(places), NEW n \in 1..Cardinality(places), m < n
               PROVE  place(m) < place(n)
    OBVIOUS
  <2>1. /\ place(m) \in places /\ Rank(place(m)) = m
        /\ place(n) \in places /\ Rank(place(n)) = n
    BY <1>4
  <2> HIDE DEF place
  <2>2. place(m) # place(n) /\ ~(place(n) < place(m))
    BY <1>2, <2>1
  <2>3. place(m) \in Nat /\ place(n) \in Nat
    BY <1>1, <2>1
  <2> QED
    BY <2>2, <2>3
<1> HIDE DEF place
<1>7. \A n \in 1..Cardinality(places) : s[place(n)] \in S
  BY <1>4
<1>8. AtPlaces(s, places) \in Seq(S) /\ Len(AtPlaces(s, places)) = Cardinality(places)
  BY <1>2, <1>3, <1>7
<1> DEFINE at == [n \in 1..Cardinality(places) |-> place(n)]
<1>9. at \in [1..Cardinality(places) -> places]
  BY <1>4
<1>10. \A n \in 1..Cardinality(places) : AtPlaces(s, places)[n] = s[at[n]] /\ at[n] = place(n)
  BY <1>3
<1>11. \A k \in places : \E n \in 1..Cardinality(places) : at[n] = k
  BY <1>2, <1>5
<1> HIDE DEF at
<1>12. \A m, n \in 1..Cardinality(places) : m < n => at[m] < at[n]
  BY <1>6, <1>10
<1>13. \A n \in 1..Cardinality(places) : n <= at[n]
  BY <1>2, <1>4, <1>10
<1> QED
  BY <1>2, <1>8, <1>9, <1>10, <1>11, <1>12, <1>13

LEMMA PlacesKept ==
  ASSUME NEW S, NEW s \in Seq(S), NEW places \in SUBSET DOMAIN s
  PROVE  /\ AtPlaces(s, places) \in Seq(S)
         /\ \A n \in DOMAIN AtPlaces(s, places) :
              \E k \in places : AtPlaces(s, places)[n] = s[k]
         /\ \A k \in places : \E n \in DOMAIN AtPlaces(s, places) :
              AtPlaces(s, places)[n] = s[k]
<1> DEFINE t == AtPlaces(s, places)
<1>1. PICK at \in [1..Cardinality(places) -> places] :
        /\ \A n \in 1..Cardinality(places) : t[n] = s[at[n]]
        /\ \A k \in places : \E n \in 1..Cardinality(places) : at[n] = k
  BY SMTT(20), PlacesInOrder
<1>2. t \in Seq(S) /\ Len(t) = Cardinality(places) /\ Cardinality(places) \in Nat
  BY PlacesInOrder
<1> HIDE DEF t
<1>3. DOMAIN t = 1..Cardinality(places)
  BY <1>2
<1>4. t \in Seq(S) /\ \A n \in DOMAIN t : \E k \in places : t[n] = s[k]
  BY <1>1, <1>2, <1>3
<1>5. \A k \in places : \E n \in DOMAIN t : t[n] = s[k]
  BY <1>1, <1>3
<1> QED
  BY <1>4, <1>5 DEF t

(* A sequence is what is before a place and what is after it.              *)
LEMMA Divided ==
  ASSUME NEW S, NEW s \in Seq(S), NEW n \in 0..Len(s)
  PROVE  /\ SubSeq(s, 1, n) \in Seq(S) /\ SubSeq(s, n + 1, Len(s)) \in Seq(S)
         /\ Len(SubSeq(s, 1, n)) = n
         /\ SubSeq(s, 1, n) \o SubSeq(s, n + 1, Len(s)) = s
<1> DEFINE a == SubSeq(s, 1, n)
           b == SubSeq(s, n + 1, Len(s))
<1>1. a \in Seq(S) /\ Len(a) = n /\ \A k \in 1..n : a[k] = s[k]
  OBVIOUS
<1>2. b \in Seq(S) /\ Len(b) = Len(s) - n /\ \A k \in 1..Len(s) - n : b[k] = s[n + k]
  OBVIOUS
<1>3. a \o b = s
  <2> HIDE DEF a, b
  <2>0. Len(s) \in Nat /\ n \in Nat /\ n <= Len(s)
    OBVIOUS
  <2>1. a \o b \in Seq(S) /\ Len(a \o b) = Len(s)
    <3>1. a \o b \in Seq(S) /\ Len(a \o b) = Len(a) + Len(b)
      BY <1>1, <1>2, Places
    <3> QED
      BY ONLY <1>1, <1>2, <2>0, <3>1
  <2>2. \A k \in 1..Len(s) : (a \o b)[k] = s[k]
    <3> TAKE k \in 1..Len(s)
    <3>0. k <= n \/ k > n
      BY ONLY <2>0, k \in 1..Len(s)
    <3>1. CASE k <= n
      BY <1>1, <1>2, <3>1
    <3>2. CASE k > n
      <4>1. k - n \in 1..Len(s) - n /\ b[k - n] = s[k]
        BY <1>2, <3>2
      <4> QED
        BY <1>1, <1>2, <3>2, <4>1
    <3> QED
      BY <3>0, <3>1, <3>2
  <2> QED
    BY <2>1, <2>2, SeqEqual
<1> QED
  BY <1>1, <1>2, <1>3
===============================================================================
